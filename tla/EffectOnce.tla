----------------------------- MODULE EffectOnce -----------------------------
(***************************************************************************)
(* What the execution packages promise about one requested effect, stated  *)
(* without tickets, stores or processes: authority for a request is either *)
(* refused, which proves that nothing happened, or granted once; the       *)
(* effect happens at most once and only under granted authority; and the   *)
(* request is closed once, claiming success only for an effect that        *)
(* happened and the absence of an effect only when there is none and never *)
(* will be.  "uncertain" claims nothing, so an effect still in flight may  *)
(* complete after it.                                                      *)
(***************************************************************************)
EXTENDS Naturals

CONSTANT Requests

VARIABLES
    authority,  \* request -> what has been decided about it
    performed   \* request -> how often its effect has taken place

effectVars == <<authority, performed>>

Claims == {"committed", "result-unavailable"}

EffectInit ==
    /\ authority = [r \in Requests |-> "open"]
    /\ performed = [r \in Requests |-> 0]

Grant(r) ==
    /\ authority[r] = "open"
    /\ authority' = [authority EXCEPT ![r] = "granted"]
    /\ UNCHANGED performed

\* Several requests at once: the end of an authority refuses all that rest on it.
Refuse(rs) ==
    /\ \A r \in rs : authority[r] = "open"
    /\ authority' = [r \in Requests |-> IF r \in rs THEN "failed-no-effect" ELSE authority[r]]
    /\ UNCHANGED performed

Perform(r) ==
    /\ authority[r] \in {"granted", "uncertain"}
    /\ performed[r] = 0
    /\ performed' = [performed EXCEPT ![r] = 1]
    /\ UNCHANGED authority

Close(r, outcome) ==
    /\ authority[r] = "granted"
    /\ outcome \in Claims => performed[r] = 1
    /\ outcome = "failed-no-effect" => performed[r] = 0
    /\ authority' = [authority EXCEPT ![r] = outcome]
    /\ UNCHANGED performed

EffectNext ==
    \/ \E rs \in SUBSET Requests : Refuse(rs)
    \/ \E r \in Requests :
        \/ Grant(r)
        \/ Perform(r)
        \/ \E outcome \in Claims \cup {"failed-no-effect", "uncertain"} : Close(r, outcome)

EffectSpec == EffectInit /\ [][EffectNext]_effectVars
=============================================================================
