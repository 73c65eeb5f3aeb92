----------------------------- MODULE MCRuntime ------------------------------
(***************************************************************************)
(* Small instances of Runtime: one lineage with two revisions, and two     *)
(* executions that replay one request under the first revision.            *)
(***************************************************************************)
EXTENDS Runtime, TLC

contractOf(hash, rev, prev, to) ==
    [contractId |-> "C", contractHash |-> hash, revision |-> rev,
     previousRevisionHash |-> prev, notBefore |-> 0, expiresAt |-> to,
     limits |-> [maxUniqueModifiedFiles |-> 1, maxMutationBytes |-> 2, maxTestRuns |-> 0],
     bindings |-> "b", allowedEffectClasses |-> {"local.reversible"}]

c1 == contractOf("c1", 1, "none", 2)
c2 == contractOf("c2", 2, "c1", 2)

MCVerifiedContracts == {c1, c2}

MCCasExpectations ==
    {[contractHash |-> c.contractHash, revision |-> c.revision,
      revocationEpoch |-> c.revision - 1] : c \in MCVerifiedContracts}

MCTime == 0..1

Symmetry == Permutations(Executions)

MCContractOf == [e \in Executions |-> c1]
MCRequestOf == [e \in Executions |-> "r"]
MCObjectOf == [e \in Executions |-> "o"]
MCChargeOf ==
    [e \in Executions |-> [uniqueModifiedFiles |-> 1, mutationBytes |-> 1, testRuns |-> 0]]

\* Every ticket the Guardian could build.
MCRegistrations ==
    {registrationFor(e, t, [contractId |-> "C", contractHash |-> "c1", revision |-> 1,
                            revocationEpoch |-> 0, status |-> "active"]) :
        e \in Executions, t \in {u \in MCTime : u < c1.expiresAt}}

obs(wellFormed, canonical, level, pre, post) ==
    [wellFormed |-> wellFormed, canonical |-> canonical, level |-> level,
     pre |-> pre, post |-> post]

\* One result for every way of closing.
MCAttestable ==
    {obs(FALSE, FALSE, "attempt_only", FALSE, FALSE),
     obs(TRUE, FALSE, "adapter_observed", TRUE, FALSE),
     obs(TRUE, FALSE, "adapter_observed", FALSE, TRUE),
     obs(TRUE, TRUE, "adapter_observed", FALSE, FALSE),
     obs(TRUE, TRUE, "local_state_reconciled", TRUE, TRUE)}

\* Results the runtime accepts but cannot attest as committed.
MCUnattestable ==
    {obs(TRUE, TRUE, "attempt_only", FALSE, FALSE),
     obs(TRUE, TRUE, "local_state_reconciled", FALSE, TRUE),
     obs(TRUE, TRUE, "independently_reconciled", TRUE, TRUE)}

MCObservations == MCAttestable \cup MCUnattestable
=============================================================================
