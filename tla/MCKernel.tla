------------------------------ MODULE MCKernel ------------------------------
(***************************************************************************)
(* Small instance of Kernel: one contract lineage with two competing       *)
(* candidates for revision 2 (one of them with lower limits), a second,    *)
(* unrelated lineage, and tickets that collide on request ids, on          *)
(* reservation ids across lineages and on the object they modify.          *)
(***************************************************************************)
EXTENDS Kernel

limits(files, bytes) ==
    [maxUniqueModifiedFiles |-> files, maxMutationBytes |-> bytes, maxTestRuns |-> 1]

contractOf(id, hash, rev, prev, from, to, lim) ==
    [contractId |-> id, contractHash |-> hash, revision |-> rev,
     previousRevisionHash |-> prev, notBefore |-> from, expiresAt |-> to,
     limits |-> lim, bindings |-> "b", allowedEffectClasses |-> {"local.reversible"}]

MCVerifiedContracts ==
    {contractOf("C", "c1", 1, "none", 0, 2, limits(1, 3)),
     contractOf("C", "c2", 2, "c1", 0, 2, limits(2, 2)),
     contractOf("C", "c2b", 2, "c1", 1, 2, limits(1, 1)),
     contractOf("D", "d1", 1, "none", 0, 2, limits(1, 1))}

MCCasExpectations ==
    {[contractHash |-> c.contractHash, revision |-> c.revision, revocationEpoch |-> e] :
        c \in MCVerifiedContracts, e \in 0..2}

registration(tid, req, res, c, epoch, obj, charge, from, to) ==
    [ticket |-> [ticketId |-> tid, requestId |-> req, budgetReservationId |-> res,
                 contractHash |-> c.contractHash, contractRevision |-> c.revision,
                 revocationEpoch |-> epoch, bindings |-> "b",
                 effectClass |-> "local.reversible", resolvedObjectId |-> obj,
                 issuedAt |-> from, expiresAt |-> to],
     expectedActive |-> [contractId |-> c.contractId, contractHash |-> c.contractHash,
                         revision |-> c.revision, revocationEpoch |-> epoch,
                         status |-> "active"],
     limits |-> c.limits,
     charge |-> charge]

\* budgetChargeFor: file mutations of one and two bytes, and a test run.
writeOne == [uniqueModifiedFiles |-> 1, mutationBytes |-> 1, testRuns |-> 0]
writeTwo == [uniqueModifiedFiles |-> 1, mutationBytes |-> 2, testRuns |-> 0]
runTest == [uniqueModifiedFiles |-> 0, mutationBytes |-> 0, testRuns |-> 1]

hashed(h) == CHOOSE c \in MCVerifiedContracts : c.contractHash = h

MCRegistrations ==
    {registration("t1", "r1", "v1", hashed("c1"), 0, "o1", writeOne, 0, 1),
     registration("t2", "r2", "v2", hashed("c1"), 0, "o1", writeTwo, 0, 2),
     registration("t3", "r1", "v3", hashed("c2"), 1, "o2", writeOne, 0, 2),
     registration("t4", "r4", "v1", hashed("d1"), 0, "o1", runTest, 1, 2)}
=============================================================================
