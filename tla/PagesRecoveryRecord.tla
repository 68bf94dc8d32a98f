------------------------ MODULE PagesRecoveryRecord ------------------------
(***************************************************************************)
(* The record that authorizes the recovery of a lost Pages attempt, and    *)
(* the proof in it that no attempt between the lost one and the one that   *)
(* claims the recovery ever had authority over the destination. The server *)
(* mints both; the adapter checks them before it calls the provider.       *)
(*                                                                         *)
(* A record is a function on its members; a required member that is absent *)
(* or off its pattern is not in the domain, and an optional one off its    *)
(* pattern is a member nobody declared. A digest is what it is taken over. *)
(*                                                                         *)
(* Source: packages/adapter-github-pages/src/recovery.js.                  *)
(***************************************************************************)
EXTENDS Naturals, Functions, TLC

PriorRunAttempts == 1 .. 50
ClaimingRunAttempts == 2 .. 51

DomainDigest(domain, document) == [domain |-> domain, of |-> document]
Without(record, member) == Restrict(record, DOMAIN record \ {member})

-----------------------------------------------------------------------------
(* The attempts in between.                                                *)

ComputeInterveningAttemptDigest(repositoryId, runId, runAttempt) ==
    DomainDigest("pages-no-authority-run-attempt",
                 [repositoryId |-> repositoryId, runId |-> runId, runAttempt |-> runAttempt,
                  authorityState |-> "closed-no-destination-authority"])

(* One row for every attempt strictly between the two, in their order. *)
BuildInterveningAttempts(repositoryId, runId, prior, claiming) ==
    [row \in 1 .. claiming - prior - 1 |->
        [runAttempt |-> prior + row,
         authorityState |-> "closed-no-destination-authority",
         decisionDigest |-> ComputeInterveningAttemptDigest(repositoryId, runId, prior + row)]]

GapProofMembers ==
    {"profile", "runId", "priorRunAttempt", "claimingRunAttempt", "interveningAttempts",
     "proofDigest"}

ComputeGapProofDigest(proof) ==
    DomainDigest("pages-run-attempt-gap-proof", Without(proof, "proofDigest"))

BuildRunAttemptGapProof(repositoryId, runId, prior, claiming) ==
    LET proof == [profile |-> "gala-pages-run-attempt-gap-proof-v2", runId |-> runId,
                  priorRunAttempt |-> prior, claimingRunAttempt |-> claiming,
                  interveningAttempts |->
                      BuildInterveningAttempts(repositoryId, runId, prior, claiming)]
    IN  proof @@ ("proofDigest" :> ComputeGapProofDigest(proof))

ValidateRunAttemptGapProof(proof, repositoryId) ==
    /\ DOMAIN proof = GapProofMembers
    /\ proof.profile = "gala-pages-run-attempt-gap-proof-v2"
    /\ proof.priorRunAttempt \in PriorRunAttempts
    /\ proof.claimingRunAttempt \in ClaimingRunAttempts
    /\ proof.priorRunAttempt < proof.claimingRunAttempt
    /\ proof.interveningAttempts =
          BuildInterveningAttempts(repositoryId, proof.runId,
                                   proof.priorRunAttempt, proof.claimingRunAttempt)
    /\ proof.proofDigest = ComputeGapProofDigest(proof)

-----------------------------------------------------------------------------
(* The record.                                                             *)

RecoveryRequiredMembers ==
    {"profile", "reconcileCommandId", "reconcileCommandDigest", "reconcileCommandExpiresAt",
     "priorAttemptId", "priorIntentDigest", "priorAuthorityEpoch", "priorAuthorityId",
     "priorProposedGenerationId", "priorPagesBuildVersion", "priorFenceEvidenceDigest",
     "runAttemptGapProof", "recoveryDigest"}

RecoveryOptionalMembers == {"priorExpectedGenerationId"}

ComputeRecoveryDigest(recovery) ==
    DomainDigest("pages-reconciliation-recovery", Without(recovery, "recoveryDigest"))

SealRecoveryRecord(recovery) ==
    recovery @@ ("recoveryDigest" :> ComputeRecoveryDigest(recovery))

\* Mutant: the members are checked, and not that they are the sealed ones.
ValidateMembersOnly(recovery, repositoryId) ==
    /\ RecoveryRequiredMembers \subseteq DOMAIN recovery
    /\ DOMAIN recovery \subseteq RecoveryRequiredMembers \cup RecoveryOptionalMembers
    /\ recovery.profile = "gala-pages-reconciliation-recovery-v2"
    /\ recovery.priorAuthorityEpoch >= 1
    /\ ValidateRunAttemptGapProof(recovery.runAttemptGapProof, repositoryId)

(* Nothing else is compared: not the command's expiry with the clock, nor  *)
(* the run, the attempt or the generation with those of the caller.        *)
ValidateReconciliationRecovery(recovery, repositoryId) ==
    /\ RecoveryRequiredMembers \subseteq DOMAIN recovery
    /\ DOMAIN recovery \subseteq RecoveryRequiredMembers \cup RecoveryOptionalMembers
    /\ recovery.profile = "gala-pages-reconciliation-recovery-v2"
    /\ recovery.priorAuthorityEpoch >= 1
    /\ ValidateRunAttemptGapProof(recovery.runAttemptGapProof, repositoryId)
    /\ recovery.recoveryDigest = ComputeRecoveryDigest(recovery)
=============================================================================
