------------------------- MODULE MCPagesDeployment -------------------------
(***************************************************************************)
(* PagesDeployment with an attempt that may be lost, the recovery of it,   *)
(* and an operation of another commit that runs beside them; or, in        *)
(* MCSameCommit, an earlier operation of the same commit. The record of    *)
(* the recovery is as it was minted, or differs from that in one place.    *)
(***************************************************************************)
EXTENDS PagesDeployment

CONSTANTS prior, recovery, rival, old, new, other, head, head2

MCAttempts == {prior, recovery, rival}
MCGenerations == {old, new, other}
MCGenerationOf ==
    [a \in MCAttempts |-> IF a = rival THEN other ELSE new]
MCExpected == [a \in MCAttempts |-> old]
MCPriorOf == [a \in MCAttempts |-> IF a = recovery THEN prior ELSE NoAttempt]
MCVersionOf == [a \in MCAttempts |-> IF a = rival THEN head2 ELSE head]
MCSameCommit == [a \in MCAttempts |-> head]

-----------------------------------------------------------------------------
(* Recovery records.                                                       *)

Proof == BuildRunAttemptGapProof("repository", "run", 1, 4)
ProofWith(member, value) == (member :> value) @@ Proof
Sealed(proof) == ("proofDigest" :> ComputeGapProofDigest(proof)) @@ proof
Rows == Proof.interveningAttempts
OtherDigest == DomainDigest("other", <<>>)

\* The rows dropped, doubled, swapped, of another state, of another
\* repository; coordinates out of bounds or order; another digest.
DamagedProofs ==
    {Sealed(ProofWith("interveningAttempts", rows)) : rows \in {
        <<>>, <<Rows[2]>>, <<Rows[1], Rows[1]>>, <<Rows[2], Rows[1]>>,
        <<Rows[1], Rows[2], Rows[2]>>,
        <<Rows[1], [Rows[2] EXCEPT !.decisionDigest = OtherDigest]>>,
        <<Rows[1], [Rows[2] EXCEPT !.authorityState = "open"]>>}}
    \cup {BuildRunAttemptGapProof("another", "run", 1, 4),
          BuildRunAttemptGapProof("repository", "run", 0, 2),
          BuildRunAttemptGapProof("repository", "run", 50, 52),
          BuildRunAttemptGapProof("repository", "run", 2, 2),
          BuildRunAttemptGapProof("repository", "run", 4, 2),
          Sealed(ProofWith("profile", "v1")), Sealed(ProofWith("extra", "member")),
          Sealed(Without(Proof, "runId")), Without(Proof, "proofDigest"),
          ProofWith("proofDigest", OtherDigest)}

Unsealed ==
    [member \in RecoveryRequiredMembers \ {"recoveryDigest"} |->
        CASE member = "profile" -> "gala-pages-reconciliation-recovery-v2"
          [] member = "priorAuthorityEpoch" -> 7
          [] member = "priorPagesBuildVersion" -> head
          [] member = "runAttemptGapProof" -> Proof
          [] OTHER -> "minted"]
UnsealedWith(member, value) == (member :> value) @@ Unsealed

Minted ==
    {SealRecoveryRecord(record) : record \in {
        Unsealed, UnsealedWith("priorExpectedGenerationId", "minted"),
        UnsealedWith("runAttemptGapProof", BuildRunAttemptGapProof("repository", "run", 1, 2))}}

Misshapen ==
    {SealRecoveryRecord(UnsealedWith("runAttemptGapProof", proof)) : proof \in DamagedProofs}
    \cup {SealRecoveryRecord(Without(Unsealed, member)) : member \in DOMAIN Unsealed}
    \cup {SealRecoveryRecord(record) : record \in {
            UnsealedWith("profile", "v1"), UnsealedWith("extra", "member"),
            UnsealedWith("priorAuthorityEpoch", 0)}}
    \cup {Unsealed}

\* A member changed after the record was sealed.
Altered ==
    LET sealed == SealRecoveryRecord(Unsealed)
    IN  {("priorPagesBuildVersion" :> head2) @@ sealed, ("priorAuthorityEpoch" :> 8) @@ sealed,
         ("recoveryDigest" :> OtherDigest) @@ sealed}
        \cup {(member :> "changed") @@ sealed : member \in {
            "reconcileCommandId", "priorAttemptId", "priorIntentDigest", "priorAuthorityId",
            "priorProposedGenerationId", "priorFenceEvidenceDigest"}}

-----------------------------------------------------------------------------
(* Inputs.                                                                 *)

Claims(a) ==
    [claim \in BoundClaims |->
        CASE claim = "sha" -> MCVersionOf[a]
          [] claim = "run_attempt" -> a
          [] OTHER -> "expected"]

Token(a) == [isCurrent |-> TRUE, claims |-> ("sub" :> "name") @@ Claims(a)]

Tokens(a) ==
    {Token(a), [Token(a) EXCEPT !.isCurrent = FALSE], [Token(a) EXCEPT !.claims["sub"] = "identifier"],
     [Token(a) EXCEPT !.claims["sub"] = "name and identifier"]}
    \cup {[Token(a) EXCEPT !.claims[claim] = "another"] : claim \in BoundClaims}
    \cup {[Token(a) EXCEPT !.claims = Without(@, claim)] : claim \in BoundClaims}
    \cup {Token(b) : b \in MCAttempts}

Input(a, mode, pagesRecovery) ==
    [mode |-> mode, pagesRecovery |-> pagesRecovery,
     pagesOidcToken |-> <<Token(a)>>, pagesOidcClaims |-> <<Claims(a)>>]

\* A good input, with one thing wrong with it.
Variants(input, a) ==
    {input, [input EXCEPT !.mode = "other"], [input EXCEPT !.pagesOidcToken = <<>>],
     [input EXCEPT !.pagesOidcClaims = <<>>]}
    \cup {[input EXCEPT !.pagesOidcToken = <<token>>] : token \in Tokens(a)}

MCInputsOf ==
    [a \in MCAttempts |->
        IF a = recovery
          THEN UNION {Variants(Input(a, RecoveryMode, <<record>>), a) : record \in Minted}
               \cup {Input(a, RecoveryMode, <<record>>) : record \in Misshapen \cup Altered}
               \cup {Input(a, RecoveryMode, <<>>)}
          ELSE Variants(Input(a, NormalMode, <<>>), a)
               \cup {Input(a, NormalMode, <<record>>) : record \in Minted}]

\* The inputs are among those that the theorems are about.
ASSUME RecoveriesAreCalledSo
=============================================================================
