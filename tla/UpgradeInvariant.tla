-------------------------- MODULE UpgradeInvariant --------------------------
(***************************************************************************)
(* The inductive invariant behind SealedBuildIsDeployed.                   *)
(***************************************************************************)
EXTENDS VoteInvariant

HoldsReviewed(acc, args) ==
    /\ acc.owner = BPF_LOADER_UPGRADEABLE_ID
    /\ hash_to_hex(compute_program_hash(acc.data.bytes)) = args.expected_hash

(***************************************************************************)
(* Halfway through a transaction in which no foreign program has run yet:  *)
(* each buffer that verify_buffer_hash has accepted holds the build whose  *)
(* hash was shown.                                                         *)
(***************************************************************************)
OnlyKnown == \A k \in DOMAIN tx.instructions : k < pc => ~ IsForeign(tx.instructions[k])

VerifiedHashes ==
    OnlyKnown =>
        \A k \in Calling(tx, IX_VERIFY_BUFFER_HASH) : k < pc =>
            LET args == Args(tx.instructions[k])
            IN  args.buffer \in Buffers /\ HoldsReviewed(staged[args.buffer], args)

(***************************************************************************)
(* A transaction in flight cannot touch a buffer of the vault.             *)
(***************************************************************************)
VaultKept == \A b \in Buffers : HeldBy(buffer[b], VAULT) => staged[b] = buffer[b]

(***************************************************************************)
(* A buffer that was the vault's when it was reviewed is still the vault's *)
(* and holds the reviewed build, until the vault uses it.                  *)
(***************************************************************************)
Untouched(r) == r.sealed /\ r.uses = uses[r.args.buffer]

SealedReviews ==
    \A r \in reviewed : r.sealed =>
        /\ r.args.buffer \in Buffers
        /\ r.uses \in Nat /\ r.uses <= uses[r.args.buffer]
        /\ Untouched(r) => /\ HeldBy(buffer[r.args.buffer], VAULT)
                           /\ HoldsReviewed(buffer[r.args.buffer], r.args)

(***************************************************************************)
(* A deployment was a use: whatever is reviewed now, it was not for it.    *)
(***************************************************************************)
DeployedBefore ==
    \A d \in deployed : d.buffer \in Buffers /\ d.uses \in Nat /\ d.uses < uses[d.buffer]

(***************************************************************************)
(* The reviewed build, at any time before its deployment (lib.rs:166-168): *)
(* verified in the transaction in flight, unchanged in the buffer of the   *)
(* vault, or deployed.                                                     *)
(***************************************************************************)
UInv ==
    /\ VerifiedHashes /\ VaultKept /\ SealedReviews /\ DeployedBefore
    /\ SealedBuildIsDeployed
=============================================================================
