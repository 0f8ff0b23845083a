----------------------------- MODULE MCUpgrade ------------------------------
(***************************************************************************)
(* Upgrade proposals: a buffer that its deployer creates, writes and hands *)
(* to the vault, again after each use of it, and votes on two proposals    *)
(* that show the hash of a build. Some of the transactions let the loader  *)
(* or another foreign program run beside verify_proposal, for the          *)
(* inductive invariants to be put to the test.                             *)
(***************************************************************************)
EXTENDS UpgradeInvariant

CONSTANTS ms, alice, bob, handle, foreign, b1, b2

MCMultisigs == {ms}
MCMembers == {alice, bob}
MCClearSigners == {alice}
MCBuffers == {b1, b2}
MCBuilds == {<<>>, <<1, 0>>}
MCInitialAddresses == [t \in Tables |-> <<>>]

\* Distinct on the byte sequences of this instance, untrimmed ones included.
MCSha256(bytes) == <<16 * Len(bytes) + IF bytes = <<>> THEN 10 ELSE bytes[1]>>

-----------------------------------------------------------------------------
(***************************************************************************)
(* What the proposals do to b1: an upgrade, another instruction of the     *)
(* loader, or one after the other.                                         *)
(***************************************************************************)
Message(datas) ==
    [num_signers |-> 1, num_writable_signers |-> 1, num_writable_non_signers |-> 1,
     account_keys |-> <<VAULT, b1, BPF_LOADER_UPGRADEABLE_ID>>,
     instructions |-> [i \in DOMAIN datas |->
         [program_id_index |-> 2, account_indexes |-> <<1, 0>>, data |-> datas[i]]],
     address_table_lookups |-> <<>>]

Upgrade == <<IX_UPGRADE>>
Handle == <<handle>>
HandleAndUpgrade == <<handle, IX_UPGRADE>>

MCContents ==
    {[vault_index |-> 0, ephemeral_signer_bumps |-> <<>>, message |-> Message(datas)] :
        datas \in {Upgrade, Handle, HandleAndUpgrade}}

Shows(datas) ==
    [i \in DOMAIN datas |->
        [program_id |-> BPF_LOADER_UPGRADEABLE_ID, data |-> datas[i],
         accounts |-> <<[pubkey |-> b1, is_signer |-> FALSE, is_writable |-> TRUE],
                        [pubkey |-> VAULT, is_signer |-> TRUE, is_writable |-> TRUE]>>]]

-----------------------------------------------------------------------------
VerifyBuffer(b, passed, hash) ==
    [program_id |-> SELF, accounts |-> <<passed>>,
     data |-> <<IX_VERIFY_BUFFER_HASH, [buffer |-> b, expected_hash |-> hash]>>]

Verify(i, datas) ==
    [program_id |-> SELF,
     accounts |-> <<derive_transaction_pda(ms, i), INSTRUCTIONS_SYSVAR_ID>>,
     data |-> <<IX_VERIFY_PROPOSAL,
                [multisig |-> ms, transaction_index |-> i, vault_index |-> 0,
                 num_ephemeral_signers |-> 0, member |-> alice, action |-> "Approve",
                 instructions |-> Shows(datas)]>>]

ApproveIx(i, member) ==
    [program_id |-> SQUADS_PROGRAM_ID, data |-> <<discriminator["Approve"]>>,
     accounts |-> <<ms, member, derive_proposal_pda(ms, i)>>]

BudgetIx == [program_id |-> COMPUTE_BUDGET_PROGRAM_ID, data |-> <<>>, accounts |-> <<>>]
ForeignIx == [program_id |-> foreign, data |-> <<>>, accounts |-> <<alice>>]
LoaderIx == [program_id |-> BPF_LOADER_UPGRADEABLE_ID, data |-> <<>>, accounts |-> <<DEPLOYER>>]
UnknownIx == [program_id |-> SELF, data |-> <<>>, accounts |-> <<>>]

HashOf(build) == hash_to_hex(compute_program_hash(build))

\* The hash of a build in upper case, and one cut short.
OddHashes == {<<49, 65>>, <<49>>}

(***************************************************************************)
(* The transactions: reviews of either proposal; reviews that fail or come *)
(* after the vote; foreign instructions; the deployer at work beside a     *)
(* vote with and without content.                                          *)
(***************************************************************************)
Signed(ixs) == [signers |-> {alice}, instructions |-> ixs]

Reviews ==
    {Signed(<<VerifyBuffer(b1, b1, HashOf(build)), Verify(i, Upgrade), ApproveIx(i, alice)>>) :
        i \in 1..MaxIndex, build \in MCBuilds} \cup
    {Signed(<<Verify(1, Handle), ApproveIx(1, alice)>>),
     Signed(<<VerifyBuffer(b1, b1, HashOf(<<1>>)),
              Verify(2, HandleAndUpgrade), ApproveIx(2, alice)>>)}

FailingReviews ==
    {Signed(<<BudgetIx, VerifyBuffer(b1, b1, hash), Verify(1, Upgrade), ApproveIx(1, alice)>>) :
        hash \in OddHashes} \cup
    {Signed(<<VerifyBuffer(b1, passed, HashOf(<<1>>)), Verify(1, Upgrade), ApproveIx(1, alice)>>) :
        passed \in {b2, ms, derive_transaction_pda(ms, 1)}} \cup
    {Signed(<<Verify(1, Upgrade), ApproveIx(1, alice), VerifyBuffer(b1, b1, HashOf(<<1>>))>>),
     Signed(<<UnknownIx, Verify(1, Upgrade), ApproveIx(1, alice)>>)}

ForeignReviews ==
    {Signed(<<ForeignIx, Verify(1, Upgrade), ApproveIx(1, alice)>>),
     Signed(<<Verify(1, Upgrade), ApproveIx(1, alice), ForeignIx>>)}

DeployerBeside ==
    {[signers |-> {alice, DEPLOYER},
      instructions |-> <<VerifyBuffer(b1, b1, HashOf(<<1>>)), LoaderIx, LoaderIx,
                         Verify(1, Upgrade), ApproveIx(1, alice)>>],
     [signers |-> {bob, DEPLOYER},
      instructions |-> <<VerifyBuffer(b1, b1, HashOf(<<1>>)), LoaderIx, ApproveIx(1, bob)>>]}

MCTransactions == Reviews \cup FailingReviews \cup ForeignReviews \cup DeployerBeside

MCIntent == [m \in Members |-> UNION {Shown(t) : t \in Transactions}]
=============================================================================
