------------------------------ MODULE MCVotes -------------------------------
(***************************************************************************)
(* Every transaction of up to MaxInstructions instructions over two        *)
(* proposals of the same content: the shape of the outer transaction, the  *)
(* order of its instructions, and what Squads counts.                      *)
(***************************************************************************)
EXTENDS ClearSigningRefinement, VoteInvariant

CONSTANTS ms, alice, bob, carol, dest, transfer, foreign, MaxInstructions

MCMultisigs == {ms}
MCMembers == {alice, bob, carol}
MCClearSigners == {alice, bob}
MCSha256(bytes) == <<0>>
MCInitialAddresses == [t \in Tables |-> <<>>]

Message ==
    [num_signers |-> 1, num_writable_signers |-> 1, num_writable_non_signers |-> 1,
     account_keys |-> <<VAULT, dest, foreign>>,
     instructions |-> <<[program_id_index |-> 2, account_indexes |-> <<0, 1>>,
                         data |-> transfer]>>,
     address_table_lookups |-> <<>>]

MCContents ==
    {[vault_index |-> 0, ephemeral_signer_bumps |-> <<>>, message |-> Message]}

Transfer ==
    <<[program_id |-> foreign, data |-> transfer,
       accounts |-> <<[pubkey |-> VAULT, is_signer |-> TRUE, is_writable |-> TRUE],
                      [pubkey |-> dest, is_signer |-> FALSE, is_writable |-> TRUE]>>]>>

MCArgs(i, member, action) ==
    [multisig |-> ms, transaction_index |-> i, vault_index |-> 0,
     num_ephemeral_signers |-> 0, member |-> member, action |-> action,
     instructions |-> Transfer]

Verify(i, member, action) ==
    [program_id |-> SELF, data |-> <<IX_VERIFY_PROPOSAL, MCArgs(i, member, action)>>,
     accounts |-> <<derive_transaction_pda(ms, i), INSTRUCTIONS_SYSVAR_ID>>]

VoteIx(i, member, action) ==
    [program_id |-> SQUADS_PROGRAM_ID, data |-> <<discriminator[action]>>,
     accounts |-> <<ms, member, derive_proposal_pda(ms, i)>>]

ForeignIx(member) ==
    [program_id |-> foreign, data |-> <<>>, accounts |-> <<member>>]

BudgetIx == [program_id |-> COMPUTE_BUDGET_PROGRAM_ID, data |-> <<>>, accounts |-> <<>>]

AliceSees == {<<1, "Approve">>, <<2, "Approve">>, <<1, "Reject">>}

MCInstructions ==
    {Verify(s[1], alice, s[2]) : s \in AliceSees} \cup
    {VoteIx(s[1], alice, s[2]) : s \in AliceSees} \cup
    {VoteIx(1, bob, "Approve"), ForeignIx(alice), BudgetIx}

TwoSignersInstructions ==
    {Verify(1, alice, "Approve"), VoteIx(1, alice, "Approve"),
     Verify(1, bob, "Approve"), VoteIx(1, bob, "Approve"),
     Verify(2, bob, "Approve"), VoteIx(2, bob, "Approve")}

ClearVotes(signer, actions) ==
    {[signers |-> {signer}, instructions |-> <<Verify(1, signer, a), VoteIx(1, signer, a)>>] :
        a \in actions}

MCTransactions ==
    {[signers |-> {alice}, instructions |-> ixs] :
        ixs \in BoundedSeq(MCInstructions, MaxInstructions) \ {<<>>}} \cup
    {[signers |-> {alice, bob}, instructions |-> ixs] :
        ixs \in BoundedSeq(TwoSignersInstructions, MaxInstructions) \ {<<>>}} \cup
    ClearVotes(alice, {"CancelV2"}) \cup ClearVotes(bob, {"Approve", "Cancel"}) \cup
    {[signers |-> {carol}, instructions |-> <<VoteIx(1, carol, "Approve")>>]}

\* Alice means to vote on the first proposal, bob on either.
MCIntent == [m \in Members |->
    {MCArgs(i, m, action) : i \in IF m = bob THEN {1, 2} ELSE {1}, action \in ProposalAction}]
=============================================================================
