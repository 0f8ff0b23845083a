----------------------------- MODULE MCContent ------------------------------
(***************************************************************************)
(* What may be stored, shown and executed: contents that load keys from    *)
(* two lookup tables, tables that grow and close at any time, and shown    *)
(* arguments that differ from the stored content in one place. Two members *)
(* vote, at different times, and are willing to approve whatever they are  *)
(* shown: what they are shown must then be true.                           *)
(***************************************************************************)
EXTENDS ClearSigningRefinement, ContentInvariant

CONSTANTS ms, alice, bob, dest, program, dataA, dataB, T1, T2, k1, k2

MCMultisigs == {ms}
MCMembers == {alice, bob}
MCTables == {T1, T2}
MCTableKeys == {k1, k2}
MCInitialAddresses == [t \in {T1, T2} |-> <<k1>>]
MCSha256(bytes) == <<0>>

Plain ==
    [num_signers |-> 2, num_writable_signers |-> 1, num_writable_non_signers |-> 1,
     account_keys |-> <<VAULT, alice, dest, program>>,
     instructions |-> <<[program_id_index |-> 3, account_indexes |-> <<0, 1, 2>>,
                         data |-> dataA]>>,
     address_table_lookups |-> <<>>]

\* Keys 4 and 5 are loaded writable from T1 and T2, key 6 readonly from T1.
Loading ==
    [Plain EXCEPT
        !.instructions = <<[program_id_index |-> 3, account_indexes |-> <<4, 0, 6>>,
                            data |-> dataA],
                           [program_id_index |-> 3, account_indexes |-> <<5>>,
                            data |-> dataB]>>,
        !.address_table_lookups =
            <<[account_key |-> T1, writable_indexes |-> <<0>>, readonly_indexes |-> <<1>>],
              [account_key |-> T2, writable_indexes |-> <<1>>, readonly_indexes |-> <<>>]>>]

Content0(message) ==
    [vault_index |-> 0, ephemeral_signer_bumps |-> <<>>, message |-> message]

MCContents ==
    {Content0(Plain), Content0(Loading),
     [Content0(Plain) EXCEPT !.ephemeral_signer_bumps = <<255>>]}

Meta(key, signer, writable) ==
    [pubkey |-> key, is_signer |-> signer, is_writable |-> writable]

PlainExpansion ==
    <<[program_id |-> program, data |-> dataA,
       accounts |-> <<Meta(VAULT, TRUE, TRUE), Meta(alice, TRUE, FALSE),
                      Meta(dest, FALSE, TRUE)>>]>>

\* The expansions of Loading, with k and l at the end of T1 and T2.
LoadingExpansions ==
    {<<[program_id |-> program, data |-> dataA,
        accounts |-> <<Meta(k1, FALSE, TRUE), Meta(VAULT, TRUE, TRUE),
                       Meta(k, FALSE, FALSE)>>],
       [program_id |-> program, data |-> dataB,
        accounts |-> <<Meta(l, FALSE, TRUE)>>]>> : k, l \in MCTableKeys}

MCArgs(member, instructions) ==
    [multisig |-> ms, transaction_index |-> 1, vault_index |-> 0,
     num_ephemeral_signers |-> 0, member |-> member, action |-> "Approve",
     instructions |-> instructions]

\* Arguments off by one field from those of Plain.
Altered(member) ==
    LET args == MCArgs(member, PlainExpansion)
    IN  {[args EXCEPT !.vault_index = 1],
         [args EXCEPT !.num_ephemeral_signers = 1],
         [args EXCEPT !.instructions[1].data = dataB],
         [args EXCEPT !.instructions[1].program_id = dest],
         [args EXCEPT !.instructions[1].accounts[2].pubkey = bob],
         [args EXCEPT !.instructions[1].accounts[2].is_signer = FALSE],
         [args EXCEPT !.instructions[1].accounts[3].is_writable = FALSE],
         [args EXCEPT !.instructions[1].accounts = Tail(@)],
         [args EXCEPT !.instructions = @ \o @]}

Approve(member, args, accounts) ==
    [signers |-> {member},
     instructions |->
       <<[program_id |-> SELF, data |-> <<IX_VERIFY_PROPOSAL, args>>, accounts |-> accounts],
         [program_id |-> SQUADS_PROGRAM_ID, data |-> <<discriminator["Approve"]>>,
          accounts |-> <<ms, member, derive_proposal_pda(ms, 1)>>]>>]

Accounts(i, tables) ==
    <<derive_transaction_pda(ms, i), INSTRUCTIONS_SYSVAR_ID>> \o tables

PlainApprovals(m) ==
    {Approve(m, args, Accounts(1, <<>>)) :
        args \in Altered(m) \cup {MCArgs(m, PlainExpansion)}}

LoadingApprovals(m) ==
    {Approve(m, MCArgs(m, instructions), Accounts(1, tables)) :
        instructions \in LoadingExpansions, tables \in {<<T1, T2>>, <<T2, T1>>}}

MisplacedApprovals(m) ==
    LET args == MCArgs(m, PlainExpansion)
    IN  {Approve(m, args, Accounts(2, <<>>)),
         Approve(m, args, Accounts(1, <<T1>>)),
         Approve(m, args, <<T1, INSTRUCTIONS_SYSVAR_ID>>),
         Approve(m, args, <<derive_transaction_pda(ms, 1), T1>>),
         Approve(m, args, <<derive_transaction_pda(ms, 1)>>)}

MCTransactions ==
    UNION {PlainApprovals(m) \cup LoadingApprovals(m) \cup MisplacedApprovals(m) : m \in Members}

MCIntent == [m \in Members |-> UNION {Shown(t) : t \in Transactions}]
=============================================================================
