----------------------------- MODULE Validation -----------------------------
(***************************************************************************)
(* validation.rs: resolving the account key table of a stored message,     *)
(* diffing the message against the expected instructions, and the shape of *)
(* the outer transaction. Pure operators; the handlers of lib.rs that call *)
(* them are in ClearSigning.                                               *)
(***************************************************************************)
EXTENDS Squads, SequencesExt

CONSTANTS
    ADDRESS_LOOKUP_TABLE_PROGRAM_ID,
    COMPUTE_BUDGET_PROGRAM_ID

(***************************************************************************)
(* The data of a lookup table account: has_meta says that the 56 bytes of  *)
(* meta are there, tag is the enum tag they start with, addresses the      *)
(* whole 32-byte chunks after them and remainder the bytes left over.      *)
(***************************************************************************)
parse_lookup_table(data) ==
    Require(data.has_meta, "InvalidLookupTableData")
    && Require(data.tag = 1, "InvalidLookupTableData")
    && Require(data.remainder = 0, "InvalidLookupTableData")

parse_lookup_table_addresses(data) == data.addresses

(***************************************************************************)
(* AccountKeys::resolve: verdict and value. tables[l] is the sequence of   *)
(* addresses of the l-th lookup of the message.                            *)
(***************************************************************************)
\* Mutant: the last address of a table is out of bounds.
LookupInBounds_NotLast(lookup, table) ==
    \A indexes \in {lookup.writable_indexes, lookup.readonly_indexes} :
        \A k \in DOMAIN indexes : indexes[k] < Len(table) - 1

LookupInBounds(lookup, table) ==
    \A indexes \in {lookup.writable_indexes, lookup.readonly_indexes} :
        \A k \in DOMAIN indexes : indexes[k] < Len(table)

resolve(message, tables) ==
    Require(Len(tables) = Len(message.address_table_lookups),
            "LookupTableCountMismatch")
    && Require(\A l \in DOMAIN tables :
                  LookupInBounds(message.address_table_lookups[l], tables[l]),
               "LookupTableIndexOutOfBounds")

Loaded(indexes, table) == [k \in DOMAIN indexes |-> table[indexes[k] + 1]]

LoadedWritable(message, tables) ==
    FlattenSeq([l \in DOMAIN tables |->
        Loaded(message.address_table_lookups[l].writable_indexes, tables[l])])

LoadedReadonly(message, tables) ==
    FlattenSeq([l \in DOMAIN tables |->
        Loaded(message.address_table_lookups[l].readonly_indexes, tables[l])])

\* Mutant: the readonly loaded keys come before the writable ones.
AccountKeys_ReadonlyFirst(message, tables) ==
    [keys |-> message.account_keys \o LoadedReadonly(message, tables)
                                   \o LoadedWritable(message, tables),
     num_static               |-> Len(message.account_keys),
     num_loaded_writable      |-> Len(LoadedWritable(message, tables)),
     num_signers              |-> message.num_signers,
     num_writable_signers     |-> message.num_writable_signers,
     num_writable_non_signers |-> message.num_writable_non_signers]

AccountKeys(message, tables) ==
    [keys |-> message.account_keys \o LoadedWritable(message, tables)
                                   \o LoadedReadonly(message, tables),
     num_static               |-> Len(message.account_keys),
     num_loaded_writable      |-> Len(LoadedWritable(message, tables)),
     num_signers              |-> message.num_signers,
     num_writable_signers     |-> message.num_writable_signers,
     num_writable_non_signers |-> message.num_writable_non_signers]

in_bounds(account_keys, index) ==
    Require(index < Len(account_keys.keys), "AccountIndexOutOfBounds")

get(account_keys, index) == account_keys.keys[index + 1]

is_signer(account_keys, index) == index < account_keys.num_signers

\* Mutant: the first readonly loaded key is writable.
is_writable_OneMore(account_keys, index) ==
    IF index < account_keys.num_static
    THEN \/ index < account_keys.num_writable_signers
         \/ /\ index >= account_keys.num_signers
            /\ index - account_keys.num_signers
                 < account_keys.num_writable_non_signers
    ELSE index - account_keys.num_static <= account_keys.num_loaded_writable

is_writable(account_keys, index) ==
    IF index < account_keys.num_static
    THEN \/ index < account_keys.num_writable_signers
         \/ /\ index >= account_keys.num_signers
            /\ index - account_keys.num_signers
                 < account_keys.num_writable_non_signers
    ELSE index - account_keys.num_static < account_keys.num_loaded_writable

(***************************************************************************)
(* validate_instructions: the stored message against what was shown, the   *)
(* expected instructions with every index replaced by a key and its flags. *)
(***************************************************************************)
ExpectedAccountMeta(meta) ==
    /\ meta = [pubkey |-> meta.pubkey, is_signer |-> meta.is_signer,
               is_writable |-> meta.is_writable]
    /\ meta.is_signer \in BOOLEAN /\ meta.is_writable \in BOOLEAN

ExpectedInstruction(ix) ==
    /\ ix = [program_id |-> ix.program_id, accounts |-> ix.accounts, data |-> ix.data]
    /\ IsSequence(ix.accounts)
    /\ \A j \in DOMAIN ix.accounts : ExpectedAccountMeta(ix.accounts[j])

CheckAccount(account_keys, index, meta) ==
    in_bounds(account_keys, index)
    && Require(get(account_keys, index) = meta.pubkey, "AccountKeyMismatch")
    && Require(is_writable(account_keys, index) = meta.is_writable,
               "AccountWritableMismatch")
    && Require(is_signer(account_keys, index) = meta.is_signer,
               "AccountSignerMismatch")

\* Mutant: the data is not compared.
CheckInstruction_AnyData(account_keys, stored, exp) ==
    in_bounds(account_keys, stored.program_id_index)
    && Require(get(account_keys, stored.program_id_index) = exp.program_id,
               "ProgramIdMismatch")
    && Require(Len(stored.account_indexes) = Len(exp.accounts),
               "AccountCountMismatch")
    && FirstError([j \in DOMAIN stored.account_indexes |->
           CheckAccount(account_keys, stored.account_indexes[j], exp.accounts[j])])

CheckInstruction(account_keys, stored, exp) ==
    in_bounds(account_keys, stored.program_id_index)
    && Require(get(account_keys, stored.program_id_index) = exp.program_id,
               "ProgramIdMismatch")
    && Require(Len(stored.account_indexes) = Len(exp.accounts),
               "AccountCountMismatch")
    && FirstError([j \in DOMAIN stored.account_indexes |->
           CheckAccount(account_keys, stored.account_indexes[j], exp.accounts[j])])
    && Require(stored.data = exp.data, "DataMismatch")

validate_instructions(message, account_keys, expected) ==
    Require(Len(message.instructions) = Len(expected), "InstructionCountMismatch")
    && FirstError([i \in DOMAIN message.instructions |->
           CheckInstruction(account_keys, message.instructions[i], expected[i])])

(***************************************************************************)
(* validate_transaction_shape: every top-level instruction is of this      *)
(* program, of the compute budget program, or the expected vote; and there *)
(* is such a vote. top_level is what the instructions sysvar holds.        *)
(***************************************************************************)
\* Mutants: a vote of any action, a vote on any proposal.
CheckVote_AnyAction(ix, expectation) ==
    Require(Len(ix.data) >= 1, "UnexpectedSquadsInstruction")
    && Require(Len(ix.accounts) >= 3, "MalformedVoteInstruction")
    && Require(ix.accounts[1].pubkey = expectation.multisig, "VoteMultisigMismatch")
    && Require(ix.accounts[2].pubkey = expectation.member, "VoteMemberMismatch")
    && Require(ix.accounts[2].is_signer, "VoteMemberNotSigner")
    && Require(ix.accounts[3].pubkey = expectation.proposal, "VoteProposalMismatch")

CheckVote_AnyProposal(ix, expectation) ==
    Require(Len(ix.data) >= 1 /\ ix.data[1] = discriminator[expectation.action],
            "UnexpectedSquadsInstruction")
    && Require(Len(ix.accounts) >= 3, "MalformedVoteInstruction")
    && Require(ix.accounts[1].pubkey = expectation.multisig, "VoteMultisigMismatch")
    && Require(ix.accounts[2].pubkey = expectation.member, "VoteMemberMismatch")
    && Require(ix.accounts[2].is_signer, "VoteMemberNotSigner")

CheckVote(ix, expectation) ==
    Require(Len(ix.data) >= 1 /\ ix.data[1] = discriminator[expectation.action],
            "UnexpectedSquadsInstruction")
    && Require(Len(ix.accounts) >= 3, "MalformedVoteInstruction")
    && Require(ix.accounts[1].pubkey = expectation.multisig, "VoteMultisigMismatch")
    && Require(ix.accounts[2].pubkey = expectation.member, "VoteMemberMismatch")
    && Require(ix.accounts[2].is_signer, "VoteMemberNotSigner")
    && Require(ix.accounts[3].pubkey = expectation.proposal, "VoteProposalMismatch")

\* Mutant: instructions of other programs are let through.
CheckTopLevel_AnyProgram(ix, expectation) ==
    IF ix.program_id = SQUADS_PROGRAM_ID THEN CheckVote(ix, expectation) ELSE Ok

CheckTopLevel(ix, expectation) ==
    IF ix.program_id \in {expectation.self_program, COMPUTE_BUDGET_PROGRAM_ID}
    THEN Ok
    ELSE Require(ix.program_id = SQUADS_PROGRAM_ID, "ForbiddenInstruction")
         && CheckVote(ix, expectation)

validate_transaction_shape(top_level, expectation) ==
    FirstError([i \in DOMAIN top_level |-> CheckTopLevel(top_level[i], expectation)])
    && Require(\E i \in DOMAIN top_level :
                  top_level[i].program_id = SQUADS_PROGRAM_ID,
               "MissingVoteInstruction")
=============================================================================
