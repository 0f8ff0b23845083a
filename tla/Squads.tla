------------------------------- MODULE Squads -------------------------------
(***************************************************************************)
(* squads.rs: the read-only mirror of the Squads v4 account layouts.       *)
(*                                                                         *)
(* A key is any value; a program-derived address is the tuple of the seeds *)
(* it is derived from, so that two derivations are equal exactly when      *)
(* their seeds are (find_program_address is collision free).               *)
(*                                                                         *)
(* Raw bytes that start with an 8-byte discriminator (account data and     *)
(* instruction data) are a sequence: the discriminator, then what follows. *)
(* <<>> is data too short to hold one.                                     *)
(***************************************************************************)
EXTENDS Verdicts

CONSTANTS
    SQUADS_PROGRAM_ID,  \* the Squads v4 program
    Malformed           \* bytes that do not decode as a VaultTransaction

SEED_PREFIX      == "multisig"
SEED_TRANSACTION == "transaction"
SEED_PROPOSAL    == "proposal"

VAULT_TRANSACTION_DISCRIMINATOR == "account:VaultTransaction"

(***************************************************************************)
(* ProposalAction::discriminator: the instruction each action is voted     *)
(* with.                                                                   *)
(***************************************************************************)
ProposalAction == {"Approve", "Reject", "Cancel", "CancelV2"}

discriminator ==
    [Approve  |-> "global:proposal_approve",
     Reject   |-> "global:proposal_reject",
     Cancel   |-> "global:proposal_cancel",
     CancelV2 |-> "global:proposal_cancel_v2"]

derive_transaction_pda(multisig, transaction_index) ==
    <<SEED_PREFIX, multisig, SEED_TRANSACTION, transaction_index>>

derive_proposal_pda(multisig, transaction_index) ==
    <<SEED_PREFIX, multisig, SEED_TRANSACTION, transaction_index, SEED_PROPOSAL>>

(***************************************************************************)
(* VaultTransaction::deserialize_checked: the verdict, and the value it    *)
(* returns when that is Ok. Bytes after the payload are tolerated.         *)
(***************************************************************************)
deserialize_checked(data) ==
    Require(Len(data) > 1 /\ data[1] = VAULT_TRANSACTION_DISCRIMINATOR,
            "NotAVaultTransaction")
    && Require(data[2] # Malformed, "TransactionDeserializationError")

Deserialized(data) == data[2]

(***************************************************************************)
(* The stored message: a Vec is a sequence, a u8 at most 255. Its          *)
(* instructions and lookups refer to keys by index.                        *)
(***************************************************************************)
IsSequence(s) == Len(s) \in Nat /\ s = [i \in 1..Len(s) |-> s[i]]

Byte == 0..255

MultisigCompiledInstruction(ix) ==
    ix.program_id_index \in Byte /\ ix.account_indexes \in Seq(Byte)

MultisigMessageAddressTableLookup(lookup) ==
    lookup.writable_indexes \in Seq(Byte) /\ lookup.readonly_indexes \in Seq(Byte)

VaultTransactionMessage(message) ==
    /\ message.num_signers \in Byte /\ message.num_writable_signers \in Byte
    /\ message.num_writable_non_signers \in Byte
    /\ IsSequence(message.account_keys)
    /\ IsSequence(message.instructions)
    /\ \A i \in DOMAIN message.instructions :
          MultisigCompiledInstruction(message.instructions[i])
    /\ IsSequence(message.address_table_lookups)
    /\ \A l \in DOMAIN message.address_table_lookups :
          MultisigMessageAddressTableLookup(message.address_table_lookups[l])

(***************************************************************************)
(* The flags of a key of a stored message, as Squads reads them from the   *)
(* header. Indexes count from 0, as in the source.                         *)
(***************************************************************************)
is_signer_index(message, index) == index < message.num_signers

is_static_writable_index(message, key_index) ==
    /\ key_index < Len(message.account_keys)
    /\ \/ key_index < message.num_writable_signers
       \/ /\ key_index >= message.num_signers
          /\ key_index - message.num_signers < message.num_writable_non_signers
=============================================================================
