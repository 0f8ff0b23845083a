-------------------------- MODULE ContentInvariant --------------------------
(***************************************************************************)
(* The inductive invariant behind SeenStaysTrue and the refinement of      *)
(* ClearVote: why what was shown at a vote is still what Squads would      *)
(* execute when the tables have grown since.                               *)
(***************************************************************************)
EXTENDS VoteInvariant

(***************************************************************************)
(* A vault transaction is stored once, with its proposal, and for good.    *)
(***************************************************************************)
StoredOnce ==
    \A ms \in Multisigs, i \in 1..MaxIndex :
        proposal[derive_proposal_pda(ms, i)].status # "None"
            <=> account[derive_transaction_pda(ms, i)].owner = SQUADS_PROGRAM_ID

(***************************************************************************)
(* The stored transaction is the one the arguments name, and they show     *)
(* what it expands to, as long as its tables are there. The indexes it     *)
(* loads are in bounds, which they remain when tables grow.                *)
(***************************************************************************)
Message(args) ==
    Deserialized(account[derive_transaction_pda(
        args.multisig, args.transaction_index)].data).message

TablesLive(message) ==
    \A l \in DOMAIN message.address_table_lookups :
        LET table == message.address_table_lookups[l].account_key
        IN  table \in Addresses /\ account[table].owner = ADDRESS_LOOKUP_TABLE_PROGRAM_ID

ShowsExpansion(message, args) ==
    /\ resolve(message, LookupTables(message)) = Ok
    /\ Expansion(message, LookupTables(message)) = args.instructions

NamesStored(args) ==
    LET key == derive_transaction_pda(args.multisig, args.transaction_index)
        vault_tx == Deserialized(account[key].data)
    IN  /\ key \in Addresses /\ account[key].owner = SQUADS_PROGRAM_ID
        /\ deserialize_checked(account[key].data) = Ok
        /\ vault_tx.vault_index = args.vault_index
        /\ Len(vault_tx.ephemeral_signer_bumps) = args.num_ephemeral_signers

Truthful(args) ==
    /\ NamesStored(args)
    /\ TablesLive(Message(args)) => ShowsExpansion(Message(args), args)

(***************************************************************************)
(* Halfway through a transaction, whatever has been verified is true, with *)
(* its tables there; once it has committed it stays true.                  *)
(***************************************************************************)
VerifiedContent ==
    \A k \in Calling(tx, IX_VERIFY_PROPOSAL) : k < pc =>
        LET args == Args(tx.instructions[k])
        IN  Truthful(args) /\ TablesLive(Message(args))

LandedContent == \A r \in landed : Truthful(r.args)

(***************************************************************************)
(* An executed proposal stays executed, and no vote is in flight on it.    *)
(***************************************************************************)
StillOpen ==
    \A p \in ProposalAddresses :
        working[p].status \in {"None", "Executed"} \/ proposal[p].status \in {"None", "Executed"}
            => working[p] = proposal[p] /\ \A v \in cast : v.proposal # p

(***************************************************************************)
(* What was shown is what is stored (lib.rs:56-123), at the vote and until *)
(* the execution: the conjunction is inductive beside the types.           *)
(***************************************************************************)
CInv == StoredOnce /\ VerifiedContent /\ LandedContent /\ StillOpen

(***************************************************************************)
(* An address derived for a transaction holds that transaction, or nothing *)
(* (inductive beside CInv): behind TruthfulVotesAreAccepted.               *)
(***************************************************************************)
StoredInPlace ==
    \A ms \in Multisigs, i \in 1..MaxIndex :
        LET acc == account[derive_transaction_pda(ms, i)]
        IN  \/ acc = Absent
            \/ /\ acc.owner = SQUADS_PROGRAM_ID
               /\ acc.data \in {StoredConfig} \cup {Stored(ms, i, c) : c \in Contents}

(***************************************************************************)
(* No step ever changes what is stored for a transaction.                  *)
(***************************************************************************)
StoredForGood ==
    \A ms \in Multisigs, i \in 1..MaxIndex :
        LET key == derive_transaction_pda(ms, i)
        IN  account[key] # Absent => account'[key] = account[key]
=============================================================================
