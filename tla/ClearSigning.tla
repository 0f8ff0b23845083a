---------------------------- MODULE ClearSigning ----------------------------
(***************************************************************************)
(* lib.rs in its environment: the accounts the two instructions read, the  *)
(* Squads proposals, and one transaction at a time that runs instruction   *)
(* by instruction and either commits as a whole or leaves nothing behind   *)
(* (the runtime locks the accounts a transaction writes, so transactions   *)
(* that share an account are serialised).                                  *)
(*                                                                         *)
(* Anyone may submit any transaction of Transactions. A clear signer's key *)
(* signs only transactions in which its device finds a verify_proposal     *)
(* whose arguments its owner means to approve (Intent): the device cannot  *)
(* see the chain, and understands no other instruction.                    *)
(***************************************************************************)
EXTENDS Validation, SquadsRuntime, BufferHash

CONSTANTS
    SELF,                     \* crate::ID
    INSTRUCTIONS_SYSVAR_ID,
    SYSTEM_PROGRAM_ID,        \* owner of an account that does not exist
    Multisigs,
    ClearSigners,             \* members whose key is in an offline device
    MaxIndex,                 \* bound: transactions of a multisig
    Contents,                 \* what a vault transaction may be created with
    Tables,                   \* lookup table accounts
    InitialAddresses,         \* the addresses a table starts with
    TableKeys,                \* what a table may be extended with
    MaxTableLen,              \* bound: addresses of a table
    Buffers,                  \* loader buffer accounts
    Builds,                   \* what a buffer may hold
    VAULT, DEPLOYER,          \* the authorities of a buffer; DEPLOYER also
                              \* holds the keypairs of the buffer accounts
    Transactions,             \* the transactions that may be submitted
    Intent                    \* Intent[m]: the verify_proposal args m approves

Owners == <<SQUADS_PROGRAM_ID, ADDRESS_LOOKUP_TABLE_PROGRAM_ID,
            BPF_LOADER_UPGRADEABLE_ID, SYSTEM_PROGRAM_ID>>

ASSUME ProgramsAssumption ==
    /\ SQUADS_PROGRAM_ID \notin {SELF, COMPUTE_BUDGET_PROGRAM_ID}
    /\ SELF # COMPUTE_BUDGET_PROGRAM_ID
    /\ \A i, j \in DOMAIN Owners : i # j => Owners[i] # Owners[j]

ASSUME TablesAssumption ==
    /\ MaxTableLen \in Nat
    /\ InitialAddresses \in [Tables -> Seq(TableKeys)]
    /\ \A t \in Tables : Len(InitialAddresses[t]) <= MaxTableLen

ASSUME AuthoritiesAssumption == VAULT # DEPLOYER

ASSUME ClearSignersAssumption == ClearSigners \subseteq Members

VARIABLES
    account,    \* transactions and tables: address -> [owner, data]
    buffer,     \* the loader buffers, likewise
    proposal,   \* the committed Squads proposals
    executed,   \* proposal -> the instructions Squads invoked for it
    deployed,   \* history: the program bytes that upgrades deployed
    uses,       \* history: how often the vault used each buffer
    tx,         \* the transaction in flight
    pc,         \* its next instruction; 0 when there is none
    working,    \* the proposals as the transaction in flight sees them
    staged,     \* the buffers as the transaction in flight sees them
    cast,       \* history: the votes the transaction in flight has cast
    landed,     \* history: the votes of committed transactions, with the
                \* verify_proposal arguments shown in the same transaction
    reviewed    \* history: the verify_buffer_hash arguments of committed
                \* transactions that show content, with the proposal

ledger == <<account, buffer, proposal, executed, deployed, uses>>
flight == <<tx, pc, working, staged, cast>>
history == <<landed, reviewed>>
vars == <<ledger, flight, history>>

TransactionAddresses ==
    {derive_transaction_pda(ms, i) : ms \in Multisigs, i \in 1..MaxIndex}
ProposalAddresses ==
    {derive_proposal_pda(ms, i) : ms \in Multisigs, i \in 1..MaxIndex}
Addresses == TransactionAddresses \cup Tables

\* An address derived by Squads is no table and no buffer, and no table is a buffer.
ASSUME AddressesAssumption ==
    TransactionAddresses \cap Tables = {} /\ Addresses \cap Buffers = {}

Absent == [owner |-> SYSTEM_PROGRAM_ID, data |-> <<>>]

AccountAt(key) ==
    IF key \in Addresses THEN account[key]
    ELSE IF key \in Buffers THEN staged[key] ELSE Absent

NotExecuted == <<>>
NoTransaction == [signers |-> {}, instructions |-> <<>>]

-----------------------------------------------------------------------------
(***************************************************************************)
(* The program.                                                            *)
(***************************************************************************)
IX_VERIFY_PROPOSAL    == "global:verify_proposal"
IX_VERIFY_BUFFER_HASH == "global:verify_buffer_hash"

Calls(ix, disc) ==
    ix.program_id = SELF /\ Len(ix.data) > 1 /\ ix.data[1] = disc

Args(ix) == ix.data[2]

(***************************************************************************)
(* What load_instruction_at_checked yields for each instruction: the       *)
(* is_signer flag of an account is that of its key in the transaction.     *)
(***************************************************************************)
TopLevel(t) ==
    [i \in DOMAIN t.instructions |->
        LET ix == t.instructions[i]
        IN  [program_id |-> ix.program_id,
             data       |-> ix.data,
             accounts   |-> [j \in DOMAIN ix.accounts |->
                 [pubkey |-> ix.accounts[j], is_signer |-> ix.accounts[j] \in t.signers]]]]

VoteExpectation(args) ==
    [self_program |-> SELF,
     multisig     |-> args.multisig,
     proposal     |-> derive_proposal_pda(args.multisig, args.transaction_index),
     member       |-> args.member,
     action       |-> args.action]

(***************************************************************************)
(* The accounts of ix: the stored transaction, the instructions sysvar     *)
(* (its address is a constraint, checked before the handler runs), then    *)
(* the lookup tables.                                                      *)
(***************************************************************************)
RemainingAccounts(ix) == SubSeq(ix.accounts, 3, Len(ix.accounts))

CheckBinding(key, args) ==
    LET stored == AccountAt(key)
        vault_tx == Deserialized(stored.data)
    IN  Require(key = derive_transaction_pda(args.multisig, args.transaction_index),
                "TransactionPdaMismatch")
        && Require(stored.owner = SQUADS_PROGRAM_ID, "InvalidTransactionOwner")
        && deserialize_checked(stored.data)
        && Require(vault_tx.multisig = args.multisig, "MultisigMismatch")
        && Require(vault_tx.index = args.transaction_index, "TransactionIndexMismatch")
        && Require(vault_tx.vault_index = args.vault_index, "VaultIndexMismatch")
        && Require(Len(vault_tx.ephemeral_signer_bumps) = args.num_ephemeral_signers,
                   "EphemeralSignersMismatch")

\* Mutant: any lookup table will do.
CheckTable_AnyTable(key, lookup) ==
    Require(AccountAt(key).owner = ADDRESS_LOOKUP_TABLE_PROGRAM_ID,
            "InvalidLookupTableOwner")
    && parse_lookup_table(AccountAt(key).data)

CheckTable(key, lookup) ==
    Require(key = lookup.account_key, "LookupTableAddressMismatch")
    && Require(AccountAt(key).owner = ADDRESS_LOOKUP_TABLE_PROGRAM_ID,
               "InvalidLookupTableOwner")
    && parse_lookup_table(AccountAt(key).data)

TableAddresses(keys) ==
    [l \in DOMAIN keys |-> parse_lookup_table_addresses(AccountAt(keys[l]).data)]

CheckContent(message, table_keys, expected) ==
    LET tables == TableAddresses(table_keys)
    IN  Require(Len(table_keys) = Len(message.address_table_lookups),
                "LookupTableCountMismatch")
        && FirstError([l \in DOMAIN table_keys |->
               CheckTable(table_keys[l], message.address_table_lookups[l])])
        && resolve(message, tables)
        && validate_instructions(message, AccountKeys(message, tables), expected)

\* Mutant: the outer transaction is not looked at.
verify_proposal_AnyShape(ix, t) ==
    LET vault_tx == Deserialized(AccountAt(ix.accounts[1]).data)
    IN  Require(Len(ix.accounts) >= 2, "AccountNotEnoughKeys")
        && Require(ix.accounts[2] = INSTRUCTIONS_SYSVAR_ID, "InstructionsSysvarError")
        && CheckBinding(ix.accounts[1], Args(ix))
        && CheckContent(vault_tx.message, RemainingAccounts(ix), Args(ix).instructions)

verify_proposal(ix, t) ==
    LET args == Args(ix)
        vault_tx == Deserialized(AccountAt(ix.accounts[1]).data)
    IN  Require(Len(ix.accounts) >= 2, "AccountNotEnoughKeys")
        && Require(ix.accounts[2] = INSTRUCTIONS_SYSVAR_ID, "InstructionsSysvarError")
        && CheckBinding(ix.accounts[1], args)
        && CheckContent(vault_tx.message, RemainingAccounts(ix), args.instructions)
        && validate_transaction_shape(TopLevel(t), VoteExpectation(args))

\* Mutant: any buffer will do.
verify_buffer_hash_AnyBuffer(ix) ==
    LET passed == AccountAt(ix.accounts[1])
    IN  Require(Len(ix.accounts) >= 1, "AccountNotEnoughKeys")
        && Require(passed.owner = BPF_LOADER_UPGRADEABLE_ID, "InvalidBufferOwner")
        && extract_buffer(passed.data)
        && hex_to_hash(Args(ix).expected_hash)
        && Require(compute_program_hash(extract_buffer_program_bytes(passed.data))
                       = HexValue(Args(ix).expected_hash),
                   "BufferHashMismatch")

verify_buffer_hash(ix) ==
    LET args == Args(ix)
        passed == AccountAt(ix.accounts[1])
    IN  Require(Len(ix.accounts) >= 1, "AccountNotEnoughKeys")
        && Require(ix.accounts[1] = args.buffer, "BufferKeyMismatch")
        && Require(passed.owner = BPF_LOADER_UPGRADEABLE_ID, "InvalidBufferOwner")
        && extract_buffer(passed.data)
        && hex_to_hash(args.expected_hash)
        && Require(compute_program_hash(extract_buffer_program_bytes(passed.data))
                       = HexValue(args.expected_hash),
                   "BufferHashMismatch")

-----------------------------------------------------------------------------
(***************************************************************************)
(* Creating proposals, and the accounts they depend on (Squads, the lookup *)
(* table program and the loader; none of it is in this repository). What   *)
(* happens to transactions and tables happens between the transactions     *)
(* that vote; what a deployer does to a buffer may also be an instruction  *)
(* of one of them.                                                         *)
(***************************************************************************)
Idle == pc = 0

Stored(ms, i, content) ==
    <<VAULT_TRANSACTION_DISCRIMINATOR,
      [multisig |-> ms, index |-> i, vault_index |-> content.vault_index,
       ephemeral_signer_bumps |-> content.ephemeral_signer_bumps,
       message |-> content.message]>>

StoredConfig == <<"account:ConfigTransaction", Malformed>>

CreateWith(ms, i, data) ==
    LET p == derive_proposal_pda(ms, i)
    IN  /\ Idle
        /\ proposal[p].status = "None"
        /\ i > 1 => proposal[derive_proposal_pda(ms, i - 1)].status # "None"
        /\ account' = [account EXCEPT ![derive_transaction_pda(ms, i)] =
                           [owner |-> SQUADS_PROGRAM_ID, data |-> data]]
        /\ proposal' = [proposal EXCEPT ![p] = NewProposal]
        /\ working' = proposal'
        /\ UNCHANGED <<buffer, executed, deployed, uses, tx, pc, staged, cast, history>>

Create(ms, i, content) == CreateWith(ms, i, Stored(ms, i, content))

CreateConfig(ms, i) == CreateWith(ms, i, StoredConfig)

IsTable(t) == account[t].owner = ADDRESS_LOOKUP_TABLE_PROGRAM_ID

ExtendTable(t, key) ==
    /\ Idle
    /\ IsTable(t)
    /\ Len(account[t].data.addresses) < MaxTableLen
    /\ account' = [account EXCEPT ![t].data.addresses = Append(@, key)]
    /\ UNCHANGED <<buffer, proposal, executed, deployed, uses, flight, history>>

CloseTable(t) ==
    /\ Idle
    /\ IsTable(t)
    /\ account' = [account EXCEPT ![t] = Absent]
    /\ UNCHANGED <<buffer, proposal, executed, deployed, uses, flight, history>>

(***************************************************************************)
(* The loader. A buffer is created by whoever holds its keypair, also at   *)
(* an address where one was closed or deployed from before; its authority  *)
(* writes it, closes it or hands it over. Each of these acts on the        *)
(* buffers as the transaction it is part of sees them.                     *)
(***************************************************************************)
BufferData(bytes, authority) ==
    [has_meta |-> TRUE, tag |-> BUFFER_STATE_TAG, bytes |-> bytes, authority |-> authority]

BufferHolding(bytes, authority) ==
    [owner |-> BPF_LOADER_UPGRADEABLE_ID, data |-> BufferData(bytes, authority)]

HeldBy(acc, authority) ==
    acc.owner = BPF_LOADER_UPGRADEABLE_ID /\ acc.data.authority = authority

CreateBuffer(b) ==
    /\ staged[b] = Absent
    /\ staged' = [staged EXCEPT ![b] = BufferHolding(<<>>, DEPLOYER)]

WriteBuffer(b, build) ==
    /\ HeldBy(staged[b], DEPLOYER)
    /\ staged' = [staged EXCEPT ![b] = BufferHolding(build, DEPLOYER)]

SetBufferAuthority(b) ==
    /\ HeldBy(staged[b], DEPLOYER)
    /\ staged' = [staged EXCEPT ![b] = BufferHolding(@.data.bytes, VAULT)]

CloseBuffer(b) ==
    /\ HeldBy(staged[b], DEPLOYER)
    /\ staged' = [staged EXCEPT ![b] = Absent]

LoaderCall ==
    \E b \in Buffers :
        \/ CreateBuffer(b) \/ SetBufferAuthority(b) \/ CloseBuffer(b)
        \/ \E build \in Builds : WriteBuffer(b, build)

Deploying ==
    /\ Idle
    /\ LoaderCall
    /\ buffer' = staged'
    /\ UNCHANGED <<account, proposal, executed, deployed, uses, tx, pc, working, cast, history>>

(***************************************************************************)
(* Squads executes an approved vault transaction. An upgrade deploys the   *)
(* bytes of a buffer of which the vault is the authority, and drains the   *)
(* buffer. Any other instruction that is passed a buffer of the vault may  *)
(* leave it in any state: it may write it, give it away or close it.       *)
(***************************************************************************)
IX_UPGRADE == "loader:Upgrade"

LookupKeys(message) ==
    [l \in DOMAIN message.address_table_lookups |->
        message.address_table_lookups[l].account_key]

LookupTables(message) == TableAddresses(LookupKeys(message))

Resolvable(message) ==
    \A l \in DOMAIN message.address_table_lookups :
        LET lookup == message.address_table_lookups[l]
            table  == lookup.account_key
        IN  /\ table \in Tables /\ IsTable(table)
            /\ \A indexes \in {lookup.writable_indexes, lookup.readonly_indexes} :
                  \A k \in DOMAIN indexes :
                      indexes[k] + 1 \in DOMAIN account[table].data.addresses

IsUpgrade(ix) ==
    ix.program_id = BPF_LOADER_UPGRADEABLE_ID /\ ix.data = IX_UPGRADE

\* The buffers passed to an upgrade of run, or to any other instruction of it.
UpgradeBuffers(run) ==
    {b \in Buffers : \E i \in DOMAIN run :
        IsUpgrade(run[i]) /\ \E j \in DOMAIN run[i].accounts : run[i].accounts[j].pubkey = b}

HandledBuffers(run) ==
    {b \in Buffers : \E i \in DOMAIN run :
        ~ IsUpgrade(run[i]) /\ \E j \in DOMAIN run[i].accounts : run[i].accounts[j].pubkey = b}

\* What the instructions of run other than its upgrades may make of the buffers.
BufferAccount ==
    {BufferHolding(bytes, authority) : bytes \in Builds \cup {<<>>}, authority \in {DEPLOYER, VAULT}}

LeftBehind(run) ==
    {[b \in Buffers |-> IF b \in DOMAIN left THEN left[b] ELSE buffer[b]] :
        left \in [{b \in HandledBuffers(run) : HeldBy(buffer[b], VAULT)}
                     -> BufferAccount \cup {Absent}]}

Used(count, bs) == [b \in Buffers |-> IF b \in bs THEN count[b] + 1 ELSE count[b]]

Execute(ms, i) ==
    LET p        == derive_proposal_pda(ms, i)
        data     == account[derive_transaction_pda(ms, i)].data
        message  == Deserialized(data).message
        run      == Expansion(message, LookupTables(message))
        upgraded == UpgradeBuffers(run)
        handled  == Used(uses, HandledBuffers(run))
    IN  /\ Idle
        /\ proposal[p].status = "Approved"
        /\ deserialize_checked(data) = Ok
        /\ Resolvable(message)
        /\ \E left \in LeftBehind(run) :
              /\ \A b \in upgraded : HeldBy(left[b], VAULT)
              /\ buffer' = [b \in Buffers |-> IF b \in upgraded THEN Absent ELSE left[b]]
              /\ deployed' = deployed \cup
                     {[proposal |-> p, buffer |-> b, bytes |-> left[b].data.bytes,
                       uses |-> handled[b]] : b \in upgraded}
        /\ uses' = Used(handled, upgraded)
        /\ executed' = [executed EXCEPT ![p] = run]
        /\ proposal' = [proposal EXCEPT ![p].status = "Executed"]
        /\ working' = proposal' /\ staged' = buffer'
        /\ UNCHANGED <<account, tx, pc, cast, history>>

-----------------------------------------------------------------------------
(***************************************************************************)
(* A transaction.                                                          *)
(***************************************************************************)
Calling(t, disc) == {i \in DOMAIN t.instructions : Calls(t.instructions[i], disc)}

Shown(t) == {Args(t.instructions[i]) : i \in Calling(t, IX_VERIFY_PROPOSAL)}

HashesShown(t) == {Args(t.instructions[i]) : i \in Calling(t, IX_VERIFY_BUFFER_HASH)}

(***************************************************************************)
(* What is stored and submitted is of the types that borsh decodes.        *)
(***************************************************************************)
VerifyProposalArgs(args) ==
    /\ args.vault_index \in Byte /\ args.num_ephemeral_signers \in Byte
    /\ args.action \in ProposalAction
    /\ IsSequence(args.instructions)
    /\ \A i \in DOMAIN args.instructions : ExpectedInstruction(args.instructions[i])

VerifyBufferHashArgs(args) == IsSequence(args.expected_hash)

ASSUME ContentsAssumption ==
    \A content \in Contents :
        /\ content.vault_index \in Byte
        /\ content.ephemeral_signer_bumps \in Seq(Byte)
        /\ VaultTransactionMessage(content.message)
        /\ RefersToItsKeys(content.message)

ASSUME TransactionsAssumption ==
    \A t \in Transactions :
        /\ t = [signers |-> t.signers, instructions |-> t.instructions]
        /\ IsSequence(t.instructions)
        /\ \A i \in DOMAIN t.instructions : IsSequence(t.instructions[i].accounts)
        /\ \A args \in Shown(t) : VerifyProposalArgs(args)
        /\ \A args \in HashesShown(t) : VerifyBufferHashArgs(args)

DevicePolicy(m, t) == Shown(t) \cap Intent[m] # {}

Submit(t) ==
    /\ Idle
    /\ \A m \in t.signers \cap ClearSigners : DevicePolicy(m, t)
    /\ tx' = t
    /\ pc' = 1
    /\ UNCHANGED <<ledger, working, staged, cast, history>>

Running == pc \in DOMAIN tx.instructions
Current == tx.instructions[pc]

(***************************************************************************)
(* The verdict of the current instruction. Squads runs votes only; what    *)
(* other instructions of it do is not modelled, so they fail.              *)
(***************************************************************************)
ProgramVerdict(ix) ==
    IF Calls(ix, IX_VERIFY_PROPOSAL) THEN verify_proposal(ix, tx)
    ELSE IF Calls(ix, IX_VERIFY_BUFFER_HASH) THEN verify_buffer_hash(ix)
    ELSE "InstructionFallbackNotFound"

ActionOf(ix) == CHOOSE a \in ProposalAction : discriminator[a] = ix.data[1]

VoteOf(ix) ==
    [proposal |-> ix.accounts[3], member |-> ix.accounts[2], action |-> ActionOf(ix)]

IsVote(ix) ==
    /\ ix.data # <<>> /\ \E a \in ProposalAction : discriminator[a] = ix.data[1]
    /\ Len(ix.accounts) >= 3
    /\ ix.accounts[3] \in {derive_proposal_pda(ix.accounts[1], i) : i \in 1..MaxIndex}

CastVerdict(vote) ==
    Require(vote.proposal \in ProposalAddresses, "AccountNotInitialized")
    && Require(vote.member \in tx.signers, "AccountNotSigner")
    && VoteVerdict(working[vote.proposal], vote.member, vote.action)

InstructionVerdict(ix) ==
    CASE ix.program_id = SELF -> ProgramVerdict(ix)
      [] ix.program_id = SQUADS_PROGRAM_ID ->
             Require(IsVote(ix), "InvalidSquadsInstruction") && CastVerdict(VoteOf(ix))
      [] OTHER -> Ok

Continue == pc' = pc + 1 /\ UNCHANGED <<ledger, tx, history>>

(***************************************************************************)
(* One action for each program an instruction may be of. An instruction of *)
(* SELF only ever lets the transaction continue; a foreign program (the    *)
(* loader is one) may invoke Squads or the loader with the signatures of   *)
(* the accounts it is passed, at most once for each instruction.           *)
(***************************************************************************)
VerifyProposal ==
    /\ Running
    /\ Calls(Current, IX_VERIFY_PROPOSAL)
    /\ verify_proposal(Current, tx) = Ok
    /\ Continue
    /\ UNCHANGED <<working, staged, cast>>

VerifyBufferHash ==
    /\ Running
    /\ Calls(Current, IX_VERIFY_BUFFER_HASH)
    /\ verify_buffer_hash(Current) = Ok
    /\ Continue
    /\ UNCHANGED <<working, staged, cast>>

CastVote(vote) ==
    /\ CastVerdict(vote) = Ok
    /\ working' = [working EXCEPT ![vote.proposal] = Voted(@, vote.member, vote.action)]
    /\ cast' = cast \cup {vote}
    /\ UNCHANGED staged

SquadsVote ==
    /\ Running
    /\ Current.program_id = SQUADS_PROGRAM_ID
    /\ IsVote(Current)
    /\ CastVote(VoteOf(Current))
    /\ Continue

ComputeBudget ==
    /\ Running
    /\ Current.program_id = COMPUTE_BUDGET_PROGRAM_ID
    /\ Continue
    /\ UNCHANGED <<working, staged, cast>>

IsForeign(ix) ==
    ix.program_id \notin {SELF, SQUADS_PROGRAM_ID, COMPUTE_BUDGET_PROGRAM_ID}

ForeignCall ==
    /\ Running
    /\ IsForeign(Current)
    /\ Continue
    /\ \/ UNCHANGED <<working, staged, cast>>
       \/ \E p \in ProposalAddresses, a \in ProposalAction, j \in DOMAIN Current.accounts :
             CastVote([proposal |-> p, member |-> Current.accounts[j], action |-> a])
       \/ /\ DEPLOYER \in tx.signers
          /\ \E j \in DOMAIN Current.accounts : Current.accounts[j] = DEPLOYER
          /\ LoaderCall
          /\ UNCHANGED <<working, cast>>

End ==
    /\ tx' = NoTransaction
    /\ pc' = 0
    /\ working' = proposal' /\ staged' = buffer'
    /\ cast' = {}
    /\ UNCHANGED <<account, executed, deployed, uses>>

\* Mutant: the failed instruction stays the next one.
Abort_KeepsCounter ==
    /\ Running
    /\ InstructionVerdict(Current) # Ok
    /\ tx' = NoTransaction /\ working' = proposal /\ staged' = buffer /\ cast' = {}
    /\ UNCHANGED <<ledger, pc, history>>

Abort ==
    /\ Running
    /\ InstructionVerdict(Current) # Ok
    /\ UNCHANGED <<buffer, proposal, history>>
    /\ End

(***************************************************************************)
(* The history of a commit: each vote cast with each content shown, and,   *)
(* if content is shown, each buffer hash shown with each proposal voted    *)
(* on. sealed says that the vault was the authority of the buffer, uses    *)
(* how often it had used the buffer by then.                               *)
(***************************************************************************)
Review(v, args) ==
    [proposal |-> v.proposal, args |-> args,
     sealed |-> args.buffer \in Buffers /\ HeldBy(staged[args.buffer], VAULT),
     uses |-> IF args.buffer \in Buffers THEN uses[args.buffer] ELSE 0]

Commit ==
    /\ pc = Len(tx.instructions) + 1
    /\ proposal' = working /\ buffer' = staged
    /\ End
    /\ landed' = landed \cup
           {[vote |-> v, args |-> args] : v \in cast, args \in Shown(tx)}
    /\ reviewed' = reviewed \cup
           {Review(v, args) : v \in {w \in cast : Shown(tx) # {}}, args \in HashesShown(tx)}

-----------------------------------------------------------------------------
InitialAccount(a) ==
    IF a \in Tables
      THEN [owner |-> ADDRESS_LOOKUP_TABLE_PROGRAM_ID,
            data  |-> [has_meta |-> TRUE, tag |-> 1, remainder |-> 0,
                       addresses |-> InitialAddresses[a]]]
      ELSE Absent

Init ==
    /\ account = [a \in Addresses |-> InitialAccount(a)]
    /\ buffer = [b \in Buffers |-> Absent]
    /\ proposal = [p \in ProposalAddresses |-> NoProposal]
    /\ executed = [p \in ProposalAddresses |-> NotExecuted]
    /\ deployed = {} /\ uses = [b \in Buffers |-> 0]
    /\ tx = NoTransaction /\ pc = 0 /\ cast = {}
    /\ working = proposal /\ staged = buffer
    /\ landed = {} /\ reviewed = {}

Environment ==
    \/ \E ms \in Multisigs, i \in 1..MaxIndex :
          \/ \E content \in Contents : Create(ms, i, content)
          \/ CreateConfig(ms, i)
          \/ Execute(ms, i)
    \/ \E t \in Tables :
          \/ \E key \in TableKeys : ExtendTable(t, key)
          \/ CloseTable(t)
    \/ Deploying

Step ==
    \/ VerifyProposal \/ VerifyBufferHash \/ SquadsVote
    \/ ComputeBudget \/ ForeignCall \/ Abort \/ Commit

Next ==
    \/ Environment
    \/ \E t \in Transactions : Submit(t)
    \/ Step

Spec == Init /\ [][Next]_vars

-----------------------------------------------------------------------------
(***************************************************************************)
(* The types of the variables.                                             *)
(***************************************************************************)
StoredData ==
    {StoredConfig} \cup
    {Stored(ms, i, c) : ms \in Multisigs, i \in 1..MaxIndex, c \in Contents}

TransactionAccount == [owner : {SQUADS_PROGRAM_ID}, data : StoredData]

TableAccount ==
    [owner : {ADDRESS_LOOKUP_TABLE_PROGRAM_ID},
     data  : [has_meta : {TRUE}, tag : {1}, remainder : {0},
              addresses : Seq(TableKeys)]]

AbsentAccount == [owner : {SYSTEM_PROGRAM_ID}, data : {<<>>}]

WellFormed(acc) ==
    \/ acc.owner = SQUADS_PROGRAM_ID /\ acc \in TransactionAccount
    \/ /\ acc.owner = ADDRESS_LOOKUP_TABLE_PROGRAM_ID /\ acc \in TableAccount
       /\ Len(acc.data.addresses) <= MaxTableLen
    \/ acc.owner = SYSTEM_PROGRAM_ID /\ acc \in AbsentAccount

BufferStates == [Buffers -> BufferAccount \cup {Absent}]

Vote == [proposal : ProposalAddresses, member : Members, action : ProposalAction]

(***************************************************************************)
(* TypeOK: every account is one that the program that owns it can have     *)
(* written, proposals are proposals of Squads, the transaction in flight   *)
(* is one that was submitted, and votes in flight are votes.               *)
(***************************************************************************)
TypeOK ==
    /\ account = [a \in Addresses |-> account[a]]
    /\ \A a \in Addresses : WellFormed(account[a])
    /\ buffer \in BufferStates /\ staged \in BufferStates
    /\ uses \in [Buffers -> Nat]
    /\ proposal \in [ProposalAddresses -> Proposal]
    /\ working \in [ProposalAddresses -> Proposal]
    /\ DOMAIN executed = ProposalAddresses
    /\ pc \in 0..(Len(tx.instructions) + 1)
    /\ cast \subseteq Vote
    /\ \A r \in landed : r.vote \in Vote

(***************************************************************************)
(* Only the shown vote (lib.rs:32-34, README.md:62-63): if a transaction   *)
(* that shows content commits, every vote it has cast, directly or through *)
(* another program, is the one its verify_proposal arguments name.         *)
(***************************************************************************)
ShownVote(args) ==
    [proposal |-> derive_proposal_pda(args.multisig, args.transaction_index),
     member |-> args.member, action |-> args.action]

OnlyTheShownVote == \A r \in landed : r.vote = ShownVote(r.args)

(***************************************************************************)
(* No blind vote: a vote of a clear signer that a proposal counts was cast *)
(* in a committed transaction that showed its device arguments its owner   *)
(* meant to approve, naming this member, this proposal and this action.    *)
(***************************************************************************)
Answers(r, p, member, actions) ==
    /\ r.vote.proposal = p /\ r.vote.member = member /\ r.vote.action \in actions
    /\ r.args \in Intent[member]
    /\ r.vote = ShownVote(r.args)

NoBlindVote ==
    \A p \in ProposalAddresses, m \in ClearSigners :
        /\ m \in proposal[p].approved =>
              \E r \in landed : Answers(r, p, m, {"Approve"})
        /\ m \in proposal[p].rejected =>
              \E r \in landed : Answers(r, p, m, {"Reject"})
        /\ m \in proposal[p].cancelled =>
              \E r \in landed : Answers(r, p, m, {"Cancel", "CancelV2"})

(***************************************************************************)
(* What was seen stays true: as long as the tables of the message can be   *)
(* resolved, what Squads would execute for the proposal is, instruction by *)
(* instruction, what the signers of every committed vote were shown, from  *)
(* the vault and with the ephemeral signers they were shown.               *)
(***************************************************************************)
SeenStaysTrue ==
    \A r \in landed :
        LET vault_tx == Deserialized(account[derive_transaction_pda(
                            r.args.multisig, r.args.transaction_index)].data)
        IN  /\ vault_tx.vault_index = r.args.vault_index
            /\ Len(vault_tx.ephemeral_signer_bumps) = r.args.num_ephemeral_signers
            /\ Resolvable(vault_tx.message) =>
                  Expansion(vault_tx.message, LookupTables(vault_tx.message))
                      = r.args.instructions

(***************************************************************************)
(* No false rejection (README.md:103-105, 177-178): at any time, a vote    *)
(* shown with what the chain holds is accepted, for every stored vault     *)
(* transaction whose tables can be resolved, every member and action.      *)
(***************************************************************************)
TruthfulVote(ms, i, member, action) ==
    LET pda      == derive_transaction_pda(ms, i)
        vault_tx == Deserialized(account[pda].data)
        message  == vault_tx.message
        args     == [multisig |-> ms, transaction_index |-> i, member |-> member,
                     action |-> action, vault_index |-> vault_tx.vault_index,
                     num_ephemeral_signers |-> Len(vault_tx.ephemeral_signer_bumps),
                     instructions |-> Expansion(message, LookupTables(message))]
        verify   == [program_id |-> SELF, data |-> <<IX_VERIFY_PROPOSAL, args>>,
                     accounts |-> <<pda, INSTRUCTIONS_SYSVAR_ID>> \o LookupKeys(message)]
        vote     == [program_id |-> SQUADS_PROGRAM_ID, data |-> <<discriminator[action]>>,
                     accounts |-> <<ms, member, derive_proposal_pda(ms, i)>>]
    IN  [signers |-> {member}, instructions |-> <<verify, vote>>]

TruthfulVotesAreAccepted ==
    Idle => \A ms \in Multisigs, i \in 1..MaxIndex :
        LET data == account[derive_transaction_pda(ms, i)].data
        IN  deserialize_checked(data) = Ok /\ Resolvable(Deserialized(data).message) =>
                \A m \in Members, action \in ProposalAction :
                    LET t == TruthfulVote(ms, i, m, action)
                    IN  verify_proposal(t.instructions[1], t) = Ok

(***************************************************************************)
(* The reviewed build (lib.rs:166-168): an upgrade deploys the build whose *)
(* hash was shown next to the vote. Sealed: for the reviews made when the  *)
(* vault already was the authority of the buffer, as long as the vault has *)
(* not used the buffer in between (it can then be created again, with      *)
(* another build).                                                         *)
(***************************************************************************)
DeploysReviewed(d, r) ==
    r.proposal = d.proposal /\ r.args.buffer = d.buffer =>
        hash_to_hex(compute_program_hash(d.bytes)) = r.args.expected_hash

SealedBuildIsDeployed ==
    \A d \in deployed, r \in reviewed :
        r.sealed /\ r.uses = d.uses => DeploysReviewed(d, r)

ReviewedBuildIsDeployed ==
    \A d \in deployed, r \in reviewed : DeploysReviewed(d, r)
=============================================================================
