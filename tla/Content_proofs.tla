--------------------------- MODULE Content_proofs ---------------------------
(***************************************************************************)
(* What verify_proposal accepts is what Squads would execute, and remains so *)
(* while lookup tables grow and close (SeenStaysTrue); and ClearSigning    *)
(* implements ClearVote: a commit is a Cast, an execution is a Run, and no *)
(* other step changes what was seen or what ran. For every value of the    *)
(* constants.                                                              *)
(***************************************************************************)
EXTENDS ContentInvariant, ClearSigningRefinement, ClearSigning_proofs,
        FiniteSetTheorems

(***************************************************************************)
(* Tables that grow: what a message loads in bounds stays what it loads.   *)
(***************************************************************************)
Grows(before, after) ==
    /\ Len(before) \in Nat /\ Len(after) \in Nat /\ Len(before) <= Len(after)
    /\ \A k \in 1..Len(before) : after[k] = before[k]

LEMMA InBoundsGrows ==
    ASSUME NEW lookup, MultisigMessageAddressTableLookup(lookup),
           NEW before, NEW after, Grows(before, after), LookupInBounds(lookup, before)
    PROVE  /\ LookupInBounds(lookup, after)
           /\ \A indexes \in {lookup.writable_indexes, lookup.readonly_indexes} :
                 \A k \in DOMAIN indexes : after[indexes[k] + 1] = before[indexes[k] + 1]
<1>1. Byte \subseteq Nat
    BY DEF Byte
<1> SUFFICES ASSUME NEW indexes \in {lookup.writable_indexes, lookup.readonly_indexes},
                    NEW k \in DOMAIN indexes
             PROVE  indexes[k] < Len(after) /\ after[indexes[k] + 1] = before[indexes[k] + 1]
    BY DEF LookupInBounds
<1>2. indexes \in Seq(Byte)
    BY DEF MultisigMessageAddressTableLookup
<1>3. indexes[k] \in Nat
    <2>1. indexes[k] \in Byte
        BY <1>2
    <2> QED BY <1>1, <2>1
<1>4. indexes[k] < Len(before)
    BY DEF LookupInBounds
<1> QED BY <1>3, <1>4 DEF Grows

LEMMA ExpansionGrows ==
    ASSUME NEW message, VaultTransactionMessage(message),
           NEW before, NEW after, DOMAIN after = DOMAIN before, Len(after) = Len(before),
           DOMAIN before = DOMAIN message.address_table_lookups,
           \A l \in DOMAIN before : Grows(before[l], after[l]),
           resolve(message, before) = Ok
    PROVE  resolve(message, after) = Ok /\ Expansion(message, after) = Expansion(message, before)
<1> DEFINE lookups == message.address_table_lookups
<1>1. /\ Len(before) = Len(lookups)
      /\ \A l \in DOMAIN before : LookupInBounds(lookups[l], before[l])
    BY DEF resolve, Require, &&, Ok
<1>2. \A l \in DOMAIN before : MultisigMessageAddressTableLookup(lookups[l])
    BY DEF VaultTransactionMessage
<1>3. \A l \in DOMAIN before :
         /\ LookupInBounds(lookups[l], after[l])
         /\ \A indexes \in {lookups[l].writable_indexes, lookups[l].readonly_indexes} :
               \A k \in DOMAIN indexes : after[l][indexes[k] + 1] = before[l][indexes[k] + 1]
    BY <1>1, <1>2, InBoundsGrows
<1>4. resolve(message, after) = Ok
    BY <1>1, <1>3 DEF resolve, Require, &&, Ok
<1>5. LoadedThrough(message, after, "writable_indexes")
          = LoadedThrough(message, before, "writable_indexes")
    BY <1>3 DEF LoadedThrough
<1>6. LoadedThrough(message, after, "readonly_indexes")
          = LoadedThrough(message, before, "readonly_indexes")
    BY <1>3 DEF LoadedThrough
<1>7. ExpandedKeys(message, after) = ExpandedKeys(message, before)
    BY <1>5, <1>6 DEF ExpandedKeys
<1>8. \A index : ExpandedMeta(message, after, index) = ExpandedMeta(message, before, index)
    BY <1>5, <1>7 DEF ExpandedMeta
<1>9. \A ix : ExpandedInstruction(message, after, ix) = ExpandedInstruction(message, before, ix)
    BY <1>7, <1>8 DEF ExpandedInstruction
<1> QED BY <1>4, <1>9 DEF Expansion

(***************************************************************************)
(* What an accepted verify_proposal says is true of the chain.             *)
(***************************************************************************)
LEMMA StoredContent ==
    ASSUME TypeOK, NEW key \in Addresses, account[key].owner = SQUADS_PROGRAM_ID,
           deserialize_checked(account[key].data) = Ok
    PROVE  \E ms \in Multisigs, i \in 1..MaxIndex, content \in Contents :
               account[key].data = Stored(ms, i, content)
<1>1. account[key].data \in StoredData
    BY OwnersDiffer DEF TypeOK, WellFormed, TransactionAccount
<1>2. account[key].data # StoredConfig
    BY DEF deserialize_checked, StoredConfig, VAULT_TRANSACTION_DISCRIMINATOR, Require, &&, Ok
<1> QED BY <1>1, <1>2 DEF StoredData

LEMMA StoredMessage ==
    ASSUME TypeOK, NEW args, NamesStored(args)
    PROVE  VaultTransactionMessage(Message(args))
<1> DEFINE key == derive_transaction_pda(args.multisig, args.transaction_index)
<1>1. PICK ms \in Multisigs, i \in 1..MaxIndex, content \in Contents :
          account[key].data = Stored(ms, i, content)
    BY StoredContent DEF NamesStored
<1>2. Message(args) = content.message
    <2> HIDE DEF key
    <2>1. Deserialized(account[key].data).message = content.message
        BY <1>1 DEF Deserialized, Stored
    <2> QED BY <2>1 DEF Message, key
<1> QED BY <1>2, ContentsAssumption

LEMMA BindingNamesStored ==
    ASSUME TypeOK, NEW args, NEW key, CheckBinding(key, args) = Ok
    PROVE  key = derive_transaction_pda(args.multisig, args.transaction_index) /\ NamesStored(args)
<1> DEFINE vault_tx == Deserialized(AccountAt(key).data)
<1>1. /\ key = derive_transaction_pda(args.multisig, args.transaction_index)
      /\ AccountAt(key).owner = SQUADS_PROGRAM_ID
      /\ deserialize_checked(AccountAt(key).data) = Ok
      /\ vault_tx.vault_index = args.vault_index
      /\ Len(vault_tx.ephemeral_signer_bumps) = args.num_ephemeral_signers
    <2> HIDE DEF vault_tx
    <2> QED BY AndOk DEF CheckBinding, Require, Ok, vault_tx
<1>2. key \in Addresses /\ AccountAt(key) = account[key]
    BY <1>1, NoBuffer
<1> QED BY <1>1, <1>2 DEF NamesStored

LEMMA ContentChecked ==
    ASSUME TypeOK,
           NEW message, VaultTransactionMessage(message), NEW table_keys, IsSequence(table_keys),
           NEW args, VerifyProposalArgs(args),
           CheckContent(message, table_keys, args.instructions) = Ok
    PROVE  TablesLive(message) /\ ShowsExpansion(message, args)
<1> DEFINE lookups == message.address_table_lookups
           tables == TableAddresses(table_keys)
           verdicts == [l \in DOMAIN table_keys |-> CheckTable(table_keys[l], lookups[l])]
<1>1. /\ Require(Len(table_keys) = Len(lookups), "LookupTableCountMismatch") = Ok
      /\ FirstError(verdicts) = Ok
      /\ resolve(message, tables) = Ok
      /\ validate_instructions(message, AccountKeys(message, tables), args.instructions) = Ok
    <2> HIDE DEF tables, verdicts
    <2> QED BY AndOk DEF CheckContent, tables, verdicts
<1>2. Len(table_keys) = Len(lookups) /\ IsSequence(lookups)
    BY <1>1 DEF Require, Ok, VaultTransactionMessage
<1>3. DOMAIN table_keys = DOMAIN lookups /\ DOMAIN table_keys \subseteq Nat
    BY <1>2 DEF IsSequence
<1>4. \A l \in DOMAIN table_keys : CheckTable(table_keys[l], lookups[l]) = Ok
    <2>1. DOMAIN verdicts \subseteq Nat
        BY <1>3
    <2>2. \A l \in DOMAIN verdicts : verdicts[l] = Ok
        <3> HIDE DEF verdicts
        <3> QED BY <1>1, <2>1, FirstErrorOk
    <2> QED BY <2>2
<1>5. \A l \in DOMAIN table_keys :
         /\ table_keys[l] = lookups[l].account_key
         /\ AccountAt(table_keys[l]).owner = ADDRESS_LOOKUP_TABLE_PROGRAM_ID
    BY <1>4 DEF CheckTable, Require, &&, Ok
<1>6. TablesLive(message)
    BY <1>3, <1>5, NoBuffer DEF TablesLive
<1>7. table_keys = LookupKeys(message)
    BY <1>2, <1>3, <1>5 DEF LookupKeys, IsSequence
<1>8. tables = LookupTables(message)
    BY <1>7 DEF LookupTables
<1>9. Expansion(message, tables) = args.instructions
    BY <1>1, DiffExact DEF VerifyProposalArgs, ExpectedInstructions
<1> HIDE DEF tables
<1> QED BY <1>1, <1>6, <1>8, <1>9 DEF ShowsExpansion

LEMMA VerifiedTruthful ==
    ASSUME TypeInv, Running, Calls(Current, IX_VERIFY_PROPOSAL),
           verify_proposal(Current, tx) = Ok
    PROVE  Truthful(Args(Current)) /\ TablesLive(Message(Args(Current)))
<1> DEFINE args == Args(Current)
           key == Current.accounts[1]
           message == Deserialized(AccountAt(key).data).message
<1>1. CheckBinding(key, args) = Ok
      /\ CheckContent(message, RemainingAccounts(Current), args.instructions) = Ok
    BY AndOk DEF verify_proposal
<1>2. key = derive_transaction_pda(args.multisig, args.transaction_index) /\ NamesStored(args)
    BY <1>1, BindingNamesStored DEF TypeInv
<1>3. message = Message(args)
    BY <1>2 DEF Message, NamesStored, AccountAt
<1>4. VaultTransactionMessage(message)
    BY <1>2, <1>3, StoredMessage DEF TypeInv
<1>5. IsSequence(Current.accounts) /\ VerifyProposalArgs(args)
    <2>1. pc \in DOMAIN tx.instructions /\ tx \in Transactions
        BY PcInside
    <2>2. args \in Shown(tx)
        BY <2>1 DEF Shown, Calling, Current
    <2> QED BY <2>1, <2>2, TransactionsAssumption DEF Current
<1>6. IsSequence(RemainingAccounts(Current))
    BY <1>5 DEF IsSequence, RemainingAccounts
<1>7. TablesLive(message) /\ ShowsExpansion(message, args)
    BY <1>1, <1>4, <1>5, <1>6, ContentChecked DEF TypeInv
<1> HIDE DEF args, message
<1> QED BY <1>2, <1>3, <1>7 DEF Truthful, args

(***************************************************************************)
(* Between transactions: the accounts of Squads stay as they are, and      *)
(* tables only grow, or close for good.                                    *)
(***************************************************************************)
LedgerGrows ==
    \A a \in Addresses :
        /\ account[a].owner = SQUADS_PROGRAM_ID => account'[a] = account[a]
        /\ account'[a].owner = ADDRESS_LOOKUP_TABLE_PROGRAM_ID =>
              /\ account[a].owner = ADDRESS_LOOKUP_TABLE_PROGRAM_ID
              /\ Grows(account[a].data.addresses, account'[a].data.addresses)

LEMMA ExpansionStays ==
    ASSUME TypeOK, LedgerGrows, NEW message, VaultTransactionMessage(message), NEW args,
           TablesLive(message) => ShowsExpansion(message, args)
    PROVE  TablesLive(message)' => ShowsExpansion(message, args)'
<1> DEFINE lookups == message.address_table_lookups
           before == LookupTables(message)
<1> SUFFICES ASSUME TablesLive(message)', NEW after, after = LookupTables(message)'
             PROVE  resolve(message, after) = Ok /\ Expansion(message, after) = args.instructions
    BY DEF ShowsExpansion
<1>1. \A l \in DOMAIN lookups :
         /\ lookups[l].account_key \in Addresses
         /\ account'[lookups[l].account_key].owner = ADDRESS_LOOKUP_TABLE_PROGRAM_ID
    BY DEF TablesLive
<1>2. \A l \in DOMAIN lookups :
         /\ account[lookups[l].account_key].owner = ADDRESS_LOOKUP_TABLE_PROGRAM_ID
         /\ Grows(account[lookups[l].account_key].data.addresses,
                  account'[lookups[l].account_key].data.addresses)
    BY <1>1 DEF LedgerGrows
<1>3. TablesLive(message)
    BY <1>1, <1>2 DEF TablesLive
<1>4. before = [l \in DOMAIN lookups |-> account[lookups[l].account_key].data.addresses]
    BY <1>1 DEF LookupTables, TableAddresses, LookupKeys, AccountAt, parse_lookup_table_addresses
<1>5. after = [l \in DOMAIN lookups |-> account'[lookups[l].account_key].data.addresses]
    BY <1>1 DEF LookupTables, TableAddresses, LookupKeys, AccountAt, parse_lookup_table_addresses
<1>6. Len(after) = Len(before)
    <2>1. IsSequence(lookups)
        BY DEF VaultTransactionMessage
    <2> QED BY <2>1, <1>4, <1>5 DEF IsSequence
<1>7. resolve(message, before) = Ok /\ Expansion(message, before) = args.instructions
    BY <1>3 DEF ShowsExpansion
<1>8. \A l \in DOMAIN before : Grows(before[l], after[l])
    BY <1>2, <1>4, <1>5
<1>9. DOMAIN after = DOMAIN lookups /\ DOMAIN before = DOMAIN lookups
    BY <1>4, <1>5
<1> HIDE DEF before
<1> QED BY <1>6, <1>7, <1>8, <1>9, ExpansionGrows

LEMMA TruthfulStays ==
    ASSUME TypeOK, LedgerGrows, NEW args, Truthful(args)
    PROVE  Truthful(args)'
<1> SUFFICES ASSUME NEW message, message = Message(args) PROVE Truthful(args)'
    OBVIOUS
<1>1. NamesStored(args) /\ VaultTransactionMessage(message)
    BY StoredMessage DEF Truthful
<1>2. LET key == derive_transaction_pda(args.multisig, args.transaction_index)
      IN  key \in Addresses /\ account'[key] = account[key]
    BY <1>1 DEF NamesStored, LedgerGrows
<1>3. NamesStored(args)' /\ Message(args)' = message
    BY <1>1, <1>2 DEF NamesStored, Message
<1>4. TablesLive(message) => ShowsExpansion(message, args)
    BY DEF Truthful
<1>5. TablesLive(message)' => ShowsExpansion(message, args)'
    BY <1>1, <1>4, ExpansionStays
<1> QED BY <1>3, <1>5 DEF Truthful

LEMMA KeptTables ==
    ASSUME TypeOK, NEW a \in Addresses, account[a].owner = ADDRESS_LOOKUP_TABLE_PROGRAM_ID
    PROVE  Grows(account[a].data.addresses, account[a].data.addresses)
<1>1. account[a] \in TableAccount
    BY OwnersDiffer DEF TypeOK, WellFormed
<1>2. account[a].data.addresses \in Seq(TableKeys)
    BY <1>1 DEF TableAccount
<1> QED BY <1>2 DEF Grows

LEMMA AppendGrows ==
    ASSUME NEW S, NEW s \in Seq(S), NEW e \in S
    PROVE  Grows(s, Append(s, e))
<1>1. Len(Append(s, e)) = Len(s) + 1 /\ Len(s) \in Nat
    OBVIOUS
<1>2. \A k \in 1..Len(s) : Append(s, e)[k] = s[k]
    OBVIOUS
<1> QED BY <1>1, <1>2 DEF Grows

LEMMA ExtendTableGrows ==
    ASSUME TypeOK, NEW t \in Tables, NEW key \in TableKeys, ExtendTable(t, key)
    PROVE  LedgerGrows /\ \A a \in Addresses : account'[a].owner = account[a].owner
<1> DEFINE addresses == account[t].data.addresses
<1>1. account[t] \in TableAccount /\ t \in Addresses
    BY TableType DEF ExtendTable, Addresses
<1>2. addresses \in Seq(TableKeys)
    BY <1>1 DEF TableAccount
<1>3. Grows(addresses, Append(addresses, key))
    BY <1>2, AppendGrows
<1>4. account'[t].data.addresses = Append(addresses, key)
      /\ account'[t].owner = account[t].owner
      /\ \A a \in Addresses : a # t => account'[a] = account[a]
    <2>1. account' = [account EXCEPT ![t] = [account[t] EXCEPT !.data =
                          [account[t].data EXCEPT !.addresses = Append(addresses, key)]]]
        BY Zenon DEF ExtendTable
    <2>2. account = [a \in Addresses |-> account[a]]
        BY DEF TypeOK
    <2> QED BY <1>1, <2>1, <2>2 DEF TableAccount
<1>5. account[t].owner = ADDRESS_LOOKUP_TABLE_PROGRAM_ID
    BY DEF ExtendTable, IsTable
<1> HIDE DEF addresses
<1>6. \A a \in Addresses : account'[a].owner = account[a].owner
    BY <1>4
<1>7. ASSUME NEW a \in Addresses, account'[a].owner = ADDRESS_LOOKUP_TABLE_PROGRAM_ID
      PROVE  Grows(account[a].data.addresses, account'[a].data.addresses)
    <2>1. CASE a = t
        BY <1>3, <1>4, <2>1 DEF addresses
    <2>2. CASE a # t
        BY <1>4, <1>7, <2>2, KeptTables
    <2> QED BY <2>1, <2>2
<1>8. \A a \in Addresses : account[a].owner = SQUADS_PROGRAM_ID => account'[a] = account[a]
    BY <1>4, <1>5, OwnersDiffer
<1> QED BY <1>6, <1>7, <1>8 DEF LedgerGrows

LEMMA KeepsLedger ==
    ASSUME TypeOK,
           \A a \in Addresses :
              account'[a] = account[a]
              \/ (account[a].owner # SQUADS_PROGRAM_ID
                    /\ account'[a].owner # ADDRESS_LOOKUP_TABLE_PROGRAM_ID)
    PROVE  LedgerGrows
BY KeptTables DEF LedgerGrows

(***************************************************************************)
(* A vault transaction is created once: two addresses are the same only    *)
(* for the same multisig and index.                                        *)
(***************************************************************************)
LEMMA SameAddress ==
    ASSUME NEW ms, NEW i, NEW ms2, NEW i2
    PROVE  /\ derive_transaction_pda(ms, i) = derive_transaction_pda(ms2, i2)
                  <=> ms = ms2 /\ i = i2
           /\ derive_proposal_pda(ms, i) = derive_proposal_pda(ms2, i2)
                  <=> ms = ms2 /\ i = i2
BY DEF derive_transaction_pda, derive_proposal_pda

(***************************************************************************)
(* The steps between transactions.                                         *)
(***************************************************************************)
LEMMA StoredStays ==
    ASSUME CInv,
           \A p \in ProposalAddresses :
              proposal'[p].status = "None" <=> proposal[p].status = "None",
           \A a \in Addresses :
              account'[a].owner = SQUADS_PROGRAM_ID <=> account[a].owner = SQUADS_PROGRAM_ID
    PROVE  StoredOnce'
<1> SUFFICES ASSUME NEW ms \in Multisigs, NEW i \in 1..MaxIndex
             PROVE  proposal'[derive_proposal_pda(ms, i)].status # "None" <=>
                        account'[derive_transaction_pda(ms, i)].owner = SQUADS_PROGRAM_ID
    BY DEF StoredOnce
<1>1. /\ derive_transaction_pda(ms, i) \in Addresses
      /\ derive_proposal_pda(ms, i) \in ProposalAddresses
    BY TransactionAddress
<1>2. proposal[derive_proposal_pda(ms, i)].status # "None" <=>
          account[derive_transaction_pda(ms, i)].owner = SQUADS_PROGRAM_ID
    BY DEF CInv, StoredOnce
<1> QED BY <1>1, <1>2

LEMMA BetweenContent ==
    ASSUME TypeInv, CInv, Idle, LedgerGrows, StoredOnce',
           UNCHANGED <<tx, pc, cast, landed>>, working' = proposal'
    PROVE  CInv'
<1>1. pc' = 0 /\ tx' = NoTransaction /\ cast' = {} /\ landed' = landed
    BY DEF TypeInv, InFlight, Idle
<1>2. VerifiedContent'
    BY <1>1 DEF VerifiedContent, Calling, NoTransaction
<1>3. StillOpen'
    BY <1>1 DEF StillOpen
<1>4. \A r \in landed : Truthful(r.args)'
    BY TruthfulStays DEF TypeInv, CInv, LandedContent
<1>5. LandedContent'
    BY <1>1, <1>4 DEF LandedContent
<1> QED BY <1>2, <1>3, <1>5 DEF CInv

LEMMA CreateContent ==
    ASSUME TypeInv, CInv, NEW ms \in Multisigs, NEW i \in 1..MaxIndex,
           NEW data, CreateWith(ms, i, data)
    PROVE  CInv'
<1> DEFINE a == derive_transaction_pda(ms, i)
           p == derive_proposal_pda(ms, i)
<1>1. a \in Addresses /\ p \in ProposalAddresses
    BY TransactionAddress
<1>2. /\ proposal[p].status = "None" /\ Idle /\ working' = proposal'
      /\ UNCHANGED <<tx, pc, cast, landed>>
    BY DEF CreateWith, history
<1>3. account[a].owner # SQUADS_PROGRAM_ID
    BY <1>2 DEF CInv, StoredOnce
<1>4. account' = [account EXCEPT ![a] = [owner |-> SQUADS_PROGRAM_ID, data |-> data]]
      /\ proposal' = [proposal EXCEPT ![p] = NewProposal]
    BY DEF CreateWith
<1> HIDE DEF a, p
<1>5. /\ account'[a].owner = SQUADS_PROGRAM_ID
      /\ \A b \in Addresses : b # a => account'[b] = account[b]
    BY <1>1, <1>4 DEF TypeInv, TypeOK
<1>6. /\ proposal'[p].status # "None"
      /\ \A q \in ProposalAddresses : q # p => proposal'[q] = proposal[q]
    BY <1>1, <1>4 DEF TypeInv, TypeOK, NewProposal
<1>7. LedgerGrows
    BY <1>3, <1>5, OwnersDiffer, KeepsLedger DEF TypeInv
<1>8. StoredOnce'
    <2> SUFFICES ASSUME NEW ms2 \in Multisigs, NEW i2 \in 1..MaxIndex
                 PROVE  proposal'[derive_proposal_pda(ms2, i2)].status # "None" <=>
                            account'[derive_transaction_pda(ms2, i2)].owner = SQUADS_PROGRAM_ID
        BY DEF StoredOnce
    <2> DEFINE a2 == derive_transaction_pda(ms2, i2)
               p2 == derive_proposal_pda(ms2, i2)
    <2>1. a2 \in Addresses /\ p2 \in ProposalAddresses
        BY TransactionAddress
    <2>2. a2 = a <=> p2 = p
        BY SameAddress DEF a, p
    <2>3. proposal[p2].status # "None" <=> account[a2].owner = SQUADS_PROGRAM_ID
        BY DEF CInv, StoredOnce
    <2> HIDE DEF a2, p2
    <2>4. CASE p2 = p
        BY <1>5, <1>6, <2>2, <2>4 DEF a2, p2
    <2>5. CASE p2 # p
        BY <1>5, <1>6, <2>1, <2>2, <2>3, <2>5 DEF a2, p2
    <2> QED BY <2>4, <2>5
<1> QED BY <1>2, <1>7, <1>8, BetweenContent

LEMMA ExecuteContent ==
    ASSUME TypeInv, CInv, NEW ms \in Multisigs, NEW i \in 1..MaxIndex, Execute(ms, i)
    PROVE  CInv'
<1> DEFINE p == derive_proposal_pda(ms, i)
<1>1. p \in ProposalAddresses /\ proposal' = [proposal EXCEPT ![p].status = "Executed"]
    BY TransactionAddress DEF Execute
<1>2. Idle /\ working' = proposal' /\ UNCHANGED <<tx, pc, cast, landed>>
    BY DEF Execute, history
<1>3. account' = account
    BY DEF Execute
<1>4. LedgerGrows
    BY <1>3, KeepsLedger DEF TypeInv
<1> HIDE DEF p
<1>5. proposal[p].status = "Approved"
    BY DEF Execute, p
<1>6. StoredOnce'
    <2>1. \A q \in ProposalAddresses : proposal'[q].status = "None" <=> proposal[q].status = "None"
        BY <1>1, <1>5 DEF TypeInv, TypeOK, Proposal
    <2>2. \A a \in Addresses :
             account'[a].owner = SQUADS_PROGRAM_ID <=> account[a].owner = SQUADS_PROGRAM_ID
        BY <1>3
    <2> QED BY <2>1, <2>2, StoredStays
<1> QED BY <1>2, <1>4, <1>6, BetweenContent

LEMMA LedgerContent ==
    ASSUME TypeInv, CInv, Idle, LedgerGrows,
           \A a \in Addresses :
              account'[a].owner = SQUADS_PROGRAM_ID => account[a].owner = SQUADS_PROGRAM_ID,
           UNCHANGED <<proposal, tx, pc, working, cast, landed>>
    PROVE  CInv'
<1>1. working' = proposal'
    BY DEF TypeInv, InFlight, Idle
<1>2. StoredOnce'
    <2>1. \A a \in Addresses :
             account'[a].owner = SQUADS_PROGRAM_ID <=> account[a].owner = SQUADS_PROGRAM_ID
        BY DEF LedgerGrows
    <2> QED BY <2>1, StoredStays
<1> QED BY <1>1, <1>2, BetweenContent

LEMMA WriteContent ==
    ASSUME TypeInv, CInv, Idle, NEW a \in Addresses, NEW acc,
           account' = [account EXCEPT ![a] = acc],
           account[a].owner # SQUADS_PROGRAM_ID, acc.owner # SQUADS_PROGRAM_ID,
           acc.owner # ADDRESS_LOOKUP_TABLE_PROGRAM_ID,
           UNCHANGED <<proposal, tx, pc, working, cast, landed>>
    PROVE  CInv'
<1>1. account'[a] = acc /\ \A b \in Addresses : b # a => account'[b] = account[b]
    BY DEF TypeInv, TypeOK
<1>2. LedgerGrows
    BY <1>1, KeepsLedger DEF TypeInv
<1> QED BY <1>1, <1>2, LedgerContent

LEMMA EnvironmentContent ==
    ASSUME TypeInv, CInv, Environment
    PROVE  CInv'
<1>1. ASSUME NEW ms \in Multisigs, NEW i \in 1..MaxIndex,
             \/ \E content \in Contents : Create(ms, i, content)
             \/ CreateConfig(ms, i)
             \/ Execute(ms, i)
      PROVE  CInv'
    BY <1>1, CreateContent, ExecuteContent DEF Create, CreateConfig
<1>2. ASSUME NEW t \in Tables, NEW key \in TableKeys, ExtendTable(t, key)
      PROVE  CInv'
    <2>1. LedgerGrows /\ \A a \in Addresses : account'[a].owner = account[a].owner
        BY <1>2, ExtendTableGrows DEF TypeInv
    <2>2. Idle /\ UNCHANGED <<proposal, tx, pc, working, cast, landed>>
        BY <1>2 DEF ExtendTable, flight, history
    <2> QED BY <2>1, <2>2, LedgerContent
<1>3. ASSUME NEW t \in Tables, CloseTable(t)
      PROVE  CInv'
    <2>1. account' = [account EXCEPT ![t] = Absent] /\ t \in Addresses /\ Idle
          /\ account[t].owner = ADDRESS_LOOKUP_TABLE_PROGRAM_ID
          /\ UNCHANGED <<proposal, tx, pc, working, cast, landed>>
        BY <1>3 DEF CloseTable, IsTable, Addresses, flight, history
    <2>2. Absent.owner = SYSTEM_PROGRAM_ID
        BY DEF Absent
    <2> QED BY <2>1, <2>2, OwnersDiffer, WriteContent
<1>4. CASE Deploying
    <2>1. Idle /\ UNCHANGED <<account, proposal, tx, pc, working, cast, landed>>
        BY <1>4 DEF Deploying, history
    <2>2. LedgerGrows
        BY <2>1, KeepsLedger DEF TypeInv
    <2> QED BY <2>1, <2>2, LedgerContent
<1> QED BY <1>1, <1>2, <1>3, <1>4 DEF Environment

LEMMA SubmitContent ==
    ASSUME TypeInv, CInv, NEW t \in Transactions, Submit(t)
    PROVE  CInv'
<1>1. tx' = t /\ pc' = 1 /\ UNCHANGED <<account, proposal, working, cast, landed>>
    BY DEF Submit, ledger, history
<1>2. VerifiedContent'
    <2>1. DOMAIN t.instructions \subseteq Nat \ {0}
        <3>1. IsSequence(t.instructions)
            BY TransactionsAssumption
        <3> QED BY <3>1 DEF IsSequence
    <2> QED BY <1>1, <2>1 DEF VerifiedContent, Calling
<1>3. StoredOnce' /\ StillOpen'
    BY <1>1 DEF CInv, StoredOnce, StillOpen
<1>4. LedgerGrows
    BY <1>1, KeepsLedger DEF TypeInv
<1>5. \A r \in landed : Truthful(r.args)'
    BY <1>4, TruthfulStays DEF TypeInv, CInv, LandedContent
<1> QED BY <1>1, <1>2, <1>3, <1>5 DEF CInv, LandedContent

(***************************************************************************)
(* The steps of a transaction leave the accounts as they are.              *)
(***************************************************************************)
LEMMA SameAccounts ==
    ASSUME account' = account
    PROVE  /\ \A args : Truthful(args)' <=> Truthful(args)
           /\ \A args : Message(args)' = Message(args)
           /\ \A message : TablesLive(message)' <=> TablesLive(message)
<1>1. \A args : Message(args)' = Message(args)
    BY DEF Message
<1>2. \A message : TablesLive(message)' <=> TablesLive(message)
    BY DEF TablesLive
<1>3. ASSUME NEW message, TablesLive(message)
      PROVE  LookupTables(message)' = LookupTables(message)
    <2>1. \A l \in DOMAIN message.address_table_lookups :
             AccountAt(message.address_table_lookups[l].account_key)'
                 = AccountAt(message.address_table_lookups[l].account_key)
        BY <1>3 DEF TablesLive, AccountAt
    <2> QED BY <2>1 DEF LookupTables, TableAddresses, LookupKeys
<1>4. \A message, args : TablesLive(message) =>
         (ShowsExpansion(message, args)' <=> ShowsExpansion(message, args))
    BY <1>3 DEF ShowsExpansion
<1>5. \A args : NamesStored(args)' <=> NamesStored(args)
    BY DEF NamesStored
<1>6. \A args : Truthful(args)' <=> Truthful(args)
    BY <1>1, <1>2, <1>4, <1>5 DEF Truthful
<1> QED BY <1>1, <1>2, <1>6

LEMMA ContinueContent ==
    ASSUME TypeInv, CInv, Running, Continue, StillOpen',
           Calls(Current, IX_VERIFY_PROPOSAL) => verify_proposal(Current, tx) = Ok
    PROVE  CInv'
<1>1. pc' = pc + 1 /\ tx' = tx /\ UNCHANGED <<account, proposal, landed>>
    BY DEF Continue, ledger, history
<1>2. StoredOnce'
    BY <1>1 DEF CInv, StoredOnce
<1>3. LandedContent'
    BY <1>1, SameAccounts DEF CInv, LandedContent
<1>4. \A k \in Calling(tx, IX_VERIFY_PROPOSAL) : k < pc + 1 =>
          Truthful(Args(tx.instructions[k])) /\ TablesLive(Message(Args(tx.instructions[k])))
    <2> SUFFICES ASSUME NEW k \in Calling(tx, IX_VERIFY_PROPOSAL), k < pc + 1
                 PROVE  Truthful(Args(tx.instructions[k]))
                        /\ TablesLive(Message(Args(tx.instructions[k])))
        OBVIOUS
    <2>1. k < pc \/ k = pc
        BY PcInside DEF Calling
    <2>2. CASE k < pc
        BY <2>2 DEF CInv, VerifiedContent
    <2>3. CASE k = pc
        BY <2>3, VerifiedTruthful DEF Calling, Current
    <2> QED BY <2>1, <2>2, <2>3
<1>5. VerifiedContent'
    BY <1>1, <1>4, SameAccounts DEF VerifiedContent
<1> QED BY <1>2, <1>3, <1>5 DEF CInv

LEMMA VoteOpen ==
    ASSUME TypeInv, CInv, Continue, NEW vote \in Vote, CastVote(vote)
    PROVE  StillOpen'
<1> DEFINE q == vote.proposal
           after == Voted(working[q], vote.member, vote.action)
<1>1. q \in ProposalAddresses /\ vote.action \in ProposalAction
    BY DEF Vote
<1>2. working[q].status \in {"Active", "Approved"}
    BY <1>1 DEF CastVote, CastVerdict, VoteVerdict, ProposalAction, Require, &&, Ok
<1>3. proposal[q].status \notin {"None", "Executed"}
    BY <1>1, <1>2 DEF CInv, StillOpen
<1>4. working' = [working EXCEPT ![q] = after] /\ cast' = cast \cup {vote} /\ proposal' = proposal
    BY DEF CastVote, Continue, ledger
<1>5. after.status \notin {"None", "Executed"}
    <2>1. working[q] \in Proposal
        BY <1>1 DEF TypeInv, TypeOK
    <2>2. after \in {Approved(working[q], vote.member), Rejected(working[q], vote.member),
                     Cancelled(working[q], vote.member)}
        BY DEF Voted
    <2> QED BY <1>2, <2>1, <2>2 DEF Approved, Rejected, Cancelled, Proposal
<1> HIDE DEF q, after
<1>6. /\ working'[q] = after
      /\ \A p \in ProposalAddresses : p # q => working'[p] = working[p]
    BY <1>1, <1>4 DEF TypeInv, TypeOK
<1> SUFFICES ASSUME NEW p \in ProposalAddresses,
                    \/ working'[p].status \in {"None", "Executed"}
                    \/ proposal'[p].status \in {"None", "Executed"}
             PROVE  working'[p] = proposal'[p] /\ \A v \in cast' : v.proposal # p
    BY DEF StillOpen
<1>7. p # q
    BY <1>3, <1>4, <1>5, <1>6
<1>8. working[p] = proposal[p] /\ \A v \in cast : v.proposal # p
    BY <1>4, <1>6, <1>7 DEF CInv, StillOpen
<1> QED BY <1>4, <1>6, <1>7, <1>8 DEF q

LEMMA QuietOpen ==
    ASSUME CInv, Continue, UNCHANGED <<working, cast>>
    PROVE  StillOpen'
BY DEF CInv, StillOpen, Continue, ledger

LEMMA EndContent ==
    ASSUME TypeInv, CInv, End, StoredOnce', LandedContent'
    PROVE  CInv'
<1>1. tx' = NoTransaction /\ pc' = 0 /\ working' = proposal' /\ cast' = {}
    BY DEF End
<1>2. VerifiedContent'
    BY <1>1 DEF VerifiedContent, Calling, NoTransaction
<1>3. StillOpen'
    BY <1>1 DEF StillOpen
<1> QED BY <1>2, <1>3 DEF CInv

(***************************************************************************)
(* At a commit every verify_proposal of the transaction has run.           *)
(***************************************************************************)
LEMMA CommitTruthful ==
    ASSUME TypeInv, CInv, Commit, NEW args \in Shown(tx)
    PROVE  Truthful(args) /\ TablesLive(Message(args))
<1>1. IsSequence(tx.instructions) /\ pc = Len(tx.instructions) + 1
    BY TxIsSequence DEF Commit
<1>2. PICK k \in Calling(tx, IX_VERIFY_PROPOSAL) : args = Args(tx.instructions[k])
    BY DEF Shown
<1>3. k < pc
    BY <1>1, <1>2 DEF Calling, IsSequence
<1> QED BY <1>2, <1>3 DEF CInv, VerifiedContent

LEMMA CommitContent ==
    ASSUME TypeInv, CInv, Commit
    PROVE  CInv'
<1>1. proposal' = working /\ account' = account /\ End
    BY DEF Commit, End
<1>2. \A r \in landed' : Truthful(r.args)
    BY CommitTruthful DEF Commit, CInv, LandedContent
<1>3. LandedContent'
    BY <1>1, <1>2, SameAccounts DEF LandedContent
<1>4. StoredOnce'
    <2>1. \A p \in ProposalAddresses : proposal'[p].status = "None" <=> proposal[p].status = "None"
        BY <1>1 DEF CInv, StillOpen
    <2> QED BY <1>1, <2>1, StoredStays
<1> QED BY <1>1, <1>3, <1>4, EndContent

LEMMA StepContent ==
    ASSUME TypeInv, CInv, Step
    PROVE  CInv'
<1>1. CASE VerifyProposal
    BY <1>1, ContinueContent, QuietOpen DEF VerifyProposal
<1>2. CASE VerifyBufferHash
    <2>1. ~ Calls(Current, IX_VERIFY_PROPOSAL)
        BY <1>2 DEF VerifyBufferHash, Calls, IX_VERIFY_PROPOSAL, IX_VERIFY_BUFFER_HASH
    <2> QED BY <1>2, <2>1, ContinueContent, QuietOpen DEF VerifyBufferHash
<1>3. CASE SquadsVote
    <2>1. ~ Calls(Current, IX_VERIFY_PROPOSAL)
        BY <1>3, ProgramsAssumption DEF SquadsVote, Calls
    <2>2. StillOpen'
        BY <1>3, SquadsVoteCasts, VoteOpen DEF SquadsVote
    <2> QED BY <1>3, <2>1, <2>2, ContinueContent DEF SquadsVote
<1>4. CASE ComputeBudget
    <2>1. ~ Calls(Current, IX_VERIFY_PROPOSAL)
        BY <1>4, ProgramsAssumption DEF ComputeBudget, Calls
    <2> QED BY <1>4, <2>1, ContinueContent, QuietOpen DEF ComputeBudget
<1>5. CASE ForeignCall
    <2>1. ~ Calls(Current, IX_VERIFY_PROPOSAL)
        BY <1>5 DEF ForeignCall, IsForeign, Calls
    <2>2. CASE UNCHANGED <<working, cast>>
        BY <1>5, <2>1, <2>2, ContinueContent, QuietOpen DEF ForeignCall
    <2>3. ASSUME NEW p \in ProposalAddresses, NEW a \in ProposalAction,
                 NEW j \in DOMAIN Current.accounts,
                 CastVote([proposal |-> p, member |-> Current.accounts[j], action |-> a])
          PROVE  CInv'
        <3> SUFFICES ASSUME NEW vote,
                        vote = [proposal |-> p, member |-> Current.accounts[j], action |-> a]
                     PROVE  CInv'
            OBVIOUS
        <3>1. vote \in Vote
            BY <2>3, CastVoteType
        <3>2. StillOpen'
            BY <1>5, <2>3, <3>1, VoteOpen DEF ForeignCall
        <3> QED BY <1>5, <2>1, <3>2, ContinueContent DEF ForeignCall
    <2> QED BY <1>5, <2>2, <2>3 DEF ForeignCall
<1>6. CASE Abort
    <2>1. End /\ UNCHANGED <<account, proposal, landed>>
        BY <1>6 DEF Abort, End, history
    <2>2. StoredOnce' /\ LandedContent'
        BY <2>1, SameAccounts DEF CInv, StoredOnce, LandedContent
    <2> QED BY <2>1, <2>2, EndContent
<1>7. CASE Commit
    BY <1>7, CommitContent
<1> QED BY <1>1, <1>2, <1>3, <1>4, <1>5, <1>6, <1>7 DEF Step

LEMMA InitContent == Init => CInv
<1> SUFFICES ASSUME Init PROVE CInv
    OBVIOUS
<1>1. account = [a \in Addresses |-> InitialAccount(a)] /\ landed = {} /\ cast = {}
      /\ working = proposal /\ tx = NoTransaction
    BY DEF Init
<1>2. StoredOnce
    <2>1. \A a \in Addresses : InitialAccount(a).owner # SQUADS_PROGRAM_ID
        BY OwnersDiffer DEF InitialAccount, Absent
    <2>2. \A p \in ProposalAddresses : proposal[p].status = "None"
        BY DEF Init, NoProposal
    <2>3. \A ms \in Multisigs, i \in 1..MaxIndex :
             /\ derive_transaction_pda(ms, i) \in Addresses
             /\ derive_proposal_pda(ms, i) \in ProposalAddresses
        BY TransactionAddress
    <2> QED BY <1>1, <2>1, <2>2, <2>3 DEF StoredOnce
<1>3. VerifiedContent
    BY <1>1 DEF VerifiedContent, Calling, NoTransaction
<1> QED BY <1>1, <1>2, <1>3 DEF CInv, LandedContent, StillOpen

LEMMA StutterContent == TypeInv /\ CInv /\ UNCHANGED vars => CInv'
<1> SUFFICES ASSUME TypeInv, CInv, UNCHANGED vars PROVE CInv'
    OBVIOUS
<1>1. UNCHANGED <<account, proposal, tx, pc, working, cast, landed>>
    BY DEF vars, ledger, flight, history
<1>2. StoredOnce' /\ StillOpen'
    BY <1>1 DEF CInv, StoredOnce, StillOpen
<1>3. VerifiedContent' /\ LandedContent'
    BY <1>1, SameAccounts DEF CInv, VerifiedContent, LandedContent
<1> QED BY <1>2, <1>3 DEF CInv

LEMMA NextContent == TypeInv /\ CInv /\ [Next]_vars => CInv'
BY EnvironmentContent, SubmitContent, StepContent, StutterContent DEF Next

(***************************************************************************)
(* What verify_proposal has accepted is true, and stays true until Squads  *)
(* executes the proposal: the conjunction is inductive.                    *)
(***************************************************************************)
THEOREM ContentInvariantHolds == Spec => []CInv
<1>1. Init => CInv
    BY InitContent
<1>2. TypeInv /\ CInv /\ [Next]_vars => CInv'
    BY NextContent
<1> QED BY <1>1, <1>2, TypeInvariant, PTL DEF Spec

(***************************************************************************)
(* Whatever is stored, whatever tables it loads keys from, and however     *)
(* they grow after the vote: what Squads would execute is, instruction by  *)
(* instruction, what every voter was shown (lib.rs:98-123).                *)
(***************************************************************************)
THEOREM ShownContentStaysTrue == Spec => []SeenStaysTrue
<1>1. CInv => SeenStaysTrue
    <2> SUFFICES ASSUME CInv, NEW r \in landed
                 PROVE  LET vault_tx == Deserialized(account[derive_transaction_pda(
                                r.args.multisig, r.args.transaction_index)].data)
                        IN  /\ vault_tx.vault_index = r.args.vault_index
                            /\ Len(vault_tx.ephemeral_signer_bumps) = r.args.num_ephemeral_signers
                            /\ Resolvable(vault_tx.message) =>
                                  Expansion(vault_tx.message, LookupTables(vault_tx.message))
                                      = r.args.instructions
        BY DEF SeenStaysTrue
    <2>1. Truthful(r.args)
        BY DEF CInv, LandedContent
    <2>2. \A message : Resolvable(message) => TablesLive(message)
        BY DEF Resolvable, TablesLive, IsTable, Addresses
    <2> QED BY <2>1, <2>2 DEF Truthful, NamesStored, Message, ShowsExpansion
<1> QED BY <1>1, ContentInvariantHolds, PTL

-----------------------------------------------------------------------------
(***************************************************************************)
(* The stored message behind arguments, and what it expands to.            *)
(***************************************************************************)
LEMMA NamesContent ==
    ASSUME TypeOK, NEW key \in Addresses, account[key].owner = SQUADS_PROGRAM_ID,
           deserialize_checked(account[key].data) = Ok
    PROVE  \E content \in Contents :
               content.message = Deserialized(account[key].data).message
<1>1. PICK ms \in Multisigs, i \in 1..MaxIndex, content \in Contents :
          account[key].data = Stored(ms, i, content)
    BY StoredContent
<1>2. Deserialized(account[key].data).message = content.message
    BY <1>1 DEF Deserialized, Stored
<1> QED BY <1>2

LEMMA ExpansionInContent ==
    ASSUME TypeOK, NEW content \in Contents, NEW message, message = content.message,
           TablesLive(message), resolve(message, LookupTables(message)) = Ok
    PROVE  Expansion(message, LookupTables(message)) \in Content
<1> DEFINE lookups == message.address_table_lookups
           tables == LookupTables(message)
<1>1. \A l \in DOMAIN lookups :
         /\ lookups[l].account_key \in Addresses
         /\ account[lookups[l].account_key].owner = ADDRESS_LOOKUP_TABLE_PROGRAM_ID
    BY DEF TablesLive
<1>2. tables = [l \in DOMAIN lookups |-> account[lookups[l].account_key].data.addresses]
    BY <1>1 DEF LookupTables, TableAddresses, LookupKeys, AccountAt, parse_lookup_table_addresses
<1>3. \A l \in DOMAIN lookups :
         account[lookups[l].account_key].data.addresses \in SeqOf(TableKeys, MaxTableLen)
    <2> SUFFICES ASSUME NEW l \in DOMAIN lookups, NEW addresses,
                        addresses = account[lookups[l].account_key].data.addresses
                 PROVE  addresses \in SeqOf(TableKeys, MaxTableLen)
        OBVIOUS
    <2>1. account[lookups[l].account_key] \in TableAccount /\ Len(addresses) <= MaxTableLen
        BY <1>1, OwnersDiffer DEF TypeOK, WellFormed
    <2>2. addresses \in Seq(TableKeys)
        BY <2>1 DEF TableAccount
    <2>3. addresses \in [1..Len(addresses) -> TableKeys] /\ Len(addresses) \in Nat
        BY <2>2, LenProperties
    <2>4. Len(addresses) \in 0..MaxTableLen
        BY <2>1, <2>3, TablesAssumption
    <2> QED BY <2>3, <2>4 DEF SeqOf
<1>4. tables \in PossibleTables(message)
    BY <1>2, <1>3 DEF PossibleTables
<1> HIDE DEF tables
<1> QED BY <1>4 DEF Content, tables

LEMMA ResolvableResolves ==
    ASSUME NEW message, VaultTransactionMessage(message), Resolvable(message), TypeOK
    PROVE  TablesLive(message) /\ resolve(message, LookupTables(message)) = Ok
<1> DEFINE lookups == message.address_table_lookups
           tables == LookupTables(message)
<1>1. TablesLive(message)
    BY DEF Resolvable, TablesLive, IsTable, Addresses
<1>2. tables = [l \in DOMAIN lookups |-> account[lookups[l].account_key].data.addresses]
    BY DEF Resolvable, LookupTables, TableAddresses, LookupKeys, AccountAt, Addresses,
           parse_lookup_table_addresses
<1>3. Len(tables) = Len(lookups)
    <2>1. IsSequence(lookups)
        BY DEF VaultTransactionMessage
    <2> QED BY <2>1, <1>2 DEF IsSequence
<1>4. \A l \in DOMAIN tables : LookupInBounds(lookups[l], tables[l])
    <2> SUFFICES ASSUME NEW l \in DOMAIN lookups,
                        NEW indexes \in {lookups[l].writable_indexes, lookups[l].readonly_indexes},
                        NEW k \in DOMAIN indexes
                 PROVE  indexes[k] < Len(account[lookups[l].account_key].data.addresses)
        BY <1>2 DEF LookupInBounds
    <2> DEFINE table == lookups[l].account_key
    <2>1. table \in Tables /\ IsTable(table)
          /\ indexes[k] + 1 \in DOMAIN account[table].data.addresses
        BY DEF Resolvable
    <2>2. account[table].data.addresses \in Seq(TableKeys)
        BY <2>1, TableType DEF TableAccount
    <2>3. indexes[k] \in Nat
        <3>1. indexes \in Seq(Byte)
            BY DEF VaultTransactionMessage, MultisigMessageAddressTableLookup
        <3>2. indexes[k] \in Byte
            BY <3>1
        <3> QED BY <3>2 DEF Byte
    <2> HIDE DEF table
    <2> QED BY <2>1, <2>2, <2>3 DEF table
<1> HIDE DEF tables
<1>5. resolve(message, tables) = Ok
    BY <1>3, <1>4 DEF resolve, Require, &&, Ok
<1> QED BY <1>1, <1>5 DEF tables

(***************************************************************************)
(* Everything seen about a proposal is what its stored message expands to. *)
(***************************************************************************)
LEMMA SeenAgrees ==
    ASSUME CInv, OnlyTheShownVote, NEW ms, NEW i, NEW message,
           message = Deserialized(account[derive_transaction_pda(ms, i)].data).message,
           TablesLive(message)
    PROVE  Abstract!Agrees(derive_proposal_pda(ms, i), Expansion(message, LookupTables(message)))
<1> SUFFICES ASSUME NEW r \in landed, r.vote.proposal = derive_proposal_pda(ms, i)
             PROVE  r.args.instructions = Expansion(message, LookupTables(message))
    BY DEF Abstract!Agrees, SeenMap
<1>1. r.vote = ShownVote(r.args) /\ Truthful(r.args)
    BY DEF OnlyTheShownVote, CInv, LandedContent
<1>2. r.args.multisig = ms /\ r.args.transaction_index = i
    BY <1>1, SameAddress DEF ShownVote
<1>3. Message(r.args) = message
    BY <1>2 DEF Message
<1> QED BY <1>1, <1>3 DEF Truthful, ShowsExpansion

LEMMA SameMap ==
    ASSUME UNCHANGED <<executed, landed>>,
           \A p \in ProposalAddresses :
              proposal'[p].status = "Executed" <=> proposal[p].status = "Executed"
    PROVE  SeenMap' = SeenMap /\ RanMap' = RanMap
BY DEF SeenMap, RanMap

(***************************************************************************)
(* Squads executes a proposal: a Run of its content.                       *)
(***************************************************************************)
LEMMA ExecuteRuns ==
    ASSUME IInv, CInv, NEW ms \in Multisigs, NEW i \in 1..MaxIndex, Execute(ms, i)
    PROVE  Abstract!Next
<1> DEFINE p == derive_proposal_pda(ms, i)
           key == derive_transaction_pda(ms, i)
<1> SUFFICES ASSUME NEW message, message = Deserialized(account[key].data).message,
                    NEW run, run = Expansion(message, LookupTables(message))
             PROVE  Abstract!Next
    OBVIOUS
<1>1. /\ proposal[p].status = "Approved" /\ deserialize_checked(account[key].data) = Ok
      /\ Resolvable(message) /\ executed' = [executed EXCEPT ![p] = run]
      /\ proposal' = [proposal EXCEPT ![p].status = "Executed"] /\ landed' = landed
    BY DEF Execute, history
<1>2. p \in ProposalAddresses /\ key \in Addresses /\ TypeOK
    BY TransactionAddress DEF IInv, TypeInv
<1>3. account[key].owner = SQUADS_PROGRAM_ID
    BY <1>1 DEF CInv, StoredOnce
<1>4. PICK content \in Contents : content.message = message
    BY <1>1, <1>2, <1>3, NamesContent
<1>5. TablesLive(message) /\ resolve(message, LookupTables(message)) = Ok
    BY <1>1, <1>2, <1>4, ResolvableResolves, ContentsAssumption
<1>6. run \in Content
    BY <1>2, <1>4, <1>5, ExpansionInContent
<1>7. Abstract!Agrees(p, run)
    BY <1>5, SeenAgrees DEF IInv
<1> HIDE DEF p, key
<1>8. Abstract!Pending(p)
    BY <1>1 DEF Abstract!Pending, RanMap
<1>9. RanMap' = RanMap \cup {[proposal |-> p, content |-> run]}
    <2>1. {q \in ProposalAddresses : proposal'[q].status = "Executed"}
              = {q \in ProposalAddresses : proposal[q].status = "Executed"} \cup {p}
        BY <1>1, <1>2 DEF TypeOK, Proposal
    <2>2. executed'[p] = run /\ \A q \in ProposalAddresses : q # p => executed'[q] = executed[q]
        BY <1>1, <1>2 DEF TypeOK
    <2>3. proposal[p].status # "Executed"
        BY <1>1
    <2> QED BY <2>1, <2>2, <2>3 DEF RanMap
<1>10. SeenMap' = SeenMap
    BY <1>1 DEF SeenMap
<1>11. PICK vote \in Vote : vote.proposal = p
    <2>1. Members # {}
        BY MembersAssumption, FS_EmptySet
    <2>2. PICK m \in Members : TRUE
        BY <2>1
    <2>3. [proposal |-> p, member |-> m, action |-> "Approve"] \in Vote
        BY <1>2 DEF Vote, ProposalAction
    <2> QED BY <2>3
<1>12. Abstract!Run(vote.proposal, run)
    BY <1>7, <1>8, <1>9, <1>10, <1>11 DEF Abstract!Run
<1> QED BY <1>6, <1>11, <1>12 DEF Abstract!Next

(***************************************************************************)
(* A commit: nothing was shown or nothing was cast, or one vote was, with  *)
(* the content of its proposal.                                            *)
(***************************************************************************)
LEMMA CommitCasts ==
    ASSUME IInv, CInv, Commit
    PROVE  Abstract!Next \/ UNCHANGED <<SeenMap, RanMap>>
<1>1. /\ proposal' = working /\ executed' = executed /\ pc > 0
      /\ landed' = landed \cup {[vote |-> v, args |-> args] : v \in cast, args \in Shown(tx)}
    BY TxIsSequence DEF Commit, End, IInv, IsSequence
<1>2. RanMap' = RanMap
    <2>1. \A p \in ProposalAddresses :
             proposal'[p].status = "Executed" <=> proposal[p].status = "Executed"
        BY <1>1 DEF CInv, StillOpen
    <2> QED BY <1>1, <2>1 DEF RanMap
<1>3. CASE cast = {} \/ Shown(tx) = {}
    <2>1. landed' = landed
        BY <1>1, <1>3
    <2> QED BY <1>2, <2>1 DEF SeenMap
<1>4. ASSUME NEW vote \in cast, NEW args \in Shown(tx)
      PROVE  Abstract!Next
    <2> SUFFICES ASSUME NEW message, message = Message(args),
                        NEW run, run = Expansion(message, LookupTables(message))
                 PROVE  Abstract!Next
        OBVIOUS
    <2>1. vote \in Vote /\ TypeOK
        BY DEF IInv, TypeInv, TypeOK
    <2>2. \A v \in cast, a \in Shown(tx) : v = ShownVote(a)
        BY CommitShows
    <2>3. \A a \in Shown(tx) :
             a.multisig = args.multisig /\ a.transaction_index = args.transaction_index
        BY <2>2, SameAddress DEF ShownVote
    <2>4. \A a \in Shown(tx) : Truthful(a) /\ TablesLive(Message(a))
        BY CommitTruthful DEF IInv
    <2>5. \A a \in Shown(tx) : Message(a) = message
        BY <2>3 DEF Message
    <2>6. \A a \in Shown(tx) : a.instructions = run
        BY <2>4, <2>5 DEF Truthful, ShowsExpansion
    <2>7. SeenMap' = SeenMap \cup {[vote |-> vote, content |-> run]}
        <3>1. \A v \in cast : v = vote
            BY <2>2
        <3>2. \A r \in landed' : r \in landed \/ (r.vote = vote /\ r.args.instructions = run)
            BY <1>1, <2>6, <3>1
        <3>3. [vote |-> vote, args |-> args] \in landed' /\ landed \subseteq landed'
            BY <1>1
        <3>4. args.instructions = run
            BY <2>6
        <3>5. SeenMap' = {[vote |-> r.vote, content |-> r.args.instructions] : r \in landed'}
            BY DEF SeenMap
        <3>6. ASSUME NEW s \in SeenMap'
              PROVE  s \in SeenMap \cup {[vote |-> vote, content |-> run]}
            BY <3>2, <3>5 DEF SeenMap
        <3>7. ASSUME NEW s \in SeenMap PROVE s \in SeenMap'
            BY <3>3, <3>5 DEF SeenMap
        <3>8. [vote |-> vote, content |-> run] \in SeenMap'
            BY <3>3, <3>4, <3>5
        <3> QED BY <3>6, <3>7, <3>8
    <2>8. NamesStored(args) /\ TablesLive(message) /\ resolve(message, LookupTables(message)) = Ok
        BY <2>4 DEF Truthful, ShowsExpansion
    <2>9. PICK content \in Contents : content.message = message
        BY <2>1, <2>8, NamesContent DEF NamesStored, Message
    <2>10. run \in Content
        BY <2>1, <2>8, <2>9, ExpansionInContent
    <2>11. vote.proposal = derive_proposal_pda(args.multisig, args.transaction_index)
        BY <2>2 DEF ShownVote
    <2>12. Abstract!Agrees(vote.proposal, run)
        BY <2>8, <2>11, SeenAgrees DEF IInv, Message
    <2>13. Abstract!Pending(vote.proposal)
        <3>1. proposal[vote.proposal].status # "Executed"
            BY <2>1 DEF CInv, StillOpen, Vote
        <3> QED BY <3>1 DEF Abstract!Pending, RanMap
    <2>14. Abstract!Cast(vote, run)
        BY <1>2, <2>7, <2>12, <2>13 DEF Abstract!Cast
    <2> QED BY <2>1, <2>10, <2>14 DEF Abstract!Next
<1> QED BY <1>3, <1>4

(***************************************************************************)
(* Every other step is a stutter of the abstract specification.            *)
(***************************************************************************)
LEMMA CreateStutters ==
    ASSUME TypeOK, NEW ms \in Multisigs, NEW i \in 1..MaxIndex, NEW data, CreateWith(ms, i, data)
    PROVE  UNCHANGED <<SeenMap, RanMap>>
<1> DEFINE p == derive_proposal_pda(ms, i)
<1>1. /\ proposal' = [proposal EXCEPT ![p] = NewProposal] /\ proposal[p].status = "None"
      /\ UNCHANGED <<executed, landed>> /\ p \in ProposalAddresses
    BY TransactionAddress DEF CreateWith, history
<1> HIDE DEF p
<1>2. \A q \in ProposalAddresses :
         proposal'[q].status = "Executed" <=> proposal[q].status = "Executed"
    BY <1>1 DEF TypeOK, NewProposal
<1> QED BY <1>1, <1>2, SameMap

LEMMA EnvironmentMaps ==
    ASSUME IInv, CInv, Environment
    PROVE  Abstract!Next \/ UNCHANGED <<SeenMap, RanMap>>
<1>1. ASSUME NEW ms \in Multisigs, NEW i \in 1..MaxIndex,
             (\E content \in Contents : Create(ms, i, content)) \/ CreateConfig(ms, i)
      PROVE  UNCHANGED <<SeenMap, RanMap>>
    BY <1>1, CreateStutters DEF Create, CreateConfig, IInv, TypeInv
<1>2. ASSUME NEW ms \in Multisigs, NEW i \in 1..MaxIndex, Execute(ms, i)
      PROVE  Abstract!Next
    BY <1>2, ExecuteRuns
<1>3. ASSUME UNCHANGED <<proposal, executed, landed>>
      PROVE  UNCHANGED <<SeenMap, RanMap>>
    BY <1>3, SameMap
<1> QED BY <1>1, <1>2, <1>3
        DEF Environment, ExtendTable, CloseTable, Deploying, history

LEMMA StepMaps ==
    ASSUME IInv, CInv, Step
    PROVE  Abstract!Next \/ UNCHANGED <<SeenMap, RanMap>>
<1>1. CASE Commit
    BY <1>1, CommitCasts
<1>2. CASE VerifyProposal \/ VerifyBufferHash \/ SquadsVote \/ ComputeBudget \/ ForeignCall
    <2>1. UNCHANGED <<proposal, executed, landed>>
        BY <1>2 DEF VerifyProposal, VerifyBufferHash, SquadsVote, ComputeBudget, ForeignCall,
                    Continue, ledger, history
    <2> QED BY <2>1, SameMap
<1>3. CASE Abort
    <2>1. UNCHANGED <<proposal, executed, landed>>
        BY <1>3 DEF Abort, End, history
    <2> QED BY <2>1, SameMap
<1> QED BY <1>1, <1>2, <1>3 DEF Step

LEMMA NextMaps ==
    IInv /\ CInv /\ [Next]_vars => [Abstract!Next]_<<SeenMap, RanMap>>
<1>1. ASSUME NEW t \in Transactions, Submit(t)
      PROVE  UNCHANGED <<SeenMap, RanMap>>
    <2>1. UNCHANGED <<proposal, executed, landed>>
        BY <1>1 DEF Submit, ledger, history
    <2> QED BY <2>1, SameMap
<1>2. ASSUME UNCHANGED vars
      PROVE  UNCHANGED <<SeenMap, RanMap>>
    <2>1. UNCHANGED <<proposal, executed, landed>>
        BY <1>2 DEF vars, ledger, history
    <2> QED BY <2>1, SameMap
<1> QED BY <1>1, <1>2, EnvironmentMaps, StepMaps DEF Next

LEMMA InitMaps == Init => Abstract!Init
BY DEF Init, NoProposal, Abstract!Init, SeenMap, RanMap

(***************************************************************************)
(* Everybody who votes on a proposal sees the same content, what Squads    *)
(* executes is what they saw, and a transaction that shows content casts   *)
(* one vote: for any members, contents, tables and transactions            *)
(* (README.md:62-63, lib.rs:98-123).                                       *)
(***************************************************************************)
THEOREM ClearSigningImplementsClearVote == Spec => ImplementsClearVote
<1>1. Init => Abstract!Init
    BY InitMaps
<1>2. IInv /\ CInv /\ [Next]_vars => [Abstract!Next]_<<SeenMap, RanMap>>
    BY NextMaps
<1> QED BY <1>1, <1>2, VoteInvariantHolds, ContentInvariantHolds, PTL
        DEF Spec, ImplementsClearVote, Abstract!Spec

-----------------------------------------------------------------------------
(***************************************************************************)
(* The vault transactions stay in their places: only creating one writes   *)
(* to an address derived for one, and only while nothing is stored there.  *)
(***************************************************************************)
LEMMA PlacesKept ==
    ASSUME StoredInPlace, \A a \in TransactionAddresses : account'[a] = account[a]
    PROVE  StoredInPlace' /\ StoredForGood
BY DEF StoredInPlace, StoredForGood, TransactionAddresses

LEMMA CreateInPlace ==
    ASSUME TypeOK, CInv, StoredInPlace, NEW ms \in Multisigs, NEW i \in 1..MaxIndex, NEW data,
           CreateWith(ms, i, data),
           data \in {StoredConfig} \cup {Stored(ms, i, c) : c \in Contents}
    PROVE  StoredInPlace' /\ StoredForGood
<1> DEFINE a == derive_transaction_pda(ms, i)
           new == [owner |-> SQUADS_PROGRAM_ID, data |-> data]
<1>1. a \in Addresses
    BY TransactionAddress
<1>2. account' = [account EXCEPT ![a] = new]
    BY DEF CreateWith
<1>3. account[a] = Absent
    <2>1. account[a].owner # SQUADS_PROGRAM_ID
        BY DEF CreateWith, CInv, StoredOnce
    <2> QED BY <2>1 DEF StoredInPlace
<1> HIDE DEF a
<1>4. account'[a] = new /\ \A b \in Addresses : b # a => account'[b] = account[b]
    BY <1>1, <1>2 DEF TypeOK
<1> SUFFICES ASSUME NEW ms2 \in Multisigs, NEW i2 \in 1..MaxIndex
             PROVE  LET acc == account'[derive_transaction_pda(ms2, i2)]
                    IN  /\ \/ acc = Absent
                           \/ /\ acc.owner = SQUADS_PROGRAM_ID
                              /\ acc.data \in {StoredConfig} \cup {Stored(ms2, i2, c) : c \in Contents}
                        /\ \/ account[derive_transaction_pda(ms2, i2)] = Absent
                           \/ acc = account[derive_transaction_pda(ms2, i2)]
    BY DEF StoredInPlace, StoredForGood
<1> DEFINE b == derive_transaction_pda(ms2, i2)
<1>5. CASE b = a
    <2>1. ms2 = ms /\ i2 = i
        BY <1>5 DEF a, derive_transaction_pda
    <2>2. new.owner = SQUADS_PROGRAM_ID /\ new.data = data
        OBVIOUS
    <2> HIDE DEF new
    <2> QED BY <1>3, <1>4, <2>1, <2>2 DEF a
<1>6. CASE b # a
    <2>1. account'[b] = account[b]
        BY <1>4, <1>6, TransactionAddress
    <2> QED BY <2>1 DEF StoredInPlace
<1> QED BY <1>5, <1>6

LEMMA EnvironmentInPlace ==
    ASSUME TypeOK, CInv, StoredInPlace, Environment
    PROVE  StoredInPlace' /\ StoredForGood
<1>1. ASSUME NEW ms \in Multisigs, NEW i \in 1..MaxIndex, NEW content \in Contents,
             Create(ms, i, content)
      PROVE  StoredInPlace' /\ StoredForGood
    <2>1. Stored(ms, i, content) \in {Stored(ms, i, c) : c \in Contents}
        OBVIOUS
    <2> QED BY <1>1, <2>1, CreateInPlace DEF Create
<1>2. ASSUME NEW ms \in Multisigs, NEW i \in 1..MaxIndex, CreateConfig(ms, i)
      PROVE  StoredInPlace' /\ StoredForGood
    BY <1>2, CreateInPlace DEF CreateConfig
<1>3. ASSUME NEW t \in Tables, NEW acc, account' = [account EXCEPT ![t] = acc]
      PROVE  StoredInPlace' /\ StoredForGood
    <2>1. \A a \in TransactionAddresses : account'[a] = account[a]
        BY <1>3, AddressesAssumption DEF TypeOK, Addresses
    <2> QED BY <2>1, PlacesKept
<1>4. ASSUME NEW t \in Tables, NEW key \in TableKeys, ExtendTable(t, key)
      PROVE  StoredInPlace' /\ StoredForGood
    <2>1. \E acc : account' = [account EXCEPT ![t] = acc]
        BY <1>4, Zenon DEF ExtendTable
    <2> QED BY <1>3, <2>1
<1>5. ASSUME NEW t \in Tables, CloseTable(t)
      PROVE  StoredInPlace' /\ StoredForGood
    BY <1>3, <1>5 DEF CloseTable
<1>6. ASSUME account' = account
      PROVE  StoredInPlace' /\ StoredForGood
    BY <1>6, PlacesKept
<1> QED BY <1>1, <1>2, <1>4, <1>5, <1>6 DEF Environment, Execute, Deploying

(***************************************************************************)
(* The address derived for a transaction holds nothing until the           *)
(* transaction is created, and then, for good, what it was created with:   *)
(* verify_proposal can find nothing else there (lib.rs:56-96).             *)
(***************************************************************************)
THEOREM TransactionsStayInPlace == Spec => []StoredInPlace /\ [][StoredForGood]_vars
<1>1. Init => StoredInPlace
    <2> SUFFICES ASSUME Init, NEW ms \in Multisigs, NEW i \in 1..MaxIndex
                 PROVE  account[derive_transaction_pda(ms, i)] = Absent
        BY DEF StoredInPlace
    <2>1. derive_transaction_pda(ms, i) \in TransactionAddresses
        BY DEF TransactionAddresses
    <2> QED BY <2>1, AddressesAssumption DEF Init, InitialAccount, Addresses
<1>2. TypeInv /\ CInv /\ StoredInPlace /\ [Next]_vars => StoredInPlace' /\ [StoredForGood]_vars
    <2> SUFFICES ASSUME TypeInv, CInv, StoredInPlace, [Next]_vars
                 PROVE  StoredInPlace' /\ StoredForGood
        OBVIOUS
    <2>1. ASSUME account' = account PROVE StoredInPlace' /\ StoredForGood
        BY <2>1, PlacesKept
    <2>2. CASE Environment
        BY <2>2, EnvironmentInPlace DEF TypeInv
    <2>3. CASE \E t \in Transactions : Submit(t)
        BY <2>1, <2>3 DEF Submit, ledger
    <2>4. CASE Step
        BY <2>1, <2>4 DEF Step, VerifyProposal, VerifyBufferHash, SquadsVote, ComputeBudget,
            ForeignCall, Abort, Commit, Continue, End, ledger
    <2>5. CASE UNCHANGED vars
        BY <2>1, <2>5 DEF vars, ledger
    <2> QED BY <2>2, <2>3, <2>4, <2>5 DEF Next
<1> QED BY <1>1, <1>2, TypeInvariant, ContentInvariantHolds, PTL DEF Spec

(***************************************************************************)
(* What the chain holds at the address of a transaction that can be read   *)
(* is the transaction of that address.                                     *)
(***************************************************************************)
LEMMA ReadInPlace ==
    ASSUME StoredInPlace, NEW ms \in Multisigs, NEW i \in 1..MaxIndex,
           deserialize_checked(account[derive_transaction_pda(ms, i)].data) = Ok
    PROVE  \E c \in Contents :
              /\ account[derive_transaction_pda(ms, i)].owner = SQUADS_PROGRAM_ID
              /\ account[derive_transaction_pda(ms, i)].data = Stored(ms, i, c)
<1> DEFINE acc == account[derive_transaction_pda(ms, i)]
<1>1. acc.data # StoredConfig
    BY DEF deserialize_checked, StoredConfig, VAULT_TRANSACTION_DISCRIMINATOR, Require, &&, Ok
<1>2. acc # Absent
    BY DEF deserialize_checked, Absent, Require, &&, Ok
<1> QED BY <1>1, <1>2 DEF StoredInPlace

(***************************************************************************)
(* Shown with the tables it names, what a message expands to is accepted.  *)
(***************************************************************************)
LEMMA TruthfulContent ==
    ASSUME TypeOK, NEW message, VaultTransactionMessage(message), RefersToItsKeys(message),
           Resolvable(message)
    PROVE  CheckContent(message, LookupKeys(message), Expansion(message, LookupTables(message))) = Ok
<1> DEFINE lookups == message.address_table_lookups
           keys == LookupKeys(message)
           tables == LookupTables(message)
           run == Expansion(message, tables)
           n == Len(lookups)
<1>1. n \in Nat /\ DOMAIN lookups = 1..n
    <2>1. IsSequence(lookups)
        BY DEF VaultTransactionMessage
    <2> QED BY <2>1 DEF IsSequence
<1>2. keys = [l \in 1..n |-> lookups[l].account_key]
    BY <1>1 DEF LookupKeys
<1> HIDE DEF keys
<1>3. IsSequence(keys) /\ DOMAIN keys = 1..n /\ Len(keys) = n
    BY <1>1, <1>2 DEF IsSequence
<1>4. tables = TableAddresses(keys)
    BY DEF LookupTables, keys
<1>5. tables = [l \in 1..n |-> parse_lookup_table_addresses(AccountAt(keys[l]).data)]
    BY <1>3, <1>4 DEF TableAddresses
<1> HIDE DEF tables
<1>6. IsSequence(tables) /\ Len(tables) = n
    BY <1>1, <1>5 DEF IsSequence
<1>7. \A l \in 1..n : CheckTable(keys[l], lookups[l]) = Ok
    <2> SUFFICES ASSUME NEW l \in 1..n PROVE CheckTable(keys[l], lookups[l]) = Ok
        OBVIOUS
    <2> DEFINE t == lookups[l].account_key
    <2>1. t \in Tables /\ IsTable(t)
        BY <1>1 DEF Resolvable
    <2>2. account[t] \in TableAccount /\ account[t].owner = ADDRESS_LOOKUP_TABLE_PROGRAM_ID
        BY <2>1, TableType DEF IsTable
    <2>3. AccountAt(t) = account[t]
        BY <2>1 DEF AccountAt, Addresses
    <2>4. keys[l] = t
        BY <1>2
    <2> HIDE DEF t
    <2>5. parse_lookup_table(account[t].data) = Ok
        BY <2>2 DEF parse_lookup_table, TableAccount, Require, &&, Ok
    <2>6. CheckTable(t, lookups[l]) = Ok
        BY <2>2, <2>3, <2>5 DEF CheckTable, Require, &&, Ok, t
    <2> QED BY <2>4, <2>6
<1>8. FirstError([l \in DOMAIN keys |-> CheckTable(keys[l], lookups[l])]) = Ok
    <2> DEFINE verdicts == [l \in DOMAIN keys |-> CheckTable(keys[l], lookups[l])]
    <2>1. DOMAIN verdicts \subseteq Nat /\ \A l \in DOMAIN verdicts : verdicts[l] = Ok
        BY <1>1, <1>3, <1>7
    <2> HIDE DEF verdicts
    <2>2. FirstError(verdicts) = Ok
        BY <2>1, FirstErrorOk
    <2> QED BY <2>2 DEF verdicts
<1>9. resolve(message, tables) = Ok
    BY ResolvableResolves DEF tables
<1>10. MessageNamesKeys(message, tables)
    BY <1>6, RefersNames
<1>11. validate_instructions(message, AccountKeys(message, tables), run) = Ok
    BY <1>10, ExpansionType, DiffExact
<1> HIDE DEF run
<1>12. CheckContent(message, keys, run)
         = (Require(Len(keys) = Len(lookups), "LookupTableCountMismatch")
            && FirstError([l \in DOMAIN keys |-> CheckTable(keys[l], lookups[l])])
            && resolve(message, tables)
            && validate_instructions(message, AccountKeys(message, tables), run))
    BY <1>4, Zenon DEF CheckContent
<1>13. Require(Len(keys) = Len(lookups), "LookupTableCountMismatch") = Ok
    BY <1>3 DEF Require
<1>14. CheckContent(message, keys, run) = Ok
    BY <1>8, <1>9, <1>11, <1>12, <1>13 DEF &&
<1> QED BY <1>14 DEF keys, run, tables

(***************************************************************************)
(* The transaction of a truthful vote has the shape that is asked for.     *)
(***************************************************************************)
LEMMA TruthfulShape ==
    ASSUME NEW ms, NEW i, NEW member, NEW action \in ProposalAction
    PROVE  LET t == TruthfulVote(ms, i, member, action)
           IN  validate_transaction_shape(TopLevel(t), VoteExpectation(Args(t.instructions[1]))) = Ok
<1> DEFINE t == TruthfulVote(ms, i, member, action)
           verify == t.instructions[1]
           vote == t.instructions[2]
           exp == VoteExpectation(Args(verify))
           top == TopLevel(t)
           verdicts == [k \in DOMAIN top |-> CheckTopLevel(top[k], exp)]
           proposed == derive_proposal_pda(ms, i)
<1>1. /\ t.signers = {member} /\ DOMAIN t.instructions = 1..2
      /\ verify.program_id = SELF
      /\ vote = [program_id |-> SQUADS_PROGRAM_ID, data |-> <<discriminator[action]>>,
                 accounts |-> <<ms, member, proposed>>]
    BY DEF TruthfulVote
<1>2. Args(verify).multisig = ms /\ Args(verify).transaction_index = i
      /\ Args(verify).member = member /\ Args(verify).action = action
    BY DEF TruthfulVote, Args
<1> HIDE DEF t, verify, vote
<1>3. exp = [self_program |-> SELF, multisig |-> ms, proposal |-> proposed,
             member |-> member, action |-> action]
    BY <1>2 DEF VoteExpectation
<1> HIDE DEF exp, proposed
<1>4. top = [k \in 1..2 |->
               [program_id |-> t.instructions[k].program_id, data |-> t.instructions[k].data,
                accounts |-> [j \in DOMAIN t.instructions[k].accounts |->
                    [pubkey |-> t.instructions[k].accounts[j],
                     is_signer |-> t.instructions[k].accounts[j] \in t.signers]]]]
    BY <1>1 DEF TopLevel
<1> HIDE DEF top
<1>5. CheckTopLevel(top[1], exp) = Ok
    <2>1. top[1].program_id = SELF
        BY <1>1, <1>4 DEF verify
    <2> QED BY <1>3, <2>1 DEF CheckTopLevel
<1>6. /\ top[2].program_id = SQUADS_PROGRAM_ID /\ top[2].data = <<discriminator[action]>>
      /\ top[2].accounts = [j \in 1..3 |-> [pubkey |-> vote.accounts[j],
                                            is_signer |-> vote.accounts[j] \in {member}]]
    <2>1. DOMAIN vote.accounts = 1..3
        BY <1>1
    <2> QED BY <1>1, <1>4, <2>1 DEF vote
<1>7. CheckVote(top[2], exp) = Ok
    <2>1. Len(top[2].data) = 1 /\ top[2].data[1] = discriminator[action]
        BY <1>6
    <2>2. vote.accounts[1] = ms /\ vote.accounts[2] = member /\ vote.accounts[3] = proposed
        BY <1>1
    <2>3. Len(top[2].accounts) = 3
        BY <1>6
    <2>4. top[2].accounts[1].pubkey = ms /\ top[2].accounts[2].pubkey = member
          /\ top[2].accounts[2].is_signer /\ top[2].accounts[3].pubkey = proposed
        <3> DEFINE accounts == [j \in 1..3 |-> [pubkey |-> vote.accounts[j],
                                                is_signer |-> vote.accounts[j] \in {member}]]
        <3>1. /\ accounts[1] = [pubkey |-> ms, is_signer |-> ms \in {member}]
              /\ accounts[2] = [pubkey |-> member, is_signer |-> member \in {member}]
              /\ accounts[3] = [pubkey |-> proposed, is_signer |-> proposed \in {member}]
            BY <2>2
        <3> HIDE DEF accounts
        <3>2. top[2].accounts = accounts
            BY <1>6 DEF accounts
        <3>3. /\ accounts[1].pubkey = ms /\ accounts[2].pubkey = member
              /\ accounts[3].pubkey = proposed
              /\ accounts[2].is_signer = (member \in {member})
            BY <3>1
        <3>4. (member \in {member}) = TRUE
            OBVIOUS
        <3>5. accounts[2].is_signer
            BY <3>3, <3>4, Zenon
        <3> QED BY <3>2, <3>3, <3>5
    <2> QED BY <1>3, <2>1, <2>3, <2>4 DEF CheckVote, Require, &&, Ok
<1>8. CheckTopLevel(top[2], exp) = Ok
    BY <1>6, <1>7 DEF CheckTopLevel, Require, &&, Ok
<1>9. FirstError(verdicts) = Ok
    <2>1. DOMAIN top = 1..2
        BY <1>4
    <2>2. \A k \in 1..2 : CheckTopLevel(top[k], exp) = Ok
        <3> SUFFICES ASSUME NEW k \in 1..2 PROVE CheckTopLevel(top[k], exp) = Ok
            OBVIOUS
        <3>1. k = 1 \/ k = 2
            OBVIOUS
        <3> QED BY <3>1, <1>5, <1>8
    <2>3. DOMAIN verdicts \subseteq Nat /\ \A k \in DOMAIN verdicts : verdicts[k] = Ok
        BY <2>1, <2>2
    <2> HIDE DEF verdicts
    <2> QED BY <2>3, FirstErrorOk
<1>10. validate_transaction_shape(top, exp) = Ok
    <2>1. \E k \in DOMAIN top : top[k].program_id = SQUADS_PROGRAM_ID
        BY <1>4, <1>6
    <2> QED BY <1>9, <2>1 DEF validate_transaction_shape, Require, &&, Ok
<1> QED BY <1>10 DEF top, exp, verify, t

(***************************************************************************)
(* verify_proposal (lib.rs:56-137) refuses no vote that is shown with what *)
(* the chain holds, in any state that can be reached.                      *)
(***************************************************************************)
THEOREM TruthIsAccepted == Spec => []TruthfulVotesAreAccepted
<1>1. TypeInv /\ StoredInPlace => TruthfulVotesAreAccepted
    <2> SUFFICES ASSUME TypeInv, StoredInPlace, NEW ms \in Multisigs, NEW i \in 1..MaxIndex,
                        deserialize_checked(account[derive_transaction_pda(ms, i)].data) = Ok,
                        Resolvable(Deserialized(account[derive_transaction_pda(ms, i)].data).message),
                        NEW m \in Members, NEW action \in ProposalAction
                 PROVE  verify_proposal(TruthfulVote(ms, i, m, action).instructions[1],
                                        TruthfulVote(ms, i, m, action)) = Ok
        BY DEF TruthfulVotesAreAccepted
    <2> DEFINE pda == derive_transaction_pda(ms, i)
               vault_tx == Deserialized(account[pda].data)
               message == vault_tx.message
               keys == LookupKeys(message)
               t == TruthfulVote(ms, i, m, action)
               verify == t.instructions[1]
               args == Args(verify)
    <2>1. PICK c \in Contents : account[pda].owner = SQUADS_PROGRAM_ID
                                /\ account[pda].data = Stored(ms, i, c)
        BY ReadInPlace
    <2>2. vault_tx = [multisig |-> ms, index |-> i, vault_index |-> c.vault_index,
                      ephemeral_signer_bumps |-> c.ephemeral_signer_bumps,
                      message |-> c.message]
        BY <2>1 DEF Deserialized, Stored
    <2>3. pda \in Addresses /\ AccountAt(pda) = account[pda]
        BY TransactionAddress DEF AccountAt
    <2>4. VaultTransactionMessage(message) /\ RefersToItsKeys(message)
        <3>1. message = c.message
            BY <2>2
        <3> QED BY <3>1, ContentsAssumption
    <2>5. verify.accounts = <<pda, INSTRUCTIONS_SYSVAR_ID>> \o keys
        BY DEF TruthfulVote
    <2>6. args = [multisig |-> ms, transaction_index |-> i, member |-> m, action |-> action,
                  vault_index |-> vault_tx.vault_index,
                  num_ephemeral_signers |-> Len(vault_tx.ephemeral_signer_bumps),
                  instructions |-> Expansion(message, LookupTables(message))]
        BY DEF TruthfulVote, Args
    <2>7. validate_transaction_shape(TopLevel(t), VoteExpectation(args)) = Ok
        BY TruthfulShape
    <2>8. CheckContent(message, keys, Expansion(message, LookupTables(message))) = Ok
        BY <2>4, TruthfulContent DEF TypeInv
    <2>9. IsSequence(keys)
        <3> DEFINE lookups == message.address_table_lookups
                   n == Len(lookups)
        <3>1. IsSequence(lookups)
            BY <2>4 DEF VaultTransactionMessage
        <3>2. n \in Nat /\ DOMAIN lookups = 1..n
            BY <3>1 DEF IsSequence
        <3>3. keys = [l \in 1..n |-> lookups[l].account_key]
            BY <3>2 DEF LookupKeys
        <3> HIDE DEF keys, n, lookups
        <3> QED BY <3>2, <3>3 DEF IsSequence
    <2> HIDE DEF t, verify, args, vault_tx, keys, message, pda
    <2>10. Len(verify.accounts) >= 2 /\ verify.accounts[1] = pda
           /\ verify.accounts[2] = INSTRUCTIONS_SYSVAR_ID /\ RemainingAccounts(verify) = keys
        <3> DEFINE front == <<pda, INSTRUCTIONS_SYSVAR_ID>>
                   all == front \o keys
        <3>1. IsSequence(front) /\ Len(front) = 2 /\ front[1] = pda
              /\ front[2] = INSTRUCTIONS_SYSVAR_ID
            BY DEF IsSequence
        <3> HIDE DEF front
        <3>2. Len(keys) \in Nat /\ keys = [k \in 1..Len(keys) |-> keys[k]]
            BY <2>9 DEF IsSequence
        <3>3. IsSequence(all) /\ Len(all) = 2 + Len(keys)
              /\ \A k \in 1..(2 + Len(keys)) : all[k] = IF k <= 2 THEN front[k] ELSE keys[k - 2]
            <4>1. IsSequence(all) /\ Len(all) = Len(front) + Len(keys)
                  /\ \A k \in 1..(Len(front) + Len(keys)) :
                        all[k] = IF k <= Len(front) THEN front[k] ELSE keys[k - Len(front)]
                BY <2>9, <3>1, ConcatIs, Zenon
            <4> HIDE DEF all
            <4> QED BY <3>1, <4>1
        <3> HIDE DEF all
        <3>4. all[1] = pda /\ all[2] = INSTRUCTIONS_SYSVAR_ID
            BY <3>1, <3>2, <3>3
        <3>5. SubSeq(all, 3, Len(all)) = [k \in 1..Len(keys) |-> all[k + 2]]
            BY <3>2, <3>3
        <3>6. \A k \in 1..Len(keys) : all[k + 2] = keys[k]
            BY <3>2, <3>3
        <3>7. SubSeq(all, 3, Len(all)) = keys
            BY <3>2, <3>5, <3>6
        <3> QED BY <2>5, <3>2, <3>3, <3>4, <3>7 DEF RemainingAccounts, all, front
    <2>11. CheckBinding(pda, args) = Ok
        <3>1. deserialize_checked(account[pda].data) = Ok
            BY DEF pda
        <3> QED BY <2>1, <2>2, <2>3, <2>6, <3>1 DEF CheckBinding, Require, &&, Ok, vault_tx, pda
    <2>12. verify_proposal(verify, t)
             = (Require(Len(verify.accounts) >= 2, "AccountNotEnoughKeys")
                && Require(verify.accounts[2] = INSTRUCTIONS_SYSVAR_ID, "InstructionsSysvarError")
                && CheckBinding(pda, args)
                && CheckContent(message, keys, args.instructions)
                && validate_transaction_shape(TopLevel(t), VoteExpectation(args)))
        BY <2>3, <2>10 DEF verify_proposal, args, message, vault_tx
    <2>13. args.instructions = Expansion(message, LookupTables(message))
        BY <2>6
    <2>14. verify_proposal(verify, t) = Ok
        BY <2>7, <2>8, <2>10, <2>11, <2>12, <2>13 DEF Require, &&
    <2> QED BY <2>14 DEF verify, t
<1> QED BY <1>1, TypeInvariant, TransactionsStayInPlace, PTL
=============================================================================
