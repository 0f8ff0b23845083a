------------------------ MODULE ClearSigning_proofs -------------------------
(***************************************************************************)
(* Theorems about ClearSigning, for every value of its constants: its types, *)
(* and that OnlyTheShownVote and NoBlindVote hold. The invariant IInv of   *)
(* VoteInvariant holds initially, is preserved by every action, and implies *)
(* both.                                                                   *)
(***************************************************************************)
EXTENDS VoteInvariant, Operators_proofs

LEMMA CastVerdictOk ==
    ASSUME NEW vote, CastVerdict(vote) = Ok
    PROVE  vote.proposal \in ProposalAddresses /\ vote.member \in tx.signers
           /\ vote.member \in Members
BY DEF CastVerdict, VoteVerdict, Require, &&, Ok

LEMMA ActionOfVote ==
    ASSUME NEW ix, IsVote(ix)
    PROVE  ActionOf(ix) \in ProposalAction /\ discriminator[ActionOf(ix)] = ix.data[1]
BY DEF IsVote, ActionOf

(***************************************************************************)
(* The type invariant.                                                     *)
(***************************************************************************)
LEMMA EmptyTransaction == IsSequence(NoTransaction.instructions)
BY DEF NoTransaction, IsSequence

LEMMA TxIsSequence ==
    ASSUME TypeInv
    PROVE  IsSequence(tx.instructions)
BY TransactionsAssumption, EmptyTransaction DEF TypeInv, InFlight

LEMMA InitType == Init => TypeInv
<1> SUFFICES ASSUME Init PROVE TypeInv
    OBVIOUS
<1>1. \A a \in Addresses : WellFormed(account[a])
    <2> SUFFICES ASSUME NEW a \in Addresses PROVE WellFormed(InitialAccount(a))
        BY DEF Init
    <2>1. CASE a \in Tables
        <3>1. InitialAccount(a) =
                 [owner |-> ADDRESS_LOOKUP_TABLE_PROGRAM_ID,
                  data  |-> [has_meta |-> TRUE, tag |-> 1, remainder |-> 0,
                             addresses |-> InitialAddresses[a]]]
            BY <2>1 DEF InitialAccount
        <3>2. InitialAddresses[a] \in Seq(TableKeys) /\ Len(InitialAddresses[a]) <= MaxTableLen
            BY <2>1, TablesAssumption
        <3> QED BY <3>1, <3>2 DEF WellFormed, TableAccount
    <2>2. CASE a \notin Tables
        BY <2>2 DEF InitialAccount, WellFormed, AbsentAccount, Absent
    <2> QED BY <2>1, <2>2
<1>2. account = [a \in Addresses |-> account[a]]
    BY DEF Init
<1>3. pc \in 0..(Len(tx.instructions) + 1)
    BY EmptyTransaction DEF Init, IsSequence
<1>4. proposal \in [ProposalAddresses -> Proposal] /\ working \in [ProposalAddresses -> Proposal]
    BY NoProposalType DEF Init
<1>5. DOMAIN executed = ProposalAddresses /\ cast \subseteq Vote /\ landed = {} /\ InFlight
    BY DEF Init, InFlight
<1>6. buffer \in BufferStates /\ staged \in BufferStates /\ uses \in [Buffers -> Nat]
    BY DEF Init, BufferStates
<1> QED BY <1>1, <1>2, <1>3, <1>4, <1>5, <1>6 DEF TypeInv, TypeOK

(***************************************************************************)
(* The owner of an account tells what it is.                               *)
(***************************************************************************)
LEMMA OwnersDiffer ==
    /\ SQUADS_PROGRAM_ID # ADDRESS_LOOKUP_TABLE_PROGRAM_ID
    /\ SQUADS_PROGRAM_ID # BPF_LOADER_UPGRADEABLE_ID
    /\ SQUADS_PROGRAM_ID # SYSTEM_PROGRAM_ID
    /\ ADDRESS_LOOKUP_TABLE_PROGRAM_ID # BPF_LOADER_UPGRADEABLE_ID
    /\ ADDRESS_LOOKUP_TABLE_PROGRAM_ID # SYSTEM_PROGRAM_ID
    /\ BPF_LOADER_UPGRADEABLE_ID # SYSTEM_PROGRAM_ID
<1>1. DOMAIN Owners = 1..4
    BY DEF Owners
<1>2. /\ Owners[1] = SQUADS_PROGRAM_ID /\ Owners[2] = ADDRESS_LOOKUP_TABLE_PROGRAM_ID
      /\ Owners[3] = BPF_LOADER_UPGRADEABLE_ID /\ Owners[4] = SYSTEM_PROGRAM_ID
    BY DEF Owners
<1>3. \A i, j \in 1..4 : i # j => Owners[i] # Owners[j]
    BY <1>1, ProgramsAssumption
<1> HIDE DEF Owners
<1> QED BY <1>2, <1>3

LEMMA TableType ==
    ASSUME TypeOK, NEW t \in Tables, IsTable(t)
    PROVE  account[t] \in TableAccount
BY OwnersDiffer DEF TypeOK, IsTable, WellFormed, Addresses

LEMMA BufferType ==
    ASSUME NEW view \in BufferStates, NEW b \in Buffers
    PROVE  /\ view[b] \in BufferAccount \/ view[b] = Absent
           /\ view[b].owner \in {BPF_LOADER_UPGRADEABLE_ID, SYSTEM_PROGRAM_ID}
BY DEF BufferStates, BufferAccount, BufferHolding, Absent

(***************************************************************************)
(* No buffer passes for an account of Squads or for a lookup table.        *)
(***************************************************************************)
LEMMA NoBuffer ==
    ASSUME TypeOK, NEW key,
           AccountAt(key).owner \in {SQUADS_PROGRAM_ID, ADDRESS_LOOKUP_TABLE_PROGRAM_ID}
    PROVE  key \in Addresses /\ AccountAt(key) = account[key]
<1>1. key \notin Buffers \/ key \in Addresses
    BY BufferType, OwnersDiffer DEF TypeOK, AccountAt
<1> QED BY <1>1, OwnersDiffer DEF AccountAt, Absent

LEMMA TransactionAddress ==
    ASSUME NEW ms \in Multisigs, NEW i \in 1..MaxIndex
    PROVE  /\ derive_transaction_pda(ms, i) \in Addresses
           /\ derive_proposal_pda(ms, i) \in ProposalAddresses
BY DEF Addresses, TransactionAddresses, ProposalAddresses

LEMMA AbsentWellFormed == WellFormed(Absent)
BY DEF Absent, AbsentAccount, WellFormed

(***************************************************************************)
(* A step that writes one account well keeps the ledger well formed.       *)
(***************************************************************************)
LEMMA LedgerWrite ==
    ASSUME TypeOK, NEW a \in Addresses, NEW acc, WellFormed(acc),
           account' = [account EXCEPT ![a] = acc]
    PROVE  /\ account' = [b \in Addresses |-> account'[b]]
           /\ \A b \in Addresses : WellFormed(account'[b])
BY DEF TypeOK

LEMMA CreateType ==
    ASSUME TypeInv, NEW ms \in Multisigs, NEW i \in 1..MaxIndex,
           NEW data \in StoredData, CreateWith(ms, i, data)
    PROVE  TypeInv'
<1> DEFINE a == derive_transaction_pda(ms, i)
           p == derive_proposal_pda(ms, i)
           acc == [owner |-> SQUADS_PROGRAM_ID, data |-> data]
<1>1. a \in Addresses /\ p \in ProposalAddresses
    BY TransactionAddress
<1>2. WellFormed(acc)
    BY DEF WellFormed, TransactionAccount
<1>3. account' = [account EXCEPT ![a] = acc]
    BY DEF CreateWith
<1>4. /\ account' = [b \in Addresses |-> account'[b]]
      /\ \A b \in Addresses : WellFormed(account'[b])
    <2> HIDE DEF a, acc
    <2> QED BY <1>1, <1>2, <1>3, LedgerWrite DEF TypeInv
<1>5. proposal' \in [ProposalAddresses -> Proposal] /\ working' = proposal'
    BY <1>1, NoProposalType DEF CreateWith, TypeInv, TypeOK
<1>6. UNCHANGED <<buffer, staged, uses, executed, tx, pc, cast, landed>> /\ pc = 0
    BY DEF CreateWith, Idle, history
<1>7. InFlight'
    BY <1>5, <1>6 DEF TypeInv, InFlight
<1>8. \A r \in landed' : r.vote \in Vote
    BY <1>6 DEF TypeInv, TypeOK
<1> HIDE DEF a, p, acc
<1> QED BY <1>4, <1>5, <1>6, <1>7, <1>8 DEF TypeInv, TypeOK

(***************************************************************************)
(* The steps that touch an account and nothing else.                       *)
(***************************************************************************)
LEMMA AccountStep ==
    ASSUME TypeInv, NEW a \in Addresses, NEW acc, WellFormed(acc),
           account' = [account EXCEPT ![a] = acc],
           UNCHANGED <<buffer, proposal, executed, deployed, uses, flight, history>>
    PROVE  TypeInv'
<1>1. /\ account' = [b \in Addresses |-> account'[b]]
      /\ \A b \in Addresses : WellFormed(account'[b])
    BY LedgerWrite DEF TypeInv
<1>2. UNCHANGED <<buffer, uses, proposal, executed, tx, pc, working, staged, cast, landed>>
    BY DEF flight, history
<1> QED BY <1>1, <1>2 DEF TypeInv, TypeOK, InFlight

LEMMA ExtendTableType ==
    ASSUME TypeInv, NEW t \in Tables, NEW key \in TableKeys, ExtendTable(t, key)
    PROVE  TypeInv'
<1> DEFINE grown == Append(account[t].data.addresses, key)
           acc == [account[t] EXCEPT !.data = [@ EXCEPT !.addresses = grown]]
<1>1. account[t] \in TableAccount
    BY TableType DEF ExtendTable, TypeInv
<1>2. account[t].data.addresses \in Seq(TableKeys)
    BY <1>1 DEF TableAccount
<1>3. grown \in Seq(TableKeys) /\ Len(grown) <= MaxTableLen
    BY <1>2, TablesAssumption DEF ExtendTable
<1>4. account' = [account EXCEPT ![t] = acc]
    BY Zenon DEF ExtendTable
<1> HIDE DEF grown
<1>5. acc \in TableAccount /\ acc.owner = ADDRESS_LOOKUP_TABLE_PROGRAM_ID
    BY <1>1, <1>3 DEF TableAccount
<1>6. WellFormed(acc)
    <2>1. acc.data.addresses = grown
        BY <1>1 DEF TableAccount
    <2> QED BY <1>3, <1>5, <2>1 DEF WellFormed
<1>7. t \in Addresses
    BY DEF Addresses
<1>8. UNCHANGED <<buffer, proposal, executed, deployed, uses, flight, history>>
    BY DEF ExtendTable
<1> HIDE DEF acc
<1> QED BY <1>6, <1>4, <1>7, <1>8, AccountStep

LEMMA CloseTableType ==
    ASSUME TypeInv, NEW t \in Tables, CloseTable(t)
    PROVE  TypeInv'
<1>1. t \in Addresses
    BY DEF Addresses
<1> QED BY <1>1, AbsentWellFormed, AccountStep DEF CloseTable

(***************************************************************************)
(* What a deployer does leaves buffers behind, or none.                    *)
(***************************************************************************)
LEMMA LoaderCallType ==
    ASSUME TypeOK, LoaderCall
    PROVE  staged' \in BufferStates
<1>1. ASSUME NEW b \in Buffers, NEW acc \in BufferAccount \cup {Absent},
             staged' = [staged EXCEPT ![b] = acc]
      PROVE  staged' \in BufferStates
    BY <1>1 DEF TypeOK, BufferStates
<1>2. ASSUME NEW b \in Buffers, CreateBuffer(b)
      PROVE  staged' \in BufferStates
    <2>1. BufferHolding(<<>>, DEPLOYER) \in BufferAccount
        BY DEF BufferAccount
    <2> QED BY <1>1, <1>2, <2>1 DEF CreateBuffer
<1>3. ASSUME NEW b \in Buffers, NEW build \in Builds, WriteBuffer(b, build)
      PROVE  staged' \in BufferStates
    <2>1. BufferHolding(build, DEPLOYER) \in BufferAccount
        BY DEF BufferAccount
    <2> QED BY <1>1, <1>3, <2>1 DEF WriteBuffer
<1>4. ASSUME NEW b \in Buffers, SetBufferAuthority(b)
      PROVE  staged' \in BufferStates
    <2>1. staged[b] \in BufferAccount
        BY <1>4, BufferType, OwnersDiffer DEF TypeOK, SetBufferAuthority, HeldBy, Absent
    <2>2. staged[b].data.bytes \in Builds \cup {<<>>}
        BY <2>1 DEF BufferAccount, BufferHolding, BufferData
    <2>3. BufferHolding(staged[b].data.bytes, VAULT) \in BufferAccount
        BY <2>2 DEF BufferAccount
    <2> QED BY <1>1, <1>4, <2>3 DEF SetBufferAuthority
<1>5. ASSUME NEW b \in Buffers, CloseBuffer(b)
      PROVE  staged' \in BufferStates
    BY <1>1, <1>5 DEF CloseBuffer
<1> QED BY <1>2, <1>3, <1>4, <1>5 DEF LoaderCall

LEMMA DeployingType ==
    ASSUME TypeInv, Deploying
    PROVE  TypeInv'
<1>1. staged' \in BufferStates /\ buffer' = staged'
    BY LoaderCallType DEF Deploying, TypeInv
<1>2. UNCHANGED <<account, uses, proposal, executed, tx, pc, working, cast, landed>> /\ pc = 0
    BY DEF Deploying, Idle, history
<1> QED BY <1>1, <1>2 DEF TypeInv, TypeOK, InFlight

(***************************************************************************)
(* What an execution makes of the buffers.                                 *)
(***************************************************************************)
LEMMA UsedCounts ==
    ASSUME NEW count \in [Buffers -> Nat], NEW bs
    PROVE  /\ Used(count, bs) \in [Buffers -> Nat]
           /\ \A b \in Buffers :
                 Used(count, bs)[b] = IF b \in bs THEN count[b] + 1 ELSE count[b]
BY DEF Used

LEMMA LeftBehindType ==
    ASSUME TypeOK, NEW run, NEW left \in LeftBehind(run)
    PROVE  /\ left \in BufferStates
           /\ \A b \in Buffers \ HandledBuffers(run) : left[b] = buffer[b]
<1> DEFINE handled == {b \in HandledBuffers(run) : HeldBy(buffer[b], VAULT)}
<1>1. PICK made \in [handled -> BufferAccount \cup {Absent}] :
          left = [b \in Buffers |-> IF b \in DOMAIN made THEN made[b] ELSE buffer[b]]
    BY DEF LeftBehind
<1>2. DOMAIN made = handled /\ \A b \in handled : made[b] \in BufferAccount \cup {Absent}
    OBVIOUS
<1>3. \A b \in handled : b \in HandledBuffers(run)
    OBVIOUS
<1> HIDE DEF handled
<1> QED BY <1>1, <1>2, <1>3 DEF TypeOK, BufferStates

LEMMA ExecuteType ==
    ASSUME TypeInv, NEW ms \in Multisigs, NEW i \in 1..MaxIndex, Execute(ms, i)
    PROVE  TypeInv'
<1> DEFINE p == derive_proposal_pda(ms, i)
           message == Deserialized(account[derive_transaction_pda(ms, i)].data).message
<1>1. p \in ProposalAddresses
    BY TransactionAddress
<1> SUFFICES ASSUME NEW run, run = Expansion(message, LookupTables(message)) PROVE TypeInv'
    OBVIOUS
<1>2. PICK left \in LeftBehind(run) :
          buffer' = [b \in Buffers |-> IF b \in UpgradeBuffers(run) THEN Absent ELSE left[b]]
    BY DEF Execute
<1>3. buffer' \in BufferStates /\ staged' = buffer'
    <2>1. left \in BufferStates
        BY LeftBehindType DEF TypeInv
    <2>2. buffer' \in BufferStates
        BY <1>2, <2>1 DEF BufferStates
    <2> QED BY <2>2 DEF Execute
<1>4. uses' \in [Buffers -> Nat]
    <2>1. Used(uses, HandledBuffers(run)) \in [Buffers -> Nat]
        BY UsedCounts DEF TypeInv, TypeOK
    <2>2. uses' = Used(Used(uses, HandledBuffers(run)), UpgradeBuffers(run))
        BY DEF Execute
    <2> QED BY <2>1, <2>2, UsedCounts
<1>5. proposal' = [proposal EXCEPT ![p].status = "Executed"] /\ working' = proposal'
    BY DEF Execute
<1>6. proposal' \in [ProposalAddresses -> Proposal]
    <2> HIDE DEF p, message
    <2>1. proposal \in [ProposalAddresses -> Proposal]
        BY DEF TypeInv, TypeOK
    <2>2. [proposal[p] EXCEPT !.status = "Executed"] \in Proposal
        BY <1>1, <2>1 DEF Proposal, ProposalStatus
    <2> QED BY <1>1, <1>5, <2>1, <2>2
<1>7. DOMAIN executed' = ProposalAddresses
    BY DEF Execute, TypeInv, TypeOK
<1>8. UNCHANGED <<account, tx, pc, cast, landed>> /\ pc = 0
    BY DEF Execute, Idle, history
<1>9. InFlight'
    BY <1>3, <1>5, <1>8 DEF TypeInv, InFlight
<1> HIDE DEF p, message
<1> QED BY <1>3, <1>4, <1>5, <1>6, <1>7, <1>8, <1>9 DEF TypeInv, TypeOK

(***************************************************************************)
(* The steps of a transaction.                                             *)
(***************************************************************************)
LEMMA SubmitType ==
    ASSUME TypeInv, NEW t \in Transactions, Submit(t)
    PROVE  TypeInv'
<1>1. IsSequence(t.instructions)
    BY TransactionsAssumption
<1>2. /\ tx' = t /\ pc' = 1
      /\ UNCHANGED <<account, buffer, uses, proposal, executed, working, staged, cast, landed>>
    BY DEF Submit, ledger, history
<1>3. InFlight'
    BY <1>2 DEF InFlight
<1>4. pc' \in 0..(Len(tx'.instructions) + 1)
    BY <1>1, <1>2 DEF IsSequence
<1> QED BY <1>2, <1>3, <1>4 DEF TypeInv, TypeOK

(***************************************************************************)
(* An instruction that lets the transaction continue, with the votes of    *)
(* the transaction, or the buffers it sees, changed or not.                *)
(***************************************************************************)
LEMMA ContinueType ==
    ASSUME TypeInv, Running, Continue,
           working' \in [ProposalAddresses -> Proposal], cast' \subseteq Vote,
           staged' \in BufferStates
    PROVE  TypeInv'
<1>1. IsSequence(tx.instructions)
    BY TxIsSequence
<1>2. pc \in 1..Len(tx.instructions) /\ pc' = pc + 1
    BY <1>1 DEF Running, Continue, IsSequence
<1>3. UNCHANGED <<account, buffer, uses, proposal, executed, tx, landed>>
    BY DEF Continue, ledger, history
<1>4. pc' \in 0..(Len(tx'.instructions) + 1)
    BY <1>1, <1>2, <1>3 DEF IsSequence
<1>5. InFlight'
    BY <1>2, <1>3 DEF TypeInv, InFlight
<1> QED BY <1>3, <1>4, <1>5 DEF TypeInv, TypeOK

LEMMA CastVoteType ==
    ASSUME TypeInv, NEW vote, vote \in [proposal : {vote.proposal}, member : {vote.member},
                                        action : ProposalAction],
           CastVote(vote)
    PROVE  /\ working' \in [ProposalAddresses -> Proposal] /\ cast' \subseteq Vote
           /\ staged' \in BufferStates
           /\ vote \in Vote /\ vote.member \in tx.signers
<1>1. vote.proposal \in ProposalAddresses /\ vote.member \in Members /\ vote.member \in tx.signers
    BY CastVerdictOk DEF CastVote
<1>2. vote \in Vote
    BY <1>1 DEF Vote
<1>3. Voted(working[vote.proposal], vote.member, vote.action) \in Proposal
    BY <1>1, VotedProposal DEF TypeInv, TypeOK
<1> QED BY <1>1, <1>2, <1>3 DEF CastVote, TypeInv, TypeOK

LEMMA SquadsVoteCasts ==
    ASSUME TypeInv, SquadsVote
    PROVE  /\ working' \in [ProposalAddresses -> Proposal] /\ cast' \subseteq Vote
           /\ staged' \in BufferStates
           /\ VoteOf(Current) \in Vote /\ VoteOf(Current).member \in tx.signers
<1>1. VoteOf(Current) \in [proposal : {VoteOf(Current).proposal},
                          member : {VoteOf(Current).member}, action : ProposalAction]
    BY ActionOfVote DEF SquadsVote, VoteOf
<1> QED BY <1>1, CastVoteType DEF SquadsVote

LEMMA EndType ==
    ASSUME TypeInv, End, proposal' \in [ProposalAddresses -> Proposal],
           buffer' \in BufferStates,
           \A r \in landed' : r.vote \in Vote
    PROVE  TypeInv'
<1>1. tx' = NoTransaction /\ pc' = 0 /\ working' = proposal' /\ staged' = buffer' /\ cast' = {}
      /\ UNCHANGED <<account, executed, uses>>
    BY DEF End
<1>2. InFlight'
    BY <1>1 DEF InFlight
<1>3. pc' \in 0..(Len(tx'.instructions) + 1)
    BY <1>1, EmptyTransaction DEF IsSequence
<1> QED BY <1>1, <1>2, <1>3 DEF TypeInv, TypeOK

LEMMA ForeignCallType ==
    ASSUME TypeInv, ForeignCall
    PROVE  /\ working' \in [ProposalAddresses -> Proposal] /\ cast' \subseteq Vote
           /\ staged' \in BufferStates
<1>1. CASE UNCHANGED <<working, staged, cast>>
    BY <1>1 DEF TypeInv, TypeOK
<1>2. ASSUME NEW p \in ProposalAddresses, NEW a \in ProposalAction,
             NEW j \in DOMAIN Current.accounts,
             CastVote([proposal |-> p, member |-> Current.accounts[j], action |-> a])
      PROVE  /\ working' \in [ProposalAddresses -> Proposal] /\ cast' \subseteq Vote
             /\ staged' \in BufferStates
    BY <1>2, CastVoteType
<1>3. CASE LoaderCall /\ UNCHANGED <<working, cast>>
    BY <1>3, LoaderCallType DEF TypeInv, TypeOK
<1> QED BY <1>1, <1>2, <1>3 DEF ForeignCall

LEMMA StepType ==
    ASSUME TypeInv, Step
    PROVE  TypeInv'
<1>1. CASE VerifyProposal
    BY <1>1, ContinueType DEF VerifyProposal, TypeInv, TypeOK
<1>2. CASE VerifyBufferHash
    BY <1>2, ContinueType DEF VerifyBufferHash, TypeInv, TypeOK
<1>3. CASE SquadsVote
    BY <1>3, ContinueType, SquadsVoteCasts DEF SquadsVote
<1>4. CASE ComputeBudget
    BY <1>4, ContinueType DEF ComputeBudget, TypeInv, TypeOK
<1>5. CASE ForeignCall
    BY <1>5, ContinueType, ForeignCallType DEF ForeignCall
<1>6. CASE Abort
    BY <1>6, EndType DEF Abort, history, TypeInv, TypeOK
<1>7. CASE Commit
    <2>1. proposal' \in [ProposalAddresses -> Proposal]
        BY <1>7 DEF Commit, TypeInv, TypeOK
    <2>2. \A r \in landed' : r.vote \in Vote
        BY <1>7 DEF Commit, TypeInv, TypeOK
    <2>3. buffer' \in BufferStates
        BY <1>7 DEF Commit, TypeInv, TypeOK
    <2> QED BY <1>7, <2>1, <2>2, <2>3, EndType DEF Commit
<1> QED BY <1>1, <1>2, <1>3, <1>4, <1>5, <1>6, <1>7 DEF Step

LEMMA StutterType == TypeInv /\ UNCHANGED vars => TypeInv'
BY DEF TypeInv, TypeOK, InFlight, vars, ledger, flight, history

LEMMA EnvironmentType ==
    ASSUME TypeInv, Environment
    PROVE  TypeInv'
<1>1. ASSUME NEW ms \in Multisigs, NEW i \in 1..MaxIndex, NEW content \in Contents,
             Create(ms, i, content)
      PROVE  TypeInv'
    <2>1. Stored(ms, i, content) \in StoredData
        BY DEF StoredData
    <2> QED BY <1>1, <2>1, CreateType DEF Create
<1>2. ASSUME NEW ms \in Multisigs, NEW i \in 1..MaxIndex, CreateConfig(ms, i)
      PROVE  TypeInv'
    <2>1. StoredConfig \in StoredData
        BY DEF StoredData
    <2> QED BY <1>2, <2>1, CreateType DEF CreateConfig
<1> QED BY <1>1, <1>2, ExecuteType, ExtendTableType, CloseTableType,
           DeployingType DEF Environment

LEMMA NextType == TypeInv /\ [Next]_vars => TypeInv'
BY EnvironmentType, SubmitType, StepType, StutterType DEF Next

(***************************************************************************)
(* The ledger holds only what the programs that own its accounts write,    *)
(* proposals stay proposals, and the transaction in flight is one that was *)
(* submitted.                                                              *)
(***************************************************************************)
THEOREM TypeInvariant == Spec => []TypeInv
<1>1. Init => TypeInv
    BY InitType
<1>2. TypeInv /\ [Next]_vars => TypeInv'
    BY NextType
<1> QED BY <1>1, <1>2, PTL DEF Spec

(***************************************************************************)
(* The type invariant of the model, of which TypeInv is the inductive form.*)
(***************************************************************************)
THEOREM TypeCorrect == Spec => []TypeOK
<1>1. TypeInv => TypeOK
    BY DEF TypeInv
<1> QED BY <1>1, TypeInvariant, PTL

(***************************************************************************)
(* A transaction whose shape is accepted consists of instructions of this  *)
(* program, of the compute budget, and of votes that were checked.         *)
(***************************************************************************)
LEMMA ShapeKnows ==
    ASSUME IsSequence(tx.instructions), NEW args, ShapeOk(args),
           NEW k \in DOMAIN tx.instructions
    PROVE  \/ tx.instructions[k].program_id \in {SELF, COMPUTE_BUDGET_PROGRAM_ID}
           \/ /\ tx.instructions[k].program_id = SQUADS_PROGRAM_ID
              /\ CheckVote(TopLevel(tx)[k], VoteExpectation(args)) = Ok
<1> DEFINE e   == VoteExpectation(args)
           top == TopLevel(tx)
           verdicts == [i \in DOMAIN top |-> CheckTopLevel(top[i], e)]
           program == tx.instructions[k].program_id
<1>1. DOMAIN top = DOMAIN tx.instructions /\ DOMAIN top \subseteq Nat
    BY DEF TopLevel, IsSequence
<1>2. FirstError(verdicts) = Ok
    BY AndOk DEF ShapeOk, validate_transaction_shape
<1>3. CheckTopLevel(top[k], e) = Ok
    <2>1. DOMAIN verdicts \subseteq Nat
        BY <1>1
    <2>2. \A i \in DOMAIN verdicts : verdicts[i] = Ok
        <3> HIDE DEF verdicts
        <3> QED BY <1>2, <2>1, FirstErrorOk
    <2> QED BY <1>1, <2>2
<1>4. top[k].program_id = program
    BY DEF TopLevel
<1>5. e.self_program = SELF
    BY DEF VoteExpectation
<1> SUFFICES ASSUME program \notin {SELF, COMPUTE_BUDGET_PROGRAM_ID}
             PROVE  program = SQUADS_PROGRAM_ID /\ CheckVote(top[k], e) = Ok
    OBVIOUS
<1> HIDE DEF top, e, program
<1>6. (Require(program = SQUADS_PROGRAM_ID, "ForbiddenInstruction") && CheckVote(top[k], e)) = Ok
    BY <1>3, <1>4, <1>5 DEF CheckTopLevel
<1> QED BY <1>6, AndOk DEF Require, Ok

(***************************************************************************)
(* The shape of the outer transaction binds its votes (validation.rs:297). *)
(* If the shape is accepted for some arguments, every vote whose origin is *)
(* in the transaction is the vote those arguments show.                    *)
(***************************************************************************)
LEMMA ShapeBindsVote ==
    ASSUME TypeInv, NEW args, args.action \in ProposalAction, ShapeOk(args),
           NEW v, Origin(v), pc > 0
    PROVE  v = ShownVote(args)
<1> DEFINE e   == VoteExpectation(args)
           top == TopLevel(tx)
<1>1. IsSequence(tx.instructions) /\ tx \in Transactions
    BY TxIsSequence DEF TypeInv, InFlight
<1>2. PICK k \in DOMAIN tx.instructions :
        \/ IsForeign(tx.instructions[k])
        \/ /\ tx.instructions[k].program_id = SQUADS_PROGRAM_ID
           /\ IsVote(tx.instructions[k])
           /\ v = VoteOf(tx.instructions[k])
    BY DEF Origin
<1> DEFINE ix == tx.instructions[k]
<1>3. top[k].program_id = ix.program_id /\ top[k].data = ix.data
    BY DEF TopLevel
<1>4. e.self_program = SELF /\ e.action = args.action /\ e.member = args.member
      /\ e.proposal = derive_proposal_pda(args.multisig, args.transaction_index)
    BY DEF VoteExpectation
<1>5. ix.program_id = SQUADS_PROGRAM_ID /\ CheckVote(top[k], e) = Ok
    <2>1. ix.program_id \notin {SELF, COMPUTE_BUDGET_PROGRAM_ID}
        BY <1>2, ProgramsAssumption DEF IsForeign
    <2> QED BY <1>1, <2>1, ShapeKnows
<1>6. IsVote(ix) /\ v = VoteOf(ix)
    BY <1>2, <1>5 DEF IsForeign
<1>7. \A j \in 1..3 : j \in DOMAIN ix.accounts
    BY <1>1, <1>6, TransactionsAssumption DEF IsSequence, IsVote
<1>8. top[k].accounts[2].pubkey = ix.accounts[2] /\ top[k].accounts[3].pubkey = ix.accounts[3]
    BY <1>7 DEF TopLevel
<1> HIDE DEF ix, top, e
<1>9. /\ top[k].data[1] = discriminator[e.action]
       /\ top[k].accounts[2].pubkey = e.member
       /\ top[k].accounts[3].pubkey = e.proposal
    BY <1>5 DEF CheckVote, Require, &&, Ok
<1>10. ActionOf(ix) = args.action
    <2>1. discriminator[ActionOf(ix)] = discriminator[args.action] /\ ActionOf(ix) \in ProposalAction
        BY <1>3, <1>4, <1>6, <1>9, ActionOfVote
    <2> QED BY <2>1 DEF discriminator, ProposalAction
<1> QED BY <1>3, <1>4, <1>6, <1>8, <1>9, <1>10 DEF VoteOf, ShownVote

-----------------------------------------------------------------------------
LEMMA InitHalfway == Init => IInv
<1> SUFFICES ASSUME Init PROVE IInv
    OBVIOUS
<1>1. TypeInv
    BY InitType
<1>2. pc = 0 /\ cast = {} /\ landed = {} /\ working = proposal /\ tx = NoTransaction
      /\ proposal = [p \in ProposalAddresses |-> NoProposal]
    BY DEF Init
<1>3. Verified
    BY <1>2 DEF Verified, Calling, NoTransaction
<1>4. Seen /\ CastInside /\ Counted /\ OnlyTheShownVote
    BY <1>2 DEF Seen, CastInside, Counted, OnlyTheShownVote
<1>5. NoBlindVote
    BY <1>2 DEF NoBlindVote, NoProposal
<1> QED BY <1>1, <1>3, <1>4, <1>5 DEF IInv, Halfway

(***************************************************************************)
(* Steps between transactions: they leave the votes of every proposal as   *)
(* they are, or start a proposal that has none.                            *)
(***************************************************************************)
SameVotes(p) ==
    /\ proposal'[p].approved \subseteq proposal[p].approved
    /\ proposal'[p].rejected \subseteq proposal[p].rejected
    /\ proposal'[p].cancelled \subseteq proposal[p].cancelled

LEMMA BetweenTransactions ==
    ASSUME IInv, TypeInv', Idle, UNCHANGED <<tx, pc, cast, landed>>,
           working' = proposal',
           \A p \in ProposalAddresses : SameVotes(p)
    PROVE  IInv'
<1>1. pc = 0 /\ pc' = 0 /\ tx' = NoTransaction /\ cast' = {}
    BY DEF IInv, TypeInv, InFlight, Idle
<1>2. Seen' /\ CastInside'
    BY <1>1 DEF Seen, CastInside
<1>3. Verified'
    BY <1>1 DEF Verified, Calling, NoTransaction
<1>4. Counted'
    BY DEF Counted
<1>5. OnlyTheShownVote'
    BY DEF IInv, OnlyTheShownVote
<1>6. NoBlindVote'
    BY DEF IInv, NoBlindVote, SameVotes
<1> QED BY <1>2, <1>3, <1>4, <1>5, <1>6 DEF IInv, Halfway

LEMMA CreateHalfway ==
    ASSUME IInv, TypeInv', NEW ms \in Multisigs, NEW i \in 1..MaxIndex,
           NEW data, CreateWith(ms, i, data)
    PROVE  IInv'
<1> DEFINE q == derive_proposal_pda(ms, i)
<1>1. proposal' = [proposal EXCEPT ![q] = NewProposal] /\ working' = proposal'
    BY DEF CreateWith
<1>2. \A p \in ProposalAddresses : proposal'[p] = proposal[p] \/ proposal'[p] = NewProposal
    <2> HIDE DEF q
    <2> QED BY <1>1 DEF IInv, TypeInv, TypeOK
<1>3. \A p \in ProposalAddresses : SameVotes(p)
    BY <1>2 DEF SameVotes, NewProposal, NoProposal
<1>4. Idle /\ UNCHANGED <<tx, pc, cast, landed>>
    BY DEF CreateWith, history
<1> QED BY <1>1, <1>3, <1>4, BetweenTransactions

LEMMA ExecuteHalfway ==
    ASSUME IInv, TypeInv', NEW ms \in Multisigs, NEW i \in 1..MaxIndex, Execute(ms, i)
    PROVE  IInv'
<1> DEFINE q == derive_proposal_pda(ms, i)
<1>1. proposal' = [proposal EXCEPT ![q].status = "Executed"] /\ working' = proposal'
    BY DEF Execute
<1>2. \A p \in ProposalAddresses : SameVotes(p)
    <2> HIDE DEF q
    <2> QED BY <1>1 DEF IInv, TypeInv, TypeOK, SameVotes, Proposal
<1>3. Idle /\ UNCHANGED <<tx, pc, cast, landed>>
    BY DEF Execute, history
<1> QED BY <1>1, <1>2, <1>3, BetweenTransactions

LEMMA LedgerHalfway ==
    ASSUME IInv, TypeInv', Idle,
           UNCHANGED <<buffer, proposal, executed, deployed, uses, flight, history>>
    PROVE  IInv'
<1>1. UNCHANGED <<proposal, tx, pc, working, cast, landed>>
    BY DEF flight, history
<1>2. working' = proposal'
    BY <1>1 DEF IInv, TypeInv, InFlight, Idle
<1>3. \A p \in ProposalAddresses : SameVotes(p)
    BY <1>1 DEF SameVotes
<1> QED BY <1>1, <1>2, <1>3, BetweenTransactions

LEMMA EnvironmentHalfway ==
    ASSUME IInv, Environment
    PROVE  IInv'
<1>1. TypeInv'
    BY EnvironmentType DEF IInv
<1>2. ASSUME NEW ms \in Multisigs, NEW i \in 1..MaxIndex,
             \/ \E content \in Contents : Create(ms, i, content)
             \/ CreateConfig(ms, i)
             \/ Execute(ms, i)
      PROVE  IInv'
    BY <1>1, <1>2, CreateHalfway, ExecuteHalfway DEF Create, CreateConfig
<1>3. ASSUME NEW t \in Tables,
             (\E key \in TableKeys : ExtendTable(t, key)) \/ CloseTable(t)
      PROVE  IInv'
    BY <1>1, <1>3, LedgerHalfway DEF ExtendTable, CloseTable
<1>4. CASE Deploying
    <2>1. Idle /\ UNCHANGED <<proposal, tx, pc, working, cast, landed>>
        BY <1>4 DEF Deploying, history
    <2>2. working' = proposal' /\ \A p \in ProposalAddresses : SameVotes(p)
        BY <2>1 DEF IInv, TypeInv, InFlight, Idle, SameVotes
    <2> QED BY <1>1, <2>1, <2>2, BetweenTransactions
<1> QED BY <1>2, <1>3, <1>4 DEF Environment

(***************************************************************************)
(* Submit: the devices have seen the transaction, nothing has run.         *)
(***************************************************************************)
LEMMA SubmitHalfway ==
    ASSUME IInv, NEW t \in Transactions, Submit(t)
    PROVE  IInv'
<1>1. TypeInv'
    BY SubmitType DEF IInv
<1>2. pc = 0 /\ working = proposal /\ cast = {}
    BY DEF Submit, Idle, IInv, TypeInv, InFlight
<1>3. tx' = t /\ pc' = 1 /\ UNCHANGED <<proposal, working, cast, landed>>
    BY DEF Submit, ledger, history
<1>4. Seen'
    BY <1>3 DEF Submit, Seen, DevicePolicy, Shown, Calling
<1>5. Verified'
    <2>1. DOMAIN t.instructions \subseteq Nat \ {0}
        <3>1. IsSequence(t.instructions)
            BY TransactionsAssumption
        <3> QED BY <3>1 DEF IsSequence
    <2> QED BY <1>3, <2>1 DEF Verified, Calling
<1>6. CastInside' /\ Counted'
    BY <1>2, <1>3 DEF CastInside, Counted
<1>7. OnlyTheShownVote' /\ NoBlindVote'
    BY <1>3 DEF IInv, OnlyTheShownVote, NoBlindVote
<1> QED BY <1>1, <1>4, <1>5, <1>6, <1>7 DEF IInv, Halfway

(***************************************************************************)
(* An instruction that runs: it cast no vote, or one vote of its own.      *)
(***************************************************************************)
LEMMA PcInside ==
    ASSUME TypeInv, Running
    PROVE  pc \in Nat \ {0} /\ pc \in DOMAIN tx.instructions
           /\ DOMAIN tx.instructions = 1..Len(tx.instructions)
           /\ Len(tx.instructions) \in Nat /\ tx \in Transactions
<1>1. IsSequence(tx.instructions)
    BY TxIsSequence
<1>2. pc \in 1..Len(tx.instructions)
    BY <1>1 DEF Running, IsSequence
<1> QED BY <1>1, <1>2 DEF Running, IsSequence, TypeInv, InFlight

LEMMA OriginGrows ==
    ASSUME TypeInv, Running, Continue, NEW v, Origin(v)
    PROVE  Origin(v)'
<1>1. pc' = pc + 1 /\ tx' = tx
    BY DEF Continue
<1>2. pc \in Nat /\ DOMAIN tx.instructions \subseteq Nat
    BY PcInside
<1> QED BY <1>1, <1>2 DEF Origin

LEMMA VerifiedGrows ==
    ASSUME IInv, Running, Continue,
           Calls(Current, IX_VERIFY_PROPOSAL) => verify_proposal(Current, tx) = Ok
    PROVE  Verified'
<1>1. pc' = pc + 1 /\ tx' = tx
    BY DEF Continue
<1>2. pc \in Nat /\ DOMAIN tx.instructions \subseteq Nat
    BY PcInside DEF IInv
<1>3. \A k \in Calling(tx, IX_VERIFY_PROPOSAL) : k < pc + 1 => k < pc \/ k = pc
    BY <1>2 DEF Calling
<1>4. pc \in Calling(tx, IX_VERIFY_PROPOSAL) => ShapeOk(Args(tx.instructions[pc]))
    <2> SUFFICES ASSUME verify_proposal(Current, tx) = Ok
                 PROVE  ShapeOk(Args(Current))
        BY DEF Calling, Current
    <2> QED BY AndOk DEF verify_proposal, ShapeOk
<1>5. \A args : ShapeOk(args)' <=> ShapeOk(args)
    BY <1>1 DEF ShapeOk
<1>6. \A k \in Calling(tx, IX_VERIFY_PROPOSAL) :
          k < pc => ShapeOk(Args(tx.instructions[k]))
    BY DEF IInv, Halfway, Verified
<1>7. Calling(tx', IX_VERIFY_PROPOSAL) = Calling(tx, IX_VERIFY_PROPOSAL)
    BY <1>1
<1> HIDE DEF ShapeOk
<1> QED BY <1>1, <1>3, <1>4, <1>5, <1>6, <1>7 DEF Verified

LEMMA SeenContinues ==
    ASSUME IInv, Running, Continue
    PROVE  Seen' /\ OnlyTheShownVote' /\ NoBlindVote'
<1>1. tx' = tx /\ UNCHANGED <<proposal, landed>>
    BY DEF Continue, ledger, history
<1>2. pc > 0
    BY PcInside DEF IInv
<1>3. \A m \in tx.signers \cap ClearSigners : DevicePolicy(m, tx)
    BY <1>2 DEF IInv, Halfway, Seen
<1>4. Seen'
    BY <1>1, <1>3 DEF Seen, DevicePolicy, Shown, Calling
<1>5. OnlyTheShownVote' /\ NoBlindVote'
    BY <1>1 DEF IInv, OnlyTheShownVote, NoBlindVote
<1> QED BY <1>4, <1>5

LEMMA QuietHalfway ==
    ASSUME IInv, TypeInv', Running, Continue, UNCHANGED <<working, cast>>,
           Calls(Current, IX_VERIFY_PROPOSAL) => verify_proposal(Current, tx) = Ok
    PROVE  IInv'
<1>1. Seen' /\ OnlyTheShownVote' /\ NoBlindVote' /\ Verified'
    BY SeenContinues, VerifiedGrows
<1>2. tx' = tx /\ UNCHANGED <<proposal, working, cast>>
    BY DEF Continue, ledger
<1>3. \A v \in cast : Origin(v)'
    BY OriginGrows DEF IInv, Halfway, CastInside
<1>4. CastInside'
    BY <1>2, <1>3 DEF IInv, Halfway, CastInside
<1>5. Counted'
    BY <1>2 DEF IInv, Halfway, Counted, InCast
<1> QED BY <1>1, <1>4, <1>5 DEF IInv, Halfway

LEMMA VoteCounted ==
    ASSUME IInv, NEW vote \in Vote, CastVote(vote), UNCHANGED proposal
    PROVE  Counted'
<1> DEFINE q == vote.proposal
           before == working[q]
           after == Voted(before, vote.member, vote.action)
<1>1. q \in ProposalAddresses /\ vote.action \in ProposalAction /\ vote.member \in Members
    BY DEF Vote
<1>2. before \in Proposal /\ working' = [working EXCEPT ![q] = after] /\ cast' = cast \cup {vote}
    BY <1>1 DEF CastVote, IInv, TypeInv, TypeOK
<1>3. working'[q] = after /\ \A p \in ProposalAddresses : p # q => working'[p] = working[p]
    <2> HIDE DEF q, after
    <2> QED BY <1>1, <1>2 DEF IInv, TypeInv, TypeOK
<1>4. /\ after.approved \subseteq before.approved \cup {m \in {vote.member} : vote.action = "Approve"}
      /\ after.rejected \subseteq before.rejected \cup {m \in {vote.member} : vote.action = "Reject"}
      /\ after.cancelled \subseteq before.cancelled
             \cup {m \in {vote.member} : vote.action \in {"Cancel", "CancelV2"}}
    BY <1>1, <1>2, VotedCounts
<1>5. \A p, m, actions : InCast(p, m, actions) => InCast(p, m, actions)'
    BY <1>2 DEF InCast
<1>6. \A actions : vote.action \in actions => InCast(q, vote.member, actions)'
    BY <1>2 DEF InCast
<1> HIDE DEF after
<1> SUFFICES ASSUME NEW p \in ProposalAddresses, NEW m \in Members
             PROVE  /\ m \in working'[p].approved =>
                          m \in proposal[p].approved \/ InCast(p, m, {"Approve"})'
                    /\ m \in working'[p].rejected =>
                          m \in proposal[p].rejected \/ InCast(p, m, {"Reject"})'
                    /\ m \in working'[p].cancelled =>
                          m \in proposal[p].cancelled \/ InCast(p, m, {"Cancel", "CancelV2"})'
    BY DEF Counted
<1>7. /\ m \in working[p].approved => m \in proposal[p].approved \/ InCast(p, m, {"Approve"})
      /\ m \in working[p].rejected => m \in proposal[p].rejected \/ InCast(p, m, {"Reject"})
      /\ m \in working[p].cancelled =>
            m \in proposal[p].cancelled \/ InCast(p, m, {"Cancel", "CancelV2"})
    BY DEF IInv, Halfway, Counted
<1> HIDE DEF InCast
<1>8. CASE p = q
    <2>1. m \in working'[p].approved =>
             m \in working[p].approved \/ (m = vote.member /\ vote.action \in {"Approve"})
        BY <1>3, <1>4, <1>8
    <2>2. m \in working'[p].rejected =>
             m \in working[p].rejected \/ (m = vote.member /\ vote.action \in {"Reject"})
        BY <1>3, <1>4, <1>8
    <2>3. m \in working'[p].cancelled =>
             m \in working[p].cancelled
             \/ (m = vote.member /\ vote.action \in {"Cancel", "CancelV2"})
        BY <1>3, <1>4, <1>8
    <2> QED BY <2>1, <2>2, <2>3, <1>5, <1>6, <1>7, <1>8
<1>9. CASE p # q
    BY <1>3, <1>5, <1>7, <1>9
<1> QED BY <1>8, <1>9

LEMMA VoteHalfway ==
    ASSUME IInv, TypeInv', Running, Continue, NEW vote \in Vote, CastVote(vote),
           vote.member \in tx.signers, Origin(vote)',
           ~ Calls(Current, IX_VERIFY_PROPOSAL)
    PROVE  IInv'
<1>1. Seen' /\ OnlyTheShownVote' /\ NoBlindVote' /\ Verified'
    BY SeenContinues, VerifiedGrows
<1>2. tx' = tx /\ UNCHANGED proposal /\ cast' = cast \cup {vote}
    BY DEF Continue, ledger, CastVote
<1>3. \A v \in cast : Origin(v)' /\ v.member \in tx.signers
    BY OriginGrows DEF IInv, Halfway, CastInside
<1>4. CastInside'
    BY <1>2, <1>3 DEF CastInside
<1>5. Counted'
    BY <1>2, VoteCounted
<1> QED BY <1>1, <1>4, <1>5 DEF IInv, Halfway

LEMMA SquadsVoteHalfway ==
    ASSUME IInv, TypeInv', SquadsVote
    PROVE  IInv'
<1> SUFFICES ASSUME NEW vote, vote = VoteOf(Current) PROVE IInv'
    OBVIOUS
<1>1. Running /\ Continue /\ CastVote(vote) /\ vote \in Vote /\ vote.member \in tx.signers
    BY SquadsVoteCasts DEF SquadsVote, IInv
<1>2. ~ Calls(Current, IX_VERIFY_PROPOSAL)
    BY ProgramsAssumption DEF SquadsVote, Calls
<1>3. Origin(vote)'
    <2>1. pc \in DOMAIN tx.instructions /\ pc < pc + 1 /\ pc' = pc + 1 /\ tx' = tx
        BY <1>1, PcInside DEF IInv, Continue
    <2> QED BY <2>1 DEF Origin, SquadsVote, Current
<1> QED BY <1>1, <1>2, <1>3, VoteHalfway

LEMMA ForeignCallHalfway ==
    ASSUME IInv, TypeInv', ForeignCall
    PROVE  IInv'
<1>1. Running /\ Continue /\ IsForeign(Current)
    BY DEF ForeignCall
<1>2. ~ Calls(Current, IX_VERIFY_PROPOSAL)
    BY <1>1 DEF IsForeign, Calls
<1>3. CASE UNCHANGED <<working, cast>>
    BY <1>1, <1>2, <1>3, QuietHalfway
<1>4. ASSUME NEW p \in ProposalAddresses, NEW a \in ProposalAction,
             NEW j \in DOMAIN Current.accounts,
             CastVote([proposal |-> p, member |-> Current.accounts[j], action |-> a])
      PROVE  IInv'
    <2> SUFFICES ASSUME NEW vote,
                        vote = [proposal |-> p, member |-> Current.accounts[j], action |-> a]
                 PROVE  IInv'
        OBVIOUS
    <2>1. vote \in Vote /\ vote.member \in tx.signers
        BY <1>4, CastVoteType DEF IInv
    <2>2. Origin(vote)'
        <3>1. pc \in DOMAIN tx.instructions /\ pc < pc + 1 /\ pc' = pc + 1 /\ tx' = tx
            BY <1>1, PcInside DEF IInv, Continue
        <3> QED BY <3>1, <1>1 DEF Origin, Current
    <2> QED BY <1>1, <1>2, <1>4, <2>1, <2>2, VoteHalfway
<1> QED BY <1>3, <1>4 DEF ForeignCall

(***************************************************************************)
(* The end of a transaction: only a commit changes what is counted. Every  *)
(* verify_proposal of it has accepted the whole transaction by then, so    *)
(* that each vote cast in it is the one each of them shows.                *)
(***************************************************************************)
LEMMA EndHalfway ==
    ASSUME IInv, TypeInv', End, OnlyTheShownVote', NoBlindVote'
    PROVE  IInv'
<1>1. tx' = NoTransaction /\ pc' = 0 /\ working' = proposal' /\ cast' = {}
    BY DEF End
<1>2. Seen' /\ CastInside' /\ Counted'
    BY <1>1 DEF Seen, CastInside, Counted
<1>3. Verified'
    BY <1>1 DEF Verified, Calling, NoTransaction
<1> QED BY <1>2, <1>3 DEF IInv, Halfway

LEMMA CommitShows ==
    ASSUME IInv, Commit, NEW v \in cast, NEW args \in Shown(tx)
    PROVE  v = ShownVote(args)
<1>1. TypeInv /\ IsSequence(tx.instructions)
    BY TxIsSequence DEF IInv
<1>2. pc = Len(tx.instructions) + 1 /\ pc > 0
    BY <1>1 DEF Commit, IsSequence
<1>3. tx \in Transactions
    BY <1>1, <1>2 DEF TypeInv, InFlight
<1>4. PICK k \in Calling(tx, IX_VERIFY_PROPOSAL) : args = Args(tx.instructions[k])
    BY DEF Shown
<1>5. k < pc
    BY <1>1, <1>2, <1>4 DEF Calling, IsSequence
<1>6. ShapeOk(args)
    BY <1>4, <1>5 DEF IInv, Halfway, Verified
<1>7. Origin(v)
    BY DEF IInv, Halfway, CastInside
<1>8. args.action \in ProposalAction
    BY <1>3, TransactionsAssumption DEF VerifyProposalArgs
<1> QED BY <1>1, <1>2, <1>6, <1>7, <1>8, ShapeBindsVote

LEMMA CommitKnown ==
    ASSUME IInv, Commit, Shown(tx) # {}, NEW j \in DOMAIN tx.instructions
    PROVE  ~ IsForeign(tx.instructions[j])
<1>1. IsSequence(tx.instructions) /\ pc = Len(tx.instructions) + 1
    BY TxIsSequence DEF IInv, Commit
<1>2. PICK k \in Calling(tx, IX_VERIFY_PROPOSAL) : TRUE
    BY DEF Shown
<1>3. k < pc
    BY <1>1, <1>2 DEF Calling, IsSequence
<1>4. ShapeOk(Args(tx.instructions[k]))
    BY <1>2, <1>3 DEF IInv, Halfway, Verified
<1> QED BY <1>1, <1>4, ShapeKnows DEF IsForeign

LEMMA CommitAnswers ==
    ASSUME IInv, Commit, NEW p \in ProposalAddresses, NEW m \in ClearSigners,
           NEW actions, InCast(p, m, actions)
    PROVE  \E r \in landed' : Answers(r, p, m, actions)
<1>1. PICK v \in cast : v.proposal = p /\ v.member = m /\ v.action \in actions
    BY DEF InCast
<1>2. m \in tx.signers
    BY <1>1 DEF IInv, Halfway, CastInside
<1>3. pc > 0
    BY TxIsSequence DEF Commit, IsSequence, IInv
<1>4. DevicePolicy(m, tx)
    BY <1>2, <1>3 DEF IInv, Halfway, Seen
<1>5. PICK args \in Shown(tx) : args \in Intent[m]
    BY <1>4 DEF DevicePolicy
<1>6. v = ShownVote(args)
    BY CommitShows
<1>7. [vote |-> v, args |-> args] \in landed'
    BY DEF Commit
<1> QED BY <1>1, <1>5, <1>6, <1>7 DEF Answers

LEMMA CommitHalfway ==
    ASSUME IInv, TypeInv', Commit
    PROVE  IInv'
<1>1. proposal' = working /\ landed \subseteq landed' /\ End
    BY DEF Commit
<1>2. OnlyTheShownVote'
    BY CommitShows DEF Commit, IInv, OnlyTheShownVote
<1>3. NoBlindVote'
    <2> SUFFICES ASSUME NEW p \in ProposalAddresses, NEW m \in ClearSigners
                 PROVE  /\ m \in proposal'[p].approved =>
                              \E r \in landed' : Answers(r, p, m, {"Approve"})
                        /\ m \in proposal'[p].rejected =>
                              \E r \in landed' : Answers(r, p, m, {"Reject"})
                        /\ m \in proposal'[p].cancelled =>
                              \E r \in landed' : Answers(r, p, m, {"Cancel", "CancelV2"})
        BY DEF NoBlindVote, Answers, ShownVote
    <2>1. m \in Members
        BY ClearSignersAssumption
    <2>2. /\ m \in working[p].approved => m \in proposal[p].approved \/ InCast(p, m, {"Approve"})
          /\ m \in working[p].rejected => m \in proposal[p].rejected \/ InCast(p, m, {"Reject"})
          /\ m \in working[p].cancelled =>
                m \in proposal[p].cancelled \/ InCast(p, m, {"Cancel", "CancelV2"})
        BY <2>1 DEF IInv, Halfway, Counted
    <2>3. /\ m \in proposal[p].approved => \E r \in landed : Answers(r, p, m, {"Approve"})
          /\ m \in proposal[p].rejected => \E r \in landed : Answers(r, p, m, {"Reject"})
          /\ m \in proposal[p].cancelled =>
                \E r \in landed : Answers(r, p, m, {"Cancel", "CancelV2"})
        BY DEF IInv, NoBlindVote
    <2> QED BY <1>1, <2>2, <2>3, CommitAnswers
<1> QED BY <1>1, <1>2, <1>3, EndHalfway

LEMMA StepHalfway ==
    ASSUME IInv, Step
    PROVE  IInv'
<1>1. TypeInv'
    BY StepType DEF IInv
<1>2. CASE VerifyProposal
    BY <1>1, <1>2, QuietHalfway DEF VerifyProposal
<1>3. CASE VerifyBufferHash
    <2>1. ~ Calls(Current, IX_VERIFY_PROPOSAL)
        BY <1>3 DEF VerifyBufferHash, Calls, IX_VERIFY_PROPOSAL, IX_VERIFY_BUFFER_HASH
    <2> QED BY <1>1, <1>3, <2>1, QuietHalfway DEF VerifyBufferHash
<1>4. CASE SquadsVote
    BY <1>1, <1>4, SquadsVoteHalfway
<1>5. CASE ComputeBudget
    <2>1. ~ Calls(Current, IX_VERIFY_PROPOSAL)
        BY <1>5, ProgramsAssumption DEF ComputeBudget, Calls
    <2> QED BY <1>1, <1>5, <2>1, QuietHalfway DEF ComputeBudget
<1>6. CASE ForeignCall
    BY <1>1, <1>6, ForeignCallHalfway
<1>7. CASE Abort
    <2>1. End /\ UNCHANGED <<proposal, landed>>
        BY <1>7 DEF Abort, history
    <2>2. OnlyTheShownVote' /\ NoBlindVote'
        BY <2>1 DEF IInv, OnlyTheShownVote, NoBlindVote
    <2> QED BY <1>1, <2>1, <2>2, EndHalfway
<1>8. CASE Commit
    BY <1>1, <1>8, CommitHalfway
<1> QED BY <1>2, <1>3, <1>4, <1>5, <1>6, <1>7, <1>8 DEF Step

LEMMA StutterHalfway == IInv /\ UNCHANGED vars => IInv'
<1> SUFFICES ASSUME IInv, UNCHANGED vars PROVE IInv'
    OBVIOUS
<1>1. UNCHANGED <<proposal, tx, pc, working, cast, landed>>
    BY DEF vars, ledger, flight, history
<1>2. TypeInv'
    BY StutterType DEF IInv
<1> QED BY <1>1, <1>2 DEF IInv, Halfway, Seen, Verified, CastInside, Counted,
           OnlyTheShownVote, NoBlindVote, Origin, InCast, ShapeOk, DevicePolicy, Shown, Calling

LEMMA NextHalfway == IInv /\ [Next]_vars => IInv'
BY EnvironmentHalfway, SubmitHalfway, StepHalfway, StutterHalfway DEF Next

(***************************************************************************)
(* The conjunction is inductive.                                           *)
(***************************************************************************)
THEOREM VoteInvariantHolds == Spec => []IInv
<1>1. Init => IInv
    BY InitHalfway
<1>2. IInv /\ [Next]_vars => IInv'
    BY NextHalfway
<1> QED BY <1>1, <1>2, PTL DEF Spec

(***************************************************************************)
(* A committed transaction that shows content has cast no vote but the one *)
(* shown, whatever the transactions, the foreign programs and the order of *)
(* instructions (validation.rs:304-350).                                   *)
(***************************************************************************)
THEOREM ShownVoteOnly == Spec => []OnlyTheShownVote
<1>1. IInv => OnlyTheShownVote
    BY DEF IInv
<1> QED BY <1>1, VoteInvariantHolds, PTL

(***************************************************************************)
(* No vote of a clear signer is counted without a committed transaction    *)
(* that showed its device this very vote, with content it means to approve *)
(* (README.md:62-63, 106-108).                                             *)
(***************************************************************************)
THEOREM NoVoteIsBlind == Spec => []NoBlindVote
<1>1. IInv => NoBlindVote
    BY DEF IInv
<1> QED BY <1>1, VoteInvariantHolds, PTL
=============================================================================
