--------------------------- MODULE Upgrade_proofs ---------------------------
(***************************************************************************)
(* An upgrade deploys the build that the signers reviewed, if the vault    *)
(* was the authority of the buffer when they did and has not used it in    *)
(* between: for every hash function, every number of buffers and builds,   *)
(* every transaction that may be submitted, and buffers that are created   *)
(* again after they were deployed from or closed.                          *)
(***************************************************************************)
EXTENDS UpgradeInvariant, ClearSigning_proofs

(***************************************************************************)
(* verify_buffer_hash: the buffer it names holds the build it names.       *)
(***************************************************************************)
LEMMA VerifiedBuffer ==
    ASSUME TypeInv, Running, Calls(Current, IX_VERIFY_BUFFER_HASH),
           verify_buffer_hash(Current) = Ok
    PROVE  LET args == Args(Current)
           IN  args.buffer \in Buffers /\ HoldsReviewed(staged[args.buffer], args)
<1> DEFINE args == Args(Current)
           passed == AccountAt(Current.accounts[1])
<1>1. /\ Current.accounts[1] = args.buffer
      /\ passed.owner = BPF_LOADER_UPGRADEABLE_ID
      /\ hex_to_hash(args.expected_hash) = Ok
      /\ compute_program_hash(extract_buffer_program_bytes(passed.data))
             = HexValue(args.expected_hash)
    BY DEF verify_buffer_hash, Require, &&, Ok
<1>2. args.buffer \in Buffers /\ passed = staged[args.buffer]
    <2>1. args.buffer \notin Addresses
        BY <1>1, OwnersDiffer DEF AccountAt, TypeInv, TypeOK, WellFormed
    <2> QED BY <1>1, <2>1, OwnersDiffer DEF AccountAt, Absent
<1>3. IsSequence(args.expected_hash)
    <2>1. tx \in Transactions /\ pc \in DOMAIN tx.instructions
        BY PcInside
    <2>2. args \in HashesShown(tx)
        BY <2>1 DEF HashesShown, Calling, Current
    <2> QED BY <2>1, <2>2, TransactionsAssumption DEF VerifyBufferHashArgs
<1>4. hash_to_hex(HexValue(args.expected_hash)) = args.expected_hash
    BY <1>1, <1>3, DigestPrinted
<1> QED BY <1>1, <1>2, <1>4 DEF HoldsReviewed, extract_buffer_program_bytes

(***************************************************************************)
(* Whoever calls the loader without the vault leaves its buffers alone.    *)
(***************************************************************************)
LEMMA LoaderKeepsVault ==
    ASSUME TypeInv, LoaderCall, NEW b \in Buffers, HeldBy(staged[b], VAULT)
    PROVE  staged'[b] = staged[b]
<1>1. staged[b] # Absent /\ ~ HeldBy(staged[b], DEPLOYER)
    BY OwnersDiffer, AuthoritiesAssumption DEF HeldBy, Absent
<1>2. \A c \in Buffers : \A acc : c # b => [staged EXCEPT ![c] = acc][b] = staged[b]
    BY DEF TypeInv, TypeOK, BufferStates
<1> QED BY <1>1, <1>2 DEF LoaderCall, CreateBuffer, WriteBuffer, SetBufferAuthority, CloseBuffer

(***************************************************************************)
(* Between transactions: a buffer of the vault stays as it is, or has been *)
(* used once more.                                                         *)
(***************************************************************************)
VaultUses ==
    /\ uses' \in [Buffers -> Nat] /\ \A b \in Buffers : uses[b] <= uses'[b]
    /\ \A b \in Buffers : HeldBy(buffer[b], VAULT) /\ uses'[b] = uses[b] => buffer'[b] = buffer[b]

LEMMA BetweenUpgrades ==
    ASSUME TypeInv, UInv, Idle, VaultUses, staged' = buffer', UNCHANGED <<tx, pc, reviewed>>
    PROVE  /\ VerifiedHashes' /\ VaultKept' /\ SealedReviews'
           /\ \A d \in deployed : d.buffer \in Buffers /\ d.uses \in Nat /\ d.uses < uses'[d.buffer]
<1>1. VerifiedHashes'
    BY DEF VerifiedHashes, Calling, TypeInv, InFlight, NoTransaction, Idle
<1>2. VaultKept'
    BY DEF VaultKept
<1>3. \A b \in Buffers : uses[b] \in Nat /\ uses'[b] \in Nat /\ uses[b] <= uses'[b]
    BY DEF VaultUses, TypeInv, TypeOK
<1>4. ASSUME NEW r \in reviewed, r.sealed
      PROVE  /\ r.args.buffer \in Buffers
             /\ r.uses \in Nat /\ r.uses <= uses'[r.args.buffer]
             /\ r.uses = uses'[r.args.buffer] =>
                   /\ HeldBy(buffer'[r.args.buffer], VAULT)
                   /\ HoldsReviewed(buffer'[r.args.buffer], r.args)
    <2>1. /\ r.args.buffer \in Buffers
          /\ r.uses \in Nat /\ r.uses <= uses[r.args.buffer]
          /\ r.uses = uses[r.args.buffer] =>
                /\ HeldBy(buffer[r.args.buffer], VAULT)
                /\ HoldsReviewed(buffer[r.args.buffer], r.args)
        BY <1>4 DEF UInv, SealedReviews, Untouched
    <2>2. r.uses = uses'[r.args.buffer] => uses'[r.args.buffer] = uses[r.args.buffer]
        BY <1>3, <2>1
    <2> QED BY <1>3, <2>1, <2>2 DEF VaultUses
<1>5. SealedReviews'
    BY <1>4 DEF SealedReviews, Untouched, HeldBy, HoldsReviewed
<1>6. \A d \in deployed : d.buffer \in Buffers /\ d.uses \in Nat /\ d.uses < uses'[d.buffer]
    BY <1>3 DEF UInv, DeployedBefore
<1> QED BY <1>1, <1>2, <1>5, <1>6

LEMMA QuietUpgrade ==
    ASSUME TypeInv, UInv, Idle, VaultUses, staged' = buffer',
           UNCHANGED <<tx, pc, reviewed, deployed>>
    PROVE  UInv'
<1>1. DeployedBefore'
    BY BetweenUpgrades DEF DeployedBefore
<1>2. SealedBuildIsDeployed'
    BY DEF UInv, SealedBuildIsDeployed, DeploysReviewed
<1> QED BY <1>1, <1>2, BetweenUpgrades DEF UInv

LEMMA SameBuffers ==
    ASSUME TypeInv, UInv, Idle, UNCHANGED <<buffer, staged, uses, tx, pc, reviewed, deployed>>
    PROVE  UInv'
<1>1. VaultUses
    BY DEF VaultUses, TypeInv, TypeOK
<1>2. staged' = buffer'
    BY DEF TypeInv, InFlight, Idle
<1> QED BY <1>1, <1>2, QuietUpgrade

LEMMA DeployingUpgrade ==
    ASSUME TypeInv, UInv, Deploying
    PROVE  UInv'
<1>1. /\ Idle /\ LoaderCall /\ buffer' = staged' /\ staged = buffer
      /\ UNCHANGED <<uses, tx, pc, reviewed, deployed>>
    BY DEF Deploying, Idle, TypeInv, InFlight, history
<1>2. VaultUses
    BY <1>1, LoaderKeepsVault DEF VaultUses, TypeInv, TypeOK
<1> QED BY <1>1, <1>2, QuietUpgrade

(***************************************************************************)
(* An execution uses the buffers it is passed; an upgrade among them that  *)
(* no other instruction was passed deploys what it held before.            *)
(***************************************************************************)
LEMMA ExecuteUpgrade ==
    ASSUME TypeInv, UInv, NEW ms \in Multisigs, NEW i \in 1..MaxIndex, Execute(ms, i)
    PROVE  UInv'
<1> DEFINE p == derive_proposal_pda(ms, i)
           message == Deserialized(account[derive_transaction_pda(ms, i)].data).message
           run == Expansion(message, LookupTables(message))
           upgraded == UpgradeBuffers(run)
           handled == Used(uses, HandledBuffers(run))
<1>1. PICK left \in LeftBehind(run) :
          /\ buffer' = [b \in Buffers |-> IF b \in upgraded THEN Absent ELSE left[b]]
          /\ deployed' = deployed \cup
                 {[proposal |-> p, buffer |-> b, bytes |-> left[b].data.bytes,
                   uses |-> handled[b]] : b \in upgraded}
    BY DEF Execute
<1>2. Idle /\ uses' = Used(handled, upgraded) /\ staged' = buffer' /\ UNCHANGED <<tx, pc, reviewed>>
    BY DEF Execute, history
<1>3. upgraded \subseteq Buffers
    BY DEF UpgradeBuffers
<1>4. /\ handled \in [Buffers -> Nat]
      /\ \A b \in Buffers :
            handled[b] = IF b \in HandledBuffers(run) THEN uses[b] + 1 ELSE uses[b]
    <2> HIDE DEF run
    <2> QED BY UsedCounts DEF TypeInv, TypeOK
<1> HIDE DEF p, message, run, upgraded, handled
<1>5. /\ uses' \in [Buffers -> Nat]
      /\ \A b \in Buffers : uses'[b] = IF b \in upgraded THEN handled[b] + 1 ELSE handled[b]
    BY <1>2, <1>4, UsedCounts
<1>6. \A b \in Buffers : uses[b] \in Nat
    BY DEF TypeInv, TypeOK
<1>7. \A b \in Buffers \ HandledBuffers(run) : left[b] = buffer[b]
    BY LeftBehindType DEF TypeInv
<1>8. VaultUses
    <2>1. \A b \in Buffers : uses[b] <= uses'[b]
        BY <1>4, <1>5, <1>6
    <2>2. ASSUME NEW b \in Buffers, uses'[b] = uses[b]
          PROVE  buffer'[b] = buffer[b]
        <3>1. b \notin upgraded /\ b \notin HandledBuffers(run)
            BY <1>4, <1>5, <1>6, <2>2
        <3> QED BY <1>1, <1>7, <3>1
    <2> QED BY <1>5, <2>1, <2>2 DEF VaultUses
<1>9. /\ VerifiedHashes' /\ VaultKept' /\ SealedReviews'
      /\ \A d \in deployed : d.buffer \in Buffers /\ d.uses \in Nat /\ d.uses < uses'[d.buffer]
    BY <1>2, <1>8, BetweenUpgrades
<1>10. \A d \in deployed' :
          \/ d \in deployed
          \/ /\ d.buffer \in upgraded /\ d.bytes = left[d.buffer].data.bytes
             /\ d.uses = handled[d.buffer]
    BY <1>1
<1>11. DeployedBefore'
    <2> SUFFICES ASSUME NEW d \in deployed'
                 PROVE  d.buffer \in Buffers /\ d.uses \in Nat /\ d.uses < uses'[d.buffer]
        BY DEF DeployedBefore
    <2> QED BY <1>3, <1>4, <1>5, <1>9, <1>10
<1>12. SealedBuildIsDeployed'
    <2> SUFFICES ASSUME NEW d \in deployed', NEW r \in reviewed, r.sealed, r.uses = d.uses,
                        r.proposal = d.proposal, r.args.buffer = d.buffer
                 PROVE  hash_to_hex(compute_program_hash(d.bytes)) = r.args.expected_hash
        BY <1>2 DEF SealedBuildIsDeployed, DeploysReviewed
    <2>1. CASE d \in deployed
        BY <2>1 DEF UInv, SealedBuildIsDeployed, DeploysReviewed
    <2>2. CASE /\ d.buffer \in upgraded /\ d.bytes = left[d.buffer].data.bytes
               /\ d.uses = handled[d.buffer]
        <3>1. r.args.buffer \in Buffers /\ r.uses <= uses[r.args.buffer]
            BY DEF UInv, SealedReviews
        <3>2. r.uses = uses[r.args.buffer] /\ r.args.buffer \notin HandledBuffers(run)
            BY <1>4, <1>6, <2>2, <3>1
        <3>3. HoldsReviewed(buffer[r.args.buffer], r.args)
            BY <3>2 DEF UInv, SealedReviews, Untouched
        <3>4. left[d.buffer] = buffer[d.buffer]
            BY <1>7, <3>1, <3>2
        <3> QED BY <2>2, <3>3, <3>4 DEF HoldsReviewed
    <2> QED BY <1>10, <2>1, <2>2
<1> QED BY <1>9, <1>11, <1>12 DEF UInv

LEMMA EnvironmentUpgrade ==
    ASSUME TypeInv, UInv, Environment
    PROVE  UInv'
<1>1. ASSUME NEW ms \in Multisigs, NEW i \in 1..MaxIndex, Execute(ms, i)
      PROVE  UInv'
    BY <1>1, ExecuteUpgrade
<1>2. ASSUME NEW ms \in Multisigs, NEW i \in 1..MaxIndex,
             (\E content \in Contents : Create(ms, i, content)) \/ CreateConfig(ms, i)
      PROVE  UInv'
    BY <1>2, SameBuffers DEF Create, CreateConfig, CreateWith, history
<1>3. ASSUME NEW t \in Tables, (\E key \in TableKeys : ExtendTable(t, key)) \/ CloseTable(t)
      PROVE  UInv'
    BY <1>3, SameBuffers DEF ExtendTable, CloseTable, flight, history
<1> QED BY <1>1, <1>2, <1>3, DeployingUpgrade DEF Environment

(***************************************************************************)
(* The steps of a transaction. Until it commits, the buffers, the reviews  *)
(* and the deployments stay as they are.                                   *)
(***************************************************************************)
LEMMA SameReviews ==
    ASSUME UInv, UNCHANGED <<buffer, uses, deployed, reviewed>>
    PROVE  SealedReviews' /\ DeployedBefore' /\ SealedBuildIsDeployed'
BY DEF UInv, SealedReviews, Untouched, DeployedBefore, SealedBuildIsDeployed,
       DeploysReviewed, HoldsReviewed, HeldBy

LEMMA SubmitUpgrade ==
    ASSUME UInv, NEW t \in Transactions, Submit(t)
    PROVE  UInv'
<1>1. tx' = t /\ pc' = 1 /\ UNCHANGED <<buffer, staged, uses, deployed, reviewed>>
    BY DEF Submit, ledger, history
<1>2. DOMAIN t.instructions \subseteq Nat \ {0}
    <2>1. IsSequence(t.instructions)
        BY TransactionsAssumption
    <2> QED BY <2>1 DEF IsSequence
<1>3. VerifiedHashes'
    BY <1>1, <1>2 DEF VerifiedHashes, Calling
<1>4. VaultKept'
    BY <1>1 DEF UInv, VaultKept, HeldBy
<1> QED BY <1>1, <1>3, <1>4, SameReviews DEF UInv

LEMMA ContinueUpgrade ==
    ASSUME TypeInv, UInv, Running, Continue, VaultKept',
           staged' = staged \/ IsForeign(Current),
           Calls(Current, IX_VERIFY_BUFFER_HASH) => verify_buffer_hash(Current) = Ok
    PROVE  UInv'
<1>1. pc' = pc + 1 /\ tx' = tx /\ UNCHANGED <<buffer, uses, deployed, reviewed>>
    BY DEF Continue, ledger, history
<1>2. pc \in Nat /\ pc \in DOMAIN tx.instructions /\ DOMAIN tx.instructions \subseteq Nat
    BY PcInside
<1>3. VerifiedHashes'
    <2> SUFFICES ASSUME OnlyKnown', NEW k \in Calling(tx, IX_VERIFY_BUFFER_HASH), k < pc + 1
                 PROVE  LET args == Args(tx.instructions[k])
                        IN  args.buffer \in Buffers /\ HoldsReviewed(staged'[args.buffer], args)
        BY <1>1 DEF VerifiedHashes, HoldsReviewed
    <2>1. OnlyKnown /\ ~ IsForeign(Current)
        BY <1>1, <1>2 DEF OnlyKnown, Current
    <2>2. k < pc \/ k = pc
        BY <1>2 DEF Calling
    <2>3. CASE k < pc
        BY <2>1, <2>3 DEF UInv, VerifiedHashes
    <2>4. CASE k = pc
        BY <2>1, <2>4, VerifiedBuffer DEF Calling, Current
    <2> QED BY <2>2, <2>3, <2>4
<1> QED BY <1>1, <1>3, SameReviews DEF UInv

LEMMA QuietStep ==
    ASSUME TypeInv, UInv, Running, Continue, UNCHANGED staged,
           Calls(Current, IX_VERIFY_BUFFER_HASH) => verify_buffer_hash(Current) = Ok
    PROVE  UInv'
<1>1. VaultKept'
    BY DEF UInv, VaultKept, HeldBy, Continue, ledger
<1> QED BY <1>1, ContinueUpgrade

LEMMA ForeignCallUpgrade ==
    ASSUME TypeInv, UInv, ForeignCall
    PROVE  UInv'
<1>1. /\ Running /\ Continue /\ IsForeign(Current) /\ buffer' = buffer
      /\ ~ Calls(Current, IX_VERIFY_BUFFER_HASH)
    BY DEF ForeignCall, IsForeign, Calls, Continue, ledger
<1>2. staged' = staged \/ LoaderCall
    BY DEF ForeignCall, CastVote
<1>3. CASE staged' = staged
    BY <1>1, <1>3, QuietStep
<1>4. CASE LoaderCall
    <2>1. ASSUME NEW b \in Buffers, HeldBy(buffer[b], VAULT)
          PROVE  staged'[b] = buffer[b]
        BY <1>4, <2>1, LoaderKeepsVault DEF UInv, VaultKept
    <2>2. VaultKept'
        BY <1>1, <2>1 DEF VaultKept, HeldBy
    <2> QED BY <1>1, <2>2, ContinueUpgrade
<1> QED BY <1>2, <1>3, <1>4

LEMMA EndUpgrade ==
    ASSUME End
    PROVE  VerifiedHashes' /\ VaultKept'
BY DEF End, VerifiedHashes, VaultKept, Calling, NoTransaction

(***************************************************************************)
(* A commit reviews what its verify_buffer_hash instructions accepted: the *)
(* transaction shows content, so no foreign program has run in it.         *)
(***************************************************************************)
LEMMA CommitReviews ==
    ASSUME IInv, UInv, Commit, NEW r \in reviewed'
    PROVE  \/ r \in reviewed
           \/ /\ r.args.buffer \in Buffers /\ r.uses = uses[r.args.buffer]
              /\ r.sealed => HeldBy(staged[r.args.buffer], VAULT)
              /\ HoldsReviewed(staged[r.args.buffer], r.args)
<1>1. CASE r \in reviewed
    BY <1>1
<1>2. CASE r \notin reviewed
    <2>1. PICK v \in {w \in cast : Shown(tx) # {}}, args \in HashesShown(tx) : r = Review(v, args)
        BY <1>2 DEF Commit
    <2>2. PICK k \in Calling(tx, IX_VERIFY_BUFFER_HASH) : args = Args(tx.instructions[k])
        BY DEF HashesShown
    <2>3. k < pc
        <3>1. IsSequence(tx.instructions) /\ pc = Len(tx.instructions) + 1
            BY TxIsSequence DEF Commit, IInv
        <3> QED BY <2>2, <3>1 DEF Calling, IsSequence
    <2>4. OnlyKnown
        BY CommitKnown DEF OnlyKnown
    <2>5. args.buffer \in Buffers /\ HoldsReviewed(staged[args.buffer], args)
        BY <2>2, <2>3, <2>4 DEF UInv, VerifiedHashes
    <2>6. r.args = args /\ r.uses = uses[args.buffer]
        BY <2>1, <2>5 DEF Review
    <2>7. r.sealed => HeldBy(staged[args.buffer], VAULT)
        BY <2>1 DEF Review
    <2> QED BY <2>5, <2>6, <2>7
<1> QED BY <1>1, <1>2

LEMMA CommitUpgrade ==
    ASSUME IInv, UInv, Commit
    PROVE  UInv'
<1>1. End /\ buffer' = staged /\ UNCHANGED <<uses, deployed>>
    BY DEF Commit, End
<1>2. uses \in [Buffers -> Nat]
    BY DEF IInv, TypeInv, TypeOK
<1>3. ASSUME NEW r \in reviewed', r.sealed
      PROVE  /\ r.args.buffer \in Buffers
             /\ r.uses \in Nat /\ r.uses <= uses[r.args.buffer]
             /\ r.uses = uses[r.args.buffer] => /\ HeldBy(staged[r.args.buffer], VAULT)
                                                /\ HoldsReviewed(staged[r.args.buffer], r.args)
    <2>1. CASE r \in reviewed
        BY <1>3, <2>1 DEF UInv, SealedReviews, Untouched, VaultKept
    <2>2. CASE r \notin reviewed
        BY <1>2, <1>3, <2>2, CommitReviews
    <2> QED BY <2>1, <2>2
<1>4. SealedReviews'
    BY <1>1, <1>3 DEF SealedReviews, Untouched, HeldBy, HoldsReviewed
<1>5. DeployedBefore'
    BY <1>1 DEF UInv, DeployedBefore
<1>6. SealedBuildIsDeployed'
    <2> SUFFICES ASSUME NEW d \in deployed, NEW r \in reviewed', r.sealed, r.uses = d.uses,
                        r.args.buffer = d.buffer
                 PROVE  DeploysReviewed(d, r)
        BY <1>1 DEF SealedBuildIsDeployed, DeploysReviewed
    <2>1. CASE r \in reviewed
        BY <2>1 DEF UInv, SealedBuildIsDeployed
    <2>2. CASE r.uses = uses[r.args.buffer]
        <3>1. d.uses \in Nat /\ d.uses < uses[d.buffer] /\ uses[d.buffer] \in Nat
            BY <1>2 DEF UInv, DeployedBefore
        <3> QED BY <2>2, <3>1
    <2> QED BY <2>1, <2>2, CommitReviews
<1> QED BY <1>1, <1>4, <1>5, <1>6, EndUpgrade DEF UInv

LEMMA StepUpgrade ==
    ASSUME IInv, UInv, Step
    PROVE  UInv'
<1> USE DEF IInv
<1>1. CASE VerifyProposal
    <2>1. ~ Calls(Current, IX_VERIFY_BUFFER_HASH)
        BY <1>1 DEF VerifyProposal, Calls, IX_VERIFY_PROPOSAL, IX_VERIFY_BUFFER_HASH
    <2> QED BY <1>1, <2>1, QuietStep DEF VerifyProposal
<1>2. CASE VerifyBufferHash
    BY <1>2, QuietStep DEF VerifyBufferHash
<1>3. CASE SquadsVote
    <2>1. ~ Calls(Current, IX_VERIFY_BUFFER_HASH)
        BY <1>3, ProgramsAssumption DEF SquadsVote, Calls
    <2> QED BY <1>3, <2>1, QuietStep DEF SquadsVote, CastVote
<1>4. CASE ComputeBudget
    <2>1. ~ Calls(Current, IX_VERIFY_BUFFER_HASH)
        BY <1>4, ProgramsAssumption DEF ComputeBudget, Calls
    <2> QED BY <1>4, <2>1, QuietStep DEF ComputeBudget
<1>5. CASE ForeignCall
    BY <1>5, ForeignCallUpgrade
<1>6. CASE Abort
    <2>1. End /\ UNCHANGED <<buffer, uses, deployed, reviewed>>
        BY <1>6 DEF Abort, End, history
    <2> QED BY <2>1, EndUpgrade, SameReviews DEF UInv
<1>7. CASE Commit
    BY <1>7, CommitUpgrade
<1> QED BY <1>1, <1>2, <1>3, <1>4, <1>5, <1>6, <1>7 DEF Step

LEMMA InitUpgrade == Init => UInv
BY DEF Init, UInv, VerifiedHashes, VaultKept, SealedReviews, DeployedBefore,
       SealedBuildIsDeployed, Calling, NoTransaction

LEMMA StutterUpgrade == UInv /\ UNCHANGED vars => UInv'
<1> SUFFICES ASSUME UInv, UNCHANGED vars PROVE UInv'
    OBVIOUS
<1>1. UNCHANGED <<buffer, staged, uses, deployed, reviewed, tx, pc>>
    BY DEF vars, ledger, flight, history
<1>2. VerifiedHashes' /\ VaultKept'
    BY <1>1 DEF UInv, VerifiedHashes, VaultKept, OnlyKnown, HoldsReviewed, HeldBy
<1> QED BY <1>1, <1>2, SameReviews DEF UInv

LEMMA NextUpgrade == IInv /\ UInv /\ [Next]_vars => UInv'
BY EnvironmentUpgrade, SubmitUpgrade, StepUpgrade, StutterUpgrade DEF Next, IInv

(***************************************************************************)
(* A reviewed build stays what it was from its review until the vault uses *)
(* the buffer, which nobody else can touch (lib.rs:166-205): the           *)
(* conjunction is inductive beside IInv, which excludes calls of the       *)
(* loader from a transaction that reviews.                                 *)
(***************************************************************************)
THEOREM UpgradeInvariantHolds == Spec => []UInv
<1>1. Init => UInv
    BY InitUpgrade
<1>2. IInv /\ UInv /\ [Next]_vars => UInv'
    BY NextUpgrade
<1> QED BY <1>1, <1>2, VoteInvariantHolds, PTL DEF Spec

(***************************************************************************)
(* What an upgrade deploys has the hash that was shown with the votes for  *)
(* it, if the vault already was the authority of the buffer and has not    *)
(* used it between the vote and the upgrade (lib.rs:166-168): also when    *)
(* the buffer was deployed from, or closed, and created again before.      *)
(***************************************************************************)
THEOREM ReviewedBuildIsTheDeployedOne == Spec => []SealedBuildIsDeployed
<1>1. UInv => SealedBuildIsDeployed
    BY DEF UInv
<1> QED BY <1>1, UpgradeInvariantHolds, PTL
=============================================================================
