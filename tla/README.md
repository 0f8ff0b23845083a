# Squads clear signing in TLA+

A model of the clear-signing companion program for Squads v4
(`programs/squads-clear-signing`), of the two clients that vote through it
(`scripts/approve-clearsign.cjs` and `approve-clearsign-v1.cjs`) and of the end-to-end
scenario that is run against a cluster (`scripts/e2e.cjs`). It is checked with TLC, and
its safety properties are proved with TLAPS. Line numbers below are those of the
repository.

The promise under study is the one of `lib.rs:32-34`: *if the transaction succeeds, the
only thing that happened is the vote the signer actually saw.* It has three parts, which
different code keeps and different modules check:

1. a committed transaction casts only the vote it showed (`validate_transaction_shape`);
2. what it showed is what Squads would execute (the PDA binding, the lookup tables, the
   diff) and still is when Squads does execute it;
3. for an upgrade, the build whose digest was shown is the build that is deployed
   (`verify_buffer_hash`), from the time when the vault is the authority of the buffer and
   until it has used it.

## 1. Inventory

### Components

| Component | State | Operations | Correct when |
|---|---|---|---|
| The program (`lib.rs`) | none of its own; reads accounts and the instructions sysvar | `verify_proposal`, `verify_buffer_hash` | a transaction it lets commit casts only the vote shown, for the content shown |
| Account mirror (`squads.rs`) | none | PDA derivation, `deserialize_checked`, flags of stored keys | it reads a stored transaction as Squads does |
| Diff and shape (`validation.rs`) | none | `parse_lookup_table_addresses`, `AccountKeys::resolve`, `validate_instructions`, `validate_transaction_shape` | the diff accepts the expansion of the stored message and nothing else |
| Buffer hash (`validation.rs`) | none | `extract_buffer_program_bytes`, `trim_trailing_zeros`, `compute_program_hash`, `hex_to_hash`, `hash_to_hex` | the digest ignores padding only, and has one text |
| Errors (`errors.rs`) | none | - | the first check that fails decides |
| `approve-clearsign.cjs` | its loop counters, the signature it follows, two counts of approvals | fetch, build, tamper, send with retries, poll, judge | exit 0 means what its header says; it raises no false alarm |
| `approve-clearsign-v1.cjs` | as above, without retries | the same as a version-1 transaction, signed once and never simulated | as above, and every report is true |
| `e2e.cjs` | index and multisig of a scenario that may be resumed | create, fund, propose, tamper, approve, execute | nothing is approved before a refusal was seen; it passes only if each step happened; it can be resumed |
| `program-hash.cjs` | none | trim and hash a file or an account | its digest is that of the program |
| `e2e-super.sh`, `run-e2e.sh`, `v1-smoke.cjs` | none | drive a validator and the scripts | - |
| IDL, fixture test | none | - | - |

External parts, modelled from how the code uses them: the Squads program, the lookup
table program, the upgradeable loader, the runtime (transactions, the instructions
sysvar), the RPC node, and the offline device that holds a member's key.

### How they interact

A client reads a stored `VaultTransaction`, puts its expansion in the arguments of
`verify_proposal`, and sends `[verify_buffer_hash?, verify_proposal, vote]`. The device
shows the arguments; it does not see the chain. The program reads the stored
transaction, the lookup tables and the *other instructions of its own transaction*
(shared state written by whoever built the transaction), and can only abort. Later,
in another transaction, Squads expands the stored message again, from the tables as they
then are, and the loader deploys a buffer as it then is.

### What is hard

- *Order and company.* `verify_proposal` may stand before or after the vote, twice, or
  beside foreign programs that call Squads with the signatures they are handed. The
  promise rests on atomicity: a check that fails late undoes a vote cast early.
- *Time between the vote and the execution.* Tables are extended or closed, buffers
  rewritten, handed over, closed, or drained by another upgrade and created again.
- *Index arithmetic.* Five boundaries in one index space decide the flags of a key.
- *Delivery.* The client signs afresh for every retry, follows the last signature only,
  swallows errors when it skips the preflight, and compares counts that other members
  change.
- *Interruption.* The scenario of `e2e.cjs` can stop between any two steps and be run
  again on the same multisig. The transactions of the runs before are then still under
  way, and land between two reads of the resumed one.

`PROJECT.json` lists each of these at its line, with the properties that cover it.

## 2. Modules

```
Verdicts ── Squads ─┬─ Validation ─── MessageDiff ── MCMessageDiff
 (errors)           └─ SquadsRuntime ─┬─ ApproveScript ── MCApproveScript
                                      └─ E2E ── MCE2E
                        BufferHash ── DigestText ── MCDigestText

Validation + SquadsRuntime + BufferHash ── ClearSigning
  ClearSigning ── VoteInvariant ─┬─ ContentInvariant
                                 └─ UpgradeInvariant ── MCUpgrade
  ClearSigning + ClearVote (abstract) ── ClearSigningRefinement
  ClearSigningRefinement + VoteInvariant ── MCVotes
  ClearSigningRefinement + ContentInvariant ── MCContent

Operators_proofs ─┬─ ClearSigning_proofs ─┬─ Content_proofs
                  │                       └─ Upgrade_proofs
                  ├─ MessageDiff_proofs, DigestText_proofs
                  └─ ApproveScript_proofs, E2E_proofs
```

| Module | Models |
|---|---|
| `Verdicts` | `errors.rs`, and how checks compose: `Require` is `require!`, `a && b` is *a, then b if a passed*, `FirstError` is `?` in a loop |
| `Squads` | `squads.rs` |
| `Validation` | the diff and the shape check of `validation.rs`; each check in source order, so that the *first* error is the one reported |
| `BufferHash` | the buffer functions of `validation.rs`, and the clients' `trim` |
| `SquadsRuntime` | external: votes of Squads, and its expansion of a message, written from the mirror in `squads.rs` and not from `validation.rs`, so that the two can disagree |
| `ClearSigning` | `lib.rs` in its environment (below) |
| `ClearVote`, `ClearSigningRefinement` | the abstract specification, and that `ClearSigning` implements it |
| `VoteInvariant`, `ContentInvariant`, `UpgradeInvariant` | the inductive invariants of the proofs: `IInv`, `CInv` and `StoredInPlace`, `UInv` |
| `MessageDiff` | the diff as a function, against the layout that `squads.rs:89-92` documents; the list that the client builds (`buildExpected`) |
| `DigestText` | digests and their texts, built byte by byte and typed character by character |
| `ApproveScript` | both approval clients against an unreliable node |
| `E2E` | `e2e.cjs`, interrupted and resumed, against a node that may be healthy or not |
| `*_proofs` | theorems; `Operators_proofs` holds what the operators of the model return, for the others to cite |

### State and actions of `ClearSigning`

| In the model | In the code |
|---|---|
| `account`, `buffer` | the accounts the handlers read: owner and decoded data; stored transactions and lookup tables in the one, loader buffers in the other |
| `proposal`, `executed`, `deployed` | Squads proposals, what ran, what was deployed |
| `tx`, `pc`, `working`, `staged`, `cast` | the transaction in flight: instruction to run, proposals and buffers as it sees them, votes it has cast |
| `landed`, `reviewed`, `uses` | history: votes of committed transactions with the arguments shown beside them; how often the vault has used each buffer |
| `VerifyProposal`, `VerifyBufferHash` | the two handlers, all checks in source order; `Abort` when one fails |
| `SquadsVote`, `ForeignCall`, `ComputeBudget` | what other instructions of the transaction do; a foreign one may vote through Squads, or use a buffer of the deployer |
| `Create`, `CreateConfig`, `ExtendTable`, `CloseTable`, `Deploying`, `Execute` | what others do between transactions |
| `LoaderCall`: `CreateBuffer`, `WriteBuffer`, `SetBufferAuthority`, `CloseBuffer` | what the deployer does to a buffer, in `Deploying` or in a `ForeignCall` |
| `Submit`, `Commit`, `Abort` | the runtime |

Transactions run one at a time, instruction by instruction: the runtime serialises
transactions that write the same accounts. Environment steps happen when none is in
flight. A program-derived address is the tuple of its seeds. Bytes that start with a
discriminator are the discriminator and a payload. The digest is a constant operator
`Sha256`, of which `ClearSigning` assumes no more than that it is a function.

A buffer is an account with a keypair. Its deployer creates it, also at an address where
one was closed or deployed from before, writes it, and hands it to the vault (in any
order, also in the middle of a transaction that votes). What belongs to the vault only a
proposal can touch: an upgrade deploys it and drains it, and any other instruction that
is passed the buffer may leave it in any state (`LeftBehind`): written, closed, given
away. Each of these is a *use*.

A clear signer's key signs a transaction when the device finds in it *some*
`verify_proposal` whose arguments its owner intends to approve (`Intent`). This is weaker
than the policy `README.md:106-108` asks for (only `[compute budget*, verify_proposal,
proposal_approve]`): the theorems do not need the device to reject foreign instructions.

`ClearVote` is what the program promises, without transactions or accounts: a vote is
cast together with what it shows, in one step, and what is executed is what every vote
on it showed. `ClearSigningRefinement` maps `seen` to the committed votes with their
arguments, and `ran` to what Squads executed.

### State and actions of `ApproveScript`

`step` is the call the script is at, `tries` the counter of `withRetry`, `polls` the loop
of `sendTx`, `status` the fate of each signature it has made. Every call may fail
(`RpcFails`), a send may be delivered with its answer lost (`Deliver /\ Unanswered`), a
pending transaction may land late or expire, and other members vote meanwhile. The first
approval of the run may have been recorded before it started.

Which of the two scripts runs is chosen initially (`env.v1`). They make the same calls in
the same order; the version-1 script makes each of them once (`LastTry`), never simulates
(`skipPreflight`, because it tolerates whatever the send answers) and catches the errors
of two calls (`Caught`). It therefore makes one signature.

### State and actions of `E2E`

| In the model | In the code |
|---|---|
| `run` | the first run, and those started with `RESUME_MULTISIG` |
| `step`, `call` | where the script is: what it sends, polls or reads back |
| `status` | the transaction of each run and step: each is signed once per run |
| `proposal` | the proposal as the chain has it |
| `healthy` | whether the node answers this run, and has settled what it took before the next call |
| `Send`, `Poll` | `sendTx`, and the loop for the execution, which is not `sendTx`: it does not tolerate *already processed* (286), and when its polls run out it goes on (287) |
| `ReadVaultTransaction`, `ReadProposal`, `ReadRefused`, `ReadApproved`, `ReadBalance` | the reads that decide where the script goes (233, 250, 258, 270) |
| `Interrupt`, `Resume` | the process is stopped at any point; it is run again |
| `Land`, `Expire` | what becomes of a transaction, of whichever run |

A healthy run is one during which nothing fails; runs that are not healthy may have any
call fail, any answer lost, and any transaction expire or land during a later run.

## 3. Runs

| Run | Question | Result |
|---|---|---|
| `votes` | Does any arrangement of instructions cast an unseen vote? `OnlyTheShownVote`, `NoBlindVote`, `ImplementsClearVote` | holds |
| `content` | Does what was seen stay what would run, while tables change, and is a true vote never refused? `TypeOK`, `SeenStaysTrue`, `TruthfulVotesAreAccepted`, `CInv`, `ImplementsClearVote` | holds |
| `upgrade` | Is the reviewed build deployed, if the buffer was the vault's and has not been used since? `SealedBuildIsDeployed`, `IInv`, `UInv` | holds |
| `upgrade_unsealed` | And without that condition? `ReviewedBuildIsDeployed` | **violated** |
| `message_diff` | Is the diff exact, and does the client's list pass it? `AcceptsExactlyTheExpansion`, `TamperedDataIsReported`, `ClientPassesTheDiff` | holds |
| `digest_text` | `DigestIgnoresPaddingOnly`, `ClientTrimsAlike`, `OneTextPerDigest` | holds |
| `approve_script` | What does the exit code of the clients mean, and do they end? `TypeOK`, `ScriptInv`, `ApprovedMeansCounted`, `RefusedMeansNoVote`, `NoFalseAlarm`, `OneSendReportsTruly`, `EachCallAdvances`, `Terminates` | holds |
| `approve_tamper` | Does a tampered run never vote? `TamperedNeverVotes` | **violated** |
| `approve_retry` | Is a reported failure one? `ReportedFailureIsReal` | **violated** |
| `approve_count` | Is a reported vote one? `ReportedVoteIsReal` | **violated** |
| `e2e` | What does a pass mean after interruptions, and can the scenario always be finished? `TypeOK`, `ScenarioInv`, `RefusedBeforeApproved`, `PassedMeansApproved`, `HealthyRunPasses`, `HealthyInv`, `EachCallAdvances`, `Terminates` | holds |
| `e2e_passed` | Does a pass mean that the transfer was executed? `PassedMeansExecuted` | **violated** |

`IInv`, `CInv`, `UInv`, `ScriptInv`, `ScenarioInv` and `HealthyInv` are the inductive invariants of
section 4. Their runs show them true of an instance; the proofs show them inductive.

### What the violations show

- `upgrade_unsealed`. `verify_buffer_hash` checks the owner, the tag and the bytes of a
  buffer at the time of the vote (`lib.rs:175-197`), not its authority. A deployer who
  still is the authority rewrites it afterwards and then hands it to the vault. The
  comment at `lib.rs:166-168` promises *the exact build being deployed*. The claim holds
  for a buffer whose authority already was the vault when it was reviewed, which is how
  `e2e-super.sh:218-219` sets it up, and which the vault has not used in between
  (`upgrade`). The second half matters with two proposals on one buffer: the first
  upgrade drains the buffer, whoever has its keypair creates it again with another
  build and hands it to the vault, and the second upgrade deploys that one. So it does
  with one proposal that shows a write of the buffer before the upgrade from it. Both are
  within the bounds of `upgrade`, and only `r.uses = d.uses` exempts them.
- `approve_tamper`. `TAMPER=hash` without `BUFFER`, or `TAMPER=data` with an instruction
  without data, corrupts nothing; the real vote lands.
- `approve_retry`. A lost answer, then a retry with a fresh signature, of which the first
  lands: the script follows the second and reports a failure.
- `approve_count`. Another member's approval between two counts is reported as a vote of
  the tampered transaction.
- `e2e_passed`. The loop that polls for the execution is left after its last poll as it is
  left by `break` (`e2e.cjs:287`); nothing looks at the outcome, and the run ends with
  *E2E PASSED* and *transfer executed* (`302`).

Two more things that the model of `e2e.cjs` makes visible. A resumed run takes for granted
that the vault transaction exists (`135`): a run interrupted before that cannot be
finished, although *every step is idempotent-or-skippable on resume* (`README.md:234-235`)
may be read to say so, and `HealthyRunPasses` leaves that case out. And an approval of the interrupted run that
lands late can make the resumed one end with *vote was recorded despite failure!*
(`250`), though the failed transaction did not record it.

### Bounds

- `votes`: one multisig, two proposals of one content, two clear signers and one other
  member, threshold 2, transactions of up to 3 instructions out of nine (three
  `verify_proposal`, three matching votes, one vote of another member, a foreign call, a
  compute budget). Three instructions are enough for a check, a vote and one intruder in
  every order, and for two checks with one vote; two proposals are needed for a vote on
  the wrong one; two signers for a transaction that carries both signatures. With one
  content and no tables this run says nothing of what changes after a vote: `content`
  does.
- `content`: two proposals, two tables of up to two addresses, contents that load writable
  and readonly keys of both tables; arguments true and altered; tables in order, swapped,
  missing, one too many. Two tables are the least for which the order of loading matters.
- `upgrade`: a clear signer and another member, two proposals on one buffer (an upgrade,
  another instruction of the loader, or the one after the other), a second buffer to
  confuse it with; two builds, one of them with padding; their digests, and texts that
  are not digests; foreign programs that vote before or after `verify_proposal`, or let
  the deployer create, write, close and hand over buffers between its two checks. Two
  proposals are the least for a review to outlive a use of its buffer.
- `message_diff`: every header over three static keys, lookups through up to two tables
  in and out of bounds, every single-account instruction; 211,200 pairs of a message and
  an expected list.
- `digest_text`: all pairs of byte strings up to 4 over {0, 1, 2}, texts up to 3 characters (a digest
  of one byte has two) from the edges of the accepted ranges.
- `approve_script`: three members, threshold 2, 3 tries (8 in the code) and 2 polls (40).
  Three sends give two signatures that race and a third that follows; the loops have no
  other effect.
- `e2e`: 3 tries, 3 polls, and up to two resumed runs, so that transactions of two
  earlier runs can land in a third. The wallet is the only member (`e2e.cjs` creates
  the multisig that way).

### Fairness

`ClearSigning` has none: it promises safety only, and anybody may stop.
`ApproveScript` and `E2E` assume weak fairness of the script as a whole: each call to the
node returns or fails (the library times out), and the event loop then runs the next line.
`E2E` assumes beside it that a *healthy* node settles the transactions it took
(`Settles`), which is what healthy means; of any other node, and of the cluster, nothing
is assumed. `Terminates` needs no more, because every loop of the scripts counts
(`EachCallAdvances`), and it holds of runs on any node. `HealthyRunPasses` is a safety property, which together with
`Terminates` says that a healthy run that is not interrupted passes.

`CHECK_DEADLOCK FALSE` is set where the system stops by itself: the two function checks
(one verdict and done, one bounded string) and the scripts (they exit). The ledger never
stops being able to take a transaction, and is checked for deadlock.

## 4. Proofs

All by TLAPS, for every value of the constants that satisfies the named assumptions:

- `ProgramsAssumption`: program ids, and the programs that own accounts, differ;
- `TablesAssumption`: tables have a maximal length and start within it;
- `AuthoritiesAssumption`: the vault is not the deployer (its address has no key);
- `ClearSignersAssumption`, `MembersAssumption`: clear signers are members; the members
  are finitely many, the threshold is one of their numbers;
- `AddressesAssumption`: an address that Squads derives is no table and no buffer (only
  Squads can create an account there), and no table is a buffer (a table's address is
  derived by its program, a buffer's has a key);
- `ContentsAssumption`, `TransactionsAssumption`: stored messages and arguments are of the
  types their declarations give them, and a stored message refers to keys that it has,
  which Squads checks when it stores one;
- `MessagesAssumption`, `TableListsAssumption`, `ExpectedListsAssumption` (`MessageDiff`):
  the same of what is judged there, and the groups of keys in a header do not overlap. Of
  indexes in bounds nothing is assumed there: the diff has to refuse the others;
- `DigestLenAssumption`: a digest has bytes;
- `MaxBytesAssumption` (`DigestText` only): the byte strings are bounded, by any bound.
  Of SHA-256 nothing is assumed: `DigestIgnoresPaddingOnly` names its collisions as the
  one other way for two strings to have one digest;
- `ScriptAssumption`, `ScenarioAssumption`: the scripts try and poll at least once.

There is no bound on the length of transactions, messages and tables, on the number of
members, proposals, tables or buffers, on tries, polls or runs.

| Theorem | Says |
|---|---|
| `ClearSigning_proofs`: `TypeCorrect` | `Spec => []TypeOK` |
| `ClearSigning_proofs`: `ShapeBindsVote` | a shape that `verify_proposal` accepts leaves no vote in the transaction but the one shown |
| `ClearSigning_proofs`: `VoteInvariantHolds` | `Spec => []IInv` |
| `ClearSigning_proofs`: `ShownVoteOnly`, `NoVoteIsBlind` | `Spec => []OnlyTheShownVote`, `Spec => []NoBlindVote` |
| `Operators_proofs`: `DiffExact` | the diff accepts a list exactly when it is what Squads makes of the message, whose indexes all name keys |
| `Operators_proofs`: `DigestPrinted` | a text read as a digest is the one that the digest prints as |
| `Content_proofs`: `ContentInvariantHolds`, `ShownContentStaysTrue` | `Spec => []CInv`, `Spec => []SeenStaysTrue` |
| `Content_proofs`: `TransactionsStayInPlace`, `TruthIsAccepted` | `Spec => []StoredInPlace /\ [][StoredForGood]_vars`; from it, `[]TruthfulVotesAreAccepted` |
| `Content_proofs`: `ClearSigningImplementsClearVote` | `Spec => ImplementsClearVote` |
| `Upgrade_proofs`: `UpgradeInvariantHolds`, `ReviewedBuildIsTheDeployedOne` | `Spec => []UInv`, `Spec => []SealedBuildIsDeployed` |
| `MessageDiff_proofs`: `DiffIsExact`, `TamperingIsReported`, `ClientIsAccepted` | `Spec => []AcceptsExactlyTheExpansion`, `[]TamperedDataIsReported`, `[]ClientPassesTheDiff` |
| `DigestText_proofs`: `OnlyPaddingIsIgnored`, `ProgramAndClientTrimAlike`, `OneTextForEachDigest` | `Spec => []DigestIgnoresPaddingOnly`, `[]ClientTrimsAlike`, `[]OneTextPerDigest` |
| `ApproveScript_proofs`: `TypeCorrect`, `ScriptAdvances` | `Spec => []TypeOK`, `Spec => EachCallAdvances` |
| `ApproveScript_proofs`: `ScriptInvariant` | `Spec => []ScriptInv` |
| `ApproveScript_proofs`: `ExitTellsTheVote`, `ExitTellsTheRefusal` | from it, `[]ApprovedMeansCounted` and `[]RefusedMeansNoVote` |
| `ApproveScript_proofs`: `BlamesNoWorkingProgram`, `ReportsAreTrue` | from it, `[]NoFalseAlarm` and `[]OneSendReportsTruly` |
| `E2E_proofs`: `TypeCorrect`, `ScenarioAdvances` | `Spec => []TypeOK`, `Spec => EachCallAdvances` |
| `E2E_proofs`: `ScenarioInvariant` | `Spec => []ScenarioInv` |
| `E2E_proofs`: `RefusalComesFirst`, `PassShowsApproval` | from it, `[]RefusedBeforeApproved` and `[]PassedMeansApproved` |
| `E2E_proofs`: `HealthyInvariant`, `HealthyRunsPass` | `Spec => []HealthyInv`, `Spec => []HealthyRunPasses` |

### The arguments

*Votes* (`IInv`). `OnlyTheShownVote` speaks of committed transactions; nothing in it says
why a commit preserves it. `IInv` adds what is true halfway: `Verified` (each
`verify_proposal` already run accepted the shape of the *whole* transaction, later
instructions included), `CastInside` (each vote in flight comes from an instruction
already run, a Squads vote or a foreign program, with its member's signature), `Counted`
(whoever the transaction's proposals count was counted before it or has a vote in flight)
and `Seen` (the devices have seen the transaction). At a commit every `verify_proposal`
has run; by `ShapeBindsVote` no foreign instruction can be there and each Squads vote is
the one the arguments name; so every vote in flight is the vote shown. A list of checks
needs no induction: `FirstError` chooses the least failing position, and `FirstErrorOk`
needs only that the natural numbers have least elements.

*Content* (`CInv`). What was shown must survive every step of the environment. A vault
transaction is stored once (`StoredOnce`), so the stored message never changes. Arguments
that passed the checks are `Truthful`: they name what is stored, and as long as the tables
of the message live, its keys resolve and expand to what was shown (`VerifiedContent` in
flight, `LandedContent` afterwards). A table only grows at its end or closes: resolved
indexes stay in bounds and name the same keys (`TruthfulStays`); with a table closed,
nothing is executed. `StillOpen` keeps the executed proposals out of reach of a
transaction in flight, which is what the refinement needs at a commit.

*Nothing true is refused* (`StoredInPlace`). An address derived for a transaction holds
that transaction, with the multisig and the index it is derived from, or nothing; and what
is stored never changes again (`StoredForGood`), because a proposal is made once and
tables are elsewhere. So the account and PDA checks of `verify_proposal` pass for whoever
names what is stored, the diff passes by `DiffExact` because the keys of a resolvable
message can be named, and the shape of `[verify_proposal, vote]` passes check by check.

*The diff* (`DiffExact`). The account space of `AccountKeys::resolve` is compared with that
of Squads, both ways. Instruction by instruction, a check passes exactly when each of its
indexes is in bounds and names the key shown with its flags; otherwise an error is
returned, and which one tells altered data from an altered key (`InstructionChecked`,
`TamperingIsReported`). For `DiffIsExact` the reference is a third form of the same space,
the six groups that `squads.rs:89-92` documents laid end to end (`LayoutIs`).

The prover cannot instantiate the library's induction rules (they take an operator as a
parameter). Where lists are concatenated or walked, a proof takes the least
counterexample of a *set* of numbers instead (`NatInduct`): `FlattenSeq` is unfolded one
list at a time (`FlattenDef`, `FlattenUnfold`), which gives the length and the type of the
keys loaded through any number of tables (`FlattenLen`).

*Digests.* A string has one place where its last run of zeros starts (`EndsAt`,
`EndUnique`). The program takes the greatest non-zero position (`TrimEnds`), the client
steps down until it stops (`StopsExists`, `StopsEnds`); both end there. Two strings, each
of any length, that trim to the same one differ in padding only, by laying out the longer
one (`TrimmedPads`); two that trim to different ones have one digest only by a collision.

*Refinement.* `Content` of `ClearVote` is every expansion of a stored message under tables
of bounded length. A commit maps to the vote with what it showed (or a stutter, if it
showed nothing or cast nothing); `Execute` to the execution of what was shown, by `CInv`;
every other step to a stutter.

*Upgrade* (`UInv`, inductive beside `IInv`). A reviewed build is verified in the
transaction in flight (`VerifiedHashes`), unchanged in the buffer of the vault
(`SealedReviews`), or deployed. Buffers come back after they are closed or drained, so no
state of a buffer is for ever; what is for ever is the count of its uses. As long as it
stands where it stood at the review (`Untouched`), the buffer is the vault's and holds
the reviewed build: the deployer cannot touch it, between transactions or inside one
(`VaultKept`), and a step by which the vault loses it is a use. Every deployment is a use
and counts as one (`DeployedBefore`), so a later review cannot be of a build that was
deployed before it. `VerifiedHashes` holds only while no foreign instruction has run
(`OnlyKnown`): the deployer may rewrite the buffer between `verify_buffer_hash` and
`verify_proposal`. The commit of a transaction that shows content has no foreign
instruction anywhere (`ShapeKnows`, from `IInv`), so what its hash check accepted holds
at the commit.

*Clients* (`ScriptInv`). A transaction of the script that landed was not corrupted, and its
vote stays (`VoteCounts`); after the polls the script knows the fate of the signature it
follows (`StatusRead`); without a simulation it has made one signature (`SignsOnce`);
`Reasons` ties each outcome to what it was concluded from.

*Scenario* (`ScenarioInv`). Only the first run sets the scenario up (`FirstRunOnly`);
whoever takes a step, and whenever its transaction lands, the steps are in order
(`InOrder`); there is one proposal, which only goes forward (`OneProposal`). A vote on it
can then only come from an honest approval that was sent after a refusal was read.

*Healthy runs* (`HealthyInv`, inductive beside `ScenarioInv`). A run signs each step once
(`SignedOnce`), and what it waits for is there when it reads it back (`ReadBack`). While
the node is healthy nothing is under way but the transaction of the run's own step
(`Undisturbed`): a healthy run starts when all is settled. So the proposal stays as it was
read until that transaction lands, the transaction does what the script expects, and
no branch that ends in an error can be taken.

*Progress* (`EachCallAdvances`). What makes the scripts end is a measure: every step of a
script ends it, or goes to a later call, or counts a poll, or counts a try, and whoever
goes on has polls and tries left (`TypeOK`). Each step of the scripts has its branch of
the disjunction; there is none that loops back.

### Only model-checked

- `Terminates` of both scripts: liveness under fairness. That each step advances is proved
  (`ScriptAdvances`, `ScenarioAdvances`), and so are the bounds of what it counts; that
  steps keep being taken is what TLC checks.

## 5. Not modelled

- Instructions of Squads that are not votes fail in the model. `verify_proposal` refuses
  transactions that hold them at top level; what a foreign program does through them is
  not a vote.
- Time locks, permissions of members (all have all), stale transaction indexes,
  and the reclaiming of accounts, which Squads keeps.
- Compute units, transaction size, rent, fees, borsh decoding byte by byte (it decodes or
  it does not), log messages.
- A lookup table in deactivation is still a table; closing it ends it. A closed table
  is not created again at its address (it is derived from a slot).
- The node's answers in `ApproveScript` are late or lost, never wrong: no forks, no
  reads of an older state. The member does not vote through another client meanwhile.
- In `E2E`, no two runs at once, and no other client of the wallet; calls whose result
  decides nothing (blockhashes, logs) are merged with the next one.
- Tables are extended and closed, and vault transactions created and executed, between
  transactions that vote, never inside one. Beside `verify_proposal` its shape check
  excludes all of these, so that no vote with content can have them in its transaction;
  without it, they differ from the same step taken before or after the transaction only
  in what a failure undoes.
- A foreign instruction makes one call that matters, a vote or a step of the loader, and
  may be repeated for more; a call of the program itself from a foreign one changes
  nothing and is left out.
- Buffers have two authorities, the vault and the deployer, who holds their keypairs.
  After a use by another instruction than an upgrade a buffer is in any state of these.
  Extending a buffer and deploying one of the deployer's own are left out.
- Batches of Squads, which the program refuses as it refuses a config transaction
  (`CreateConfig`), and what either executes. What a batch would do to the buffers of the
  vault, a vault transaction does in the model.
- `e2e-super.sh`, `run-e2e.sh` and `v1-smoke.cjs`: they run the scripts one after the other,
  or send a single transfer, and decide nothing of their own. The IDL is generated from
  `lib.rs`; the fixture test decodes one recorded account, below the abstraction of
  `Squads`.

## 6. Plan

Done, in this order: the core (`ClearSigning` and below) with the proofs about votes; the
diff, the digest and the first client; the scenario with its interruptions; the version-1
client; the invariants and theorems of content, refinement, upgrade and scripts; the
diff in both directions, the digests, the types and the progress of the scripts.

What is left, in order of worth:

1. The device policy of `README.md:106-108` in full, which refuses foreign instructions,
   beside the weaker one that the theorems need.
2. Time locks and stale transaction indexes of Squads, between the vote and the execution.
3. Which error a refused list reports beside `DataMismatch`, as a theorem about
   `validate_instructions`; that the two handlers report errors in the order of their checks.

## 7. Running

In this directory, `tlc -config MCVotes.cfg MCVotes.tla` and so on for each pair listed in
`PROJECT.json`: `upgrade` takes the longest, about two minutes and 690,000 states. `tlapm X.tla` for the proofs, with X each of `Operators_proofs`, `ClearSigning_proofs`,
`Content_proofs`, `Upgrade_proofs`, `MessageDiff_proofs`, `DigestText_proofs`,
`ApproveScript_proofs` and `E2E_proofs`.
