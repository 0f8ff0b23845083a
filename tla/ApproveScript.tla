---------------------------- MODULE ApproveScript ----------------------------
(***************************************************************************)
(* approve-clearsign.cjs: the client that votes for one member (wallet)    *)
(* through an RPC node that may fail, may deliver a transaction and lose   *)
(* the answer, and may deliver it late. Every attempt to send signs afresh *)
(* (sig counts signatures), so that several transactions with the same     *)
(* vote may be on their way at once. Other members vote meanwhile.         *)
(*                                                                         *)
(* approve-clearsign-v1.cjs does the same with a version-1 transaction,    *)
(* but makes no call twice, signs once, never simulates, and ignores what  *)
(* the node answers to the send.                                           *)
(***************************************************************************)
EXTENDS SquadsRuntime

CONSTANTS
    wallet,
    Tries,          \* tries of withRetry: 8 in the script
    Polls           \* polls for the status of a signature: 40

ASSUME ScriptAssumption ==
    /\ wallet \in Members
    /\ Tries \in Nat \ {0} /\ Polls \in Nat \ {0}

VARIABLES
    env,            \* what the run is given: environment and stored bundle
    proposal,       \* the proposal on chain
    status,         \* the transactions sent, by signature
    step,           \* what the script does next
    tries, polls,   \* its loop counters
    sig, err,       \* the signature it follows, and what became of it
    approvedBefore, approved,   \* the approvals it has read
    outcome         \* "running", or how it ended

chain == <<proposal, status>>
script == <<step, tries, polls, sig, err, approvedBefore, approved, outcome>>
vars == <<env, chain, script>>

(***************************************************************************)
(* v1: the version-1 script is run; tamper: TAMPER; buffer: BUFFER is set; *)
(* matches: SO_FILE is the build in the buffer; lookups: the bundle uses    *)
(* lookup tables; data: the data of its first instruction, if it has one.  *)
(***************************************************************************)
Env == [v1 : BOOLEAN, tamper : {"none", "hash", "data"}, buffer : BOOLEAN, matches : BOOLEAN,
        lookups : BOOLEAN, data : {"bytes", "empty", "no instruction"}]

expectFail == env.tamper # "none"

(***************************************************************************)
(* Whether the arguments the script builds differ from the chain: a byte   *)
(* of the hash is changed if there is a hash, and the first byte of the    *)
(* data is flipped if there is one (a write past the end of a Buffer is    *)
(* ignored).                                                               *)
(***************************************************************************)
HashWrong == env.buffer /\ (env.tamper = "hash" \/ ~env.matches)
DataWrong == env.tamper = "data" /\ env.data = "bytes"

Signatures == 1..Tries
Landed == {"ok", "failed"}

-----------------------------------------------------------------------------
(***************************************************************************)
(* The cluster.                                                            *)
(***************************************************************************)
ApproveVerdict ==
    Require(~HashWrong, "BufferHashMismatch")
    && Require(~DataWrong, "DataMismatch")
    && VoteVerdict(proposal, wallet, "Approve")

Land(s) ==
    /\ status[s] = "pending"
    /\ \/ /\ ApproveVerdict = Ok
          /\ status' = [status EXCEPT ![s] = "ok"]
          /\ proposal' = Voted(proposal, wallet, "Approve")
       \/ /\ ApproveVerdict # Ok
          /\ status' = [status EXCEPT ![s] = "failed"]
          /\ UNCHANGED proposal
    /\ UNCHANGED <<env, script>>

Expire(s) ==
    /\ status[s] = "pending"
    /\ status' = [status EXCEPT ![s] = "expired"]
    /\ UNCHANGED <<env, proposal, script>>

OtherVotes(member, action) ==
    /\ VoteVerdict(proposal, member, action) = Ok
    /\ proposal' = Voted(proposal, member, action)
    /\ UNCHANGED <<env, status, script>>

-----------------------------------------------------------------------------
(***************************************************************************)
(* withRetry: a call that fails is made again, Tries times in all; then    *)
(* its error ends the script. A call that returns starts the next one. The *)
(* version-1 script tries once, and catches the errors of two calls.       *)
(***************************************************************************)
Running == outcome = "running"

Finish(how) == outcome' = how /\ UNCHANGED <<step, tries>>

LastTry == IF env.v1 THEN 0 ELSE Tries - 1

Retry ==
    \/ tries < LastTry /\ tries' = tries + 1 /\ UNCHANGED <<step, outcome>>
    \/ tries >= LastTry /\ Finish("rpc error")

Return(next) == step' = next /\ tries' = 0 /\ UNCHANGED outcome

At(s) == Running /\ step = s /\ UNCHANGED env

Caught == IF env.v1 THEN {"send", "failed transaction"} ELSE {}

RpcFails ==
    /\ \E s \in {"VaultTransaction", "approved before", "send", "status",
                 "Proposal", "failed transaction"} \ Caught : At(s)
    /\ Retry
    /\ UNCHANGED <<chain, polls, sig, err, approvedBefore, approved>>

(***************************************************************************)
(* Fetching the bundle and building the expected instructions, which       *)
(* throws for a bundle with lookup tables, and when the data to corrupt is *)
(* that of an instruction that does not exist.                             *)
(***************************************************************************)
CannotBuild == env.lookups \/ (env.tamper = "data" /\ env.data = "no instruction")

FetchVaultTransaction ==
    /\ At("VaultTransaction")
    /\ \/ CannotBuild /\ Finish("cannot build")
       \/ ~CannotBuild /\ Return("approved before")
    /\ UNCHANGED <<chain, polls, sig, err, approvedBefore, approved>>

FetchApprovedBefore ==
    /\ At("approved before")
    /\ approvedBefore' = Cardinality(proposal.approved)
    /\ Return("send")
    /\ UNCHANGED <<chain, polls, sig, err, approved>>

(***************************************************************************)
(* One attempt of sendTx, with the signature of a fresh blockhash, or the  *)
(* same one if the blockhash has not changed. A send without a simulation  *)
(* is never tried again, whatever the node answers.                        *)
(***************************************************************************)
skipPreflight == expectFail \/ env.v1

NextSignatures == {s \in {sig, sig + 1} : s \in Signatures}

Deliver(s) ==
    /\ skipPreflight \/ ApproveVerdict = Ok
    /\ status' = [status EXCEPT ![s] = IF @ = "none" THEN "pending" ELSE @]

Answered == Return("status")

\* Mutant: the error of a send is taken for the outcome of the transaction.
Unanswered_Trusted == IF skipPreflight THEN Return("Proposal") ELSE Retry

Unanswered == IF skipPreflight THEN Return("status") ELSE Retry

Send ==
    /\ At("send")
    /\ \E s \in NextSignatures :
          /\ sig' = s
          /\ \/ Deliver(s) /\ Answered
             \/ Deliver(s) /\ Unanswered
             \/ status[s] \in Landed /\ Answered /\ UNCHANGED status
             \/ Unanswered /\ UNCHANGED status
    /\ UNCHANGED <<proposal, polls, err, approvedBefore, approved>>

\* Mutants: one poll too many, and a count that starts again.
KeepsPolling_OneMore == polls' <= Polls
NextPoll_Wraps == (polls + 1) % Polls

NextPoll == polls + 1
KeepsPolling == polls' < Polls

Poll ==
    /\ At("status")
    /\ \/ /\ status[sig] \in Landed
          /\ err' = (status[sig] = "failed")
          /\ Return("Proposal")
          /\ UNCHANGED polls
       \/ /\ status[sig] \notin Landed
          /\ polls' = NextPoll
          /\ IF KeepsPolling THEN Return("status") ELSE Finish("timed out")
          /\ UNCHANGED err
    /\ UNCHANGED <<chain, sig, approvedBefore, approved>>

(***************************************************************************)
(* The proposal as read after the transaction, and the verdict of the run. *)
(***************************************************************************)
\* Mutants: the status of the transaction is not looked at, or looked at last.
HonestVerdict_AnyStatus(read) == Require(wallet \in read, "vote not recorded")
HonestVerdict_VoteFirst(read) ==
    Require(wallet \in read, "vote not recorded") && Require(~err, "approval failed")
TamperedVerdict_AnyStatus == Ok

HonestVerdict(read) ==
    Require(~err, "approval failed") && Require(wallet \in read, "vote not recorded")

TamperedVerdict == Require(err, "unexpected success")

FetchProposal ==
    /\ At("Proposal")
    /\ approved' = proposal.approved
    /\ \/ expectFail /\ TamperedVerdict # Ok /\ Finish(TamperedVerdict)
       \/ expectFail /\ TamperedVerdict = Ok /\ Return("failed transaction")
       \/ ~expectFail /\ HonestVerdict(approved') # Ok /\ Finish(HonestVerdict(approved'))
       \/ ~expectFail /\ HonestVerdict(approved') = Ok /\ Finish("approved")
    /\ UNCHANGED <<chain, polls, sig, err, approvedBefore>>

FetchFailedTransaction ==
    /\ At("failed transaction")
    /\ \/ Cardinality(approved) # approvedBefore /\ Finish("vote despite failure")
       \/ Cardinality(approved) = approvedBefore /\ Finish("refused")
    /\ UNCHANGED <<chain, polls, sig, err, approvedBefore, approved>>

exit == IF outcome \in {"approved", "refused"} THEN 0 ELSE 1

-----------------------------------------------------------------------------
Outcomes ==
    {"running", "approved", "refused", "rpc error", "cannot build", "timed out",
     "unexpected success", "approval failed", "vote not recorded",
     "vote despite failure"}

(***************************************************************************)
(* The script may be run again by a member that has voted already.         *)
(***************************************************************************)
Init ==
    /\ env \in Env
    /\ proposal \in {NewProposal, Voted(NewProposal, wallet, "Approve")}
    /\ status = [s \in Signatures |-> "none"]
    /\ step = "VaultTransaction" /\ tries = 0 /\ polls = 0
    /\ sig = 0 /\ err = FALSE
    /\ approvedBefore = 0 /\ approved = {}
    /\ outcome = "running"

Script ==
    \/ RpcFails \/ FetchVaultTransaction \/ FetchApprovedBefore \/ Send
    \/ Poll \/ FetchProposal \/ FetchFailedTransaction

Cluster ==
    \/ \E s \in Signatures : Land(s) \/ Expire(s)
    \/ \E member \in Members \ {wallet}, action \in ProposalAction :
          OtherVotes(member, action)

Next == Script \/ Cluster

(***************************************************************************)
(* Fairness: a call to the node returns or fails, and the script goes on.  *)
(***************************************************************************)
Spec == Init /\ [][Next]_vars /\ WF_vars(Script)

-----------------------------------------------------------------------------
(***************************************************************************)
(* TypeOK: the counters stay within the bounds of their loops, and the     *)
(* script follows a signature of its own.                                  *)
(***************************************************************************)
TypeOK ==
    /\ env \in Env /\ proposal \in Proposal
    /\ status \in [Signatures -> Landed \cup {"none", "pending", "expired"}]
    /\ tries \in 0..(Tries - 1) /\ polls \in 0..Polls
    /\ sig \in 0..Tries /\ (step = "status" => sig > 0)
    /\ err \in BOOLEAN /\ outcome \in Outcomes
    /\ approvedBefore \in 0..Cardinality(Members) /\ approved \subseteq Members

(***************************************************************************)
(* Exit 0 of an honest run (approve-clearsign.cjs:19-20): its own approval *)
(* has landed, and the proposal counts it.                                 *)
(***************************************************************************)
ApprovedMeansCounted ==
    exit = 0 /\ ~expectFail => status[sig] = "ok" /\ wallet \in proposal.approved

(***************************************************************************)
(* Exit 0 of a tampered run (approve-clearsign.cjs:19-20): nothing it sent *)
(* has recorded a vote, nor will later.                                    *)
(***************************************************************************)
RefusedMeansNoVote ==
    exit = 0 /\ expectFail => \A s \in Signatures : status[s] \notin {"ok", "pending"}

(***************************************************************************)
(* No false alarm: the two complaints that would mean a broken program     *)
(* (approve-clearsign.cjs:193, 207-209) are never raised against one that  *)
(* works. A vote that has landed is still there when the proposal is read, *)
(* and what succeeds unexpectedly was not corrupted.                       *)
(***************************************************************************)
NoFalseAlarm ==
    /\ outcome # "vote not recorded"
    /\ outcome = "unexpected success" => ~HashWrong /\ ~DataWrong

(***************************************************************************)
(* A reported failure of an honest approval is one (lines 19-20).          *)
(***************************************************************************)
ReportedFailureIsReal ==
    outcome = "approval failed" => \A s \in Signatures : status[s] # "ok"

(***************************************************************************)
(* With one signature the reports are true (approve-clearsign-v1.cjs:205,  *)
(* 218), whatever the send answered: a failure of the honest approval is   *)
(* reported only if it has failed, a success of the tampered one only if   *)
(* it has voted.                                                           *)
(***************************************************************************)
OneSendReportsTruly ==
    env.v1 =>
        /\ ReportedFailureIsReal
        /\ outcome = "unexpected success" => wallet \in proposal.approved

(***************************************************************************)
(* What the script knows at each step, and why its reports can be trusted. *)
(* A transaction that landed was not corrupted, and its vote stays.        *)
(***************************************************************************)
VoteCounts ==
    \A s \in Signatures :
        status[s] = "ok" => wallet \in proposal.approved /\ ~HashWrong /\ ~DataWrong

StatusRead ==
    step \in {"Proposal", "failed transaction"} =>
        sig \in Signatures /\ status[sig] = (IF err THEN "failed" ELSE "ok")

SignsOnce ==
    skipPreflight =>
        /\ \A s \in Signatures : s # sig => status[s] = "none"
        /\ step \in {"VaultTransaction", "approved before", "send"} => sig = 0

Reasons ==
    /\ step = "failed transaction" => expectFail /\ err
    /\ outcome \in {"approved", "approval failed", "unexpected success"} =>
          step = "Proposal" /\ (err <=> outcome = "approval failed")
    /\ outcome = "approved" => ~expectFail
    /\ outcome = "refused" => step = "failed transaction"
    /\ polls = Polls => outcome = "timed out"

(***************************************************************************)
(* Together they are inductive, and imply that a verdict of the script is  *)
(* a fact on chain (approve-clearsign.cjs:19-20, 193, 207-209).            *)
(***************************************************************************)
ScriptInv ==
    /\ TypeOK /\ VoteCounts /\ StatusRead /\ SignsOnce /\ Reasons
    /\ outcome # "vote not recorded"

(***************************************************************************)
(* The script ends, whatever the node does.                                *)
(***************************************************************************)
Terminates == <>(outcome # "running")

(***************************************************************************)
(* Why: no call takes the script back, whatever the node answers. It goes  *)
(* to a later step, to the next poll, or to the next try of its call, of   *)
(* which there are finitely many (approve-clearsign.cjs:52-62, 84-91).     *)
(***************************************************************************)
Place(s) ==
    CASE s = "VaultTransaction" -> 1
      [] s = "approved before"  -> 2
      [] s = "send"             -> 3
      [] s = "status"           -> 4
      [] s = "Proposal"         -> 5
      [] OTHER                  -> 6

Advances ==
    \/ outcome' # "running"
    \/ Place(step') > Place(step)
    \/ step' = step /\ polls' > polls
    \/ step' = step /\ polls' = polls /\ tries' > tries

EachCallAdvances == [][Script => Advances]_vars

(***************************************************************************)
(* What its header says and the script does not do (lines 16-20): a        *)
(* tampered run corrupts a byte, so that it never votes; a reported vote   *)
(* of a tampered run is one. Nor is ReportedFailureIsReal true of the      *)
(* script that signs again.                                                *)
(***************************************************************************)
TamperedNeverVotes == expectFail => \A s \in Signatures : status[s] # "ok"

ReportedVoteIsReal ==
    outcome = "vote despite failure" => \E s \in Signatures : status[s] = "ok"
=============================================================================
