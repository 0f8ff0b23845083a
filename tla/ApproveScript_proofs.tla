------------------------ MODULE ApproveScript_proofs ------------------------
(***************************************************************************)
(* The reports of the approval script are true: for any number of tries,   *)
(* of polls and of members, and whatever the node does.                    *)
(***************************************************************************)
EXTENDS ApproveScript, Operators_proofs, FiniteSetTheorems

LEMMA CountType ==
    ASSUME NEW S \in SUBSET Members
    PROVE  Cardinality(S) \in 0..Cardinality(Members)
<1>1. IsFiniteSet(S) /\ Cardinality(S) <= Cardinality(Members)
    BY MembersAssumption, FS_Subset
<1>2. Cardinality(S) \in Nat /\ Cardinality(Members) \in Nat
    BY <1>1, MembersAssumption, FS_CardinalityType
<1> QED BY <1>1, <1>2

LEMMA InitScript == Init => ScriptInv
<1> SUFFICES ASSUME Init PROVE ScriptInv
    OBVIOUS
<1>1. proposal \in Proposal /\ proposal.approved \subseteq Members
    <2>1. NewProposal \in Proposal /\ wallet \in Members
        BY NoProposalType, ScriptAssumption
    <2> QED BY <2>1, VotedProposal DEF Init, Proposal
<1>2. 0 \in 0..Cardinality(Members)
    BY CountType
<1>3. TypeOK
    <2>1. tries \in 0..(Tries - 1) /\ polls \in 0..Polls /\ sig \in 0..Tries
        BY ScriptAssumption DEF Init
    <2>2. approvedBefore \in 0..Cardinality(Members) /\ approved \subseteq Members
        BY <1>2 DEF Init
    <2>3. status \in [Signatures -> Landed \cup {"none", "pending", "expired"}]
        BY DEF Init
    <2> QED BY <1>1, <2>1, <2>2, <2>3 DEF Init, TypeOK, Outcomes
<1>4. VoteCounts /\ StatusRead /\ SignsOnce /\ Reasons
    BY ScriptAssumption DEF Init, VoteCounts, StatusRead, SignsOnce, Reasons
<1> QED BY <1>3, <1>4 DEF Init, ScriptInv

(***************************************************************************)
(* The cluster.                                                            *)
(***************************************************************************)
LEMMA ClusterKeeps ==
    ASSUME ScriptInv, UNCHANGED <<env, script>>, proposal' \in Proposal,
           status' \in [Signatures -> Landed \cup {"none", "pending", "expired"}],
           VoteCounts',
           \A s \in Signatures : status[s] \in Landed \cup {"none"} => status'[s] = status[s]
    PROVE  ScriptInv'
<1>1. UNCHANGED <<env, step, tries, polls, sig, err, approvedBefore, approved, outcome>>
    BY DEF script
<1>2. TypeOK'
    BY <1>1 DEF ScriptInv, TypeOK, Outcomes
<1>3. StatusRead'
    BY <1>1 DEF ScriptInv, StatusRead, Landed
<1>4. SignsOnce'
    BY <1>1 DEF ScriptInv, SignsOnce, skipPreflight, expectFail
<1>5. Reasons'
    BY <1>1 DEF ScriptInv, Reasons, expectFail
<1> QED BY <1>1, <1>2, <1>3, <1>4, <1>5 DEF ScriptInv

LEMMA LandKeeps ==
    ASSUME ScriptInv, NEW s \in Signatures, Land(s)
    PROVE  ScriptInv'
<1>1. UNCHANGED <<env, script>> /\ status[s] = "pending"
    BY DEF Land
<1>2. proposal \in Proposal /\ wallet \in Members
      /\ status \in [Signatures -> Landed \cup {"none", "pending", "expired"}]
    BY ScriptAssumption DEF ScriptInv, TypeOK
<1>3. CASE /\ ApproveVerdict = Ok /\ status' = [status EXCEPT ![s] = "ok"]
           /\ proposal' = Voted(proposal, wallet, "Approve")
    <2>1. ~HashWrong /\ ~DataWrong
        BY <1>3 DEF ApproveVerdict, Require, &&, Ok
    <2>2. proposal' \in Proposal /\ wallet \in proposal'.approved
        BY <1>2, <1>3, VotedProposal, ApprovalCounted
    <2>3. VoteCounts'
        BY <1>1, <2>1, <2>2 DEF VoteCounts, HashWrong, DataWrong
    <2> QED BY <1>1, <1>2, <1>3, <2>2, <2>3, ClusterKeeps DEF Landed
<1>4. CASE status' = [status EXCEPT ![s] = "failed"] /\ UNCHANGED proposal
    <2>1. VoteCounts'
        BY <1>1, <1>2, <1>4 DEF ScriptInv, VoteCounts, HashWrong, DataWrong
    <2> QED BY <1>1, <1>2, <1>4, <2>1, ClusterKeeps DEF Landed
<1> QED BY <1>3, <1>4 DEF Land

LEMMA ExpireKeeps ==
    ASSUME ScriptInv, NEW s \in Signatures, Expire(s)
    PROVE  ScriptInv'
<1>1. /\ UNCHANGED <<env, proposal, script>> /\ status[s] = "pending"
      /\ status' = [status EXCEPT ![s] = "expired"]
    BY DEF Expire
<1>2. proposal \in Proposal
      /\ status \in [Signatures -> Landed \cup {"none", "pending", "expired"}]
    BY DEF ScriptInv, TypeOK
<1>3. VoteCounts'
    BY <1>1, <1>2 DEF ScriptInv, VoteCounts, HashWrong, DataWrong
<1> QED BY <1>1, <1>2, <1>3, ClusterKeeps DEF Landed

LEMMA OtherVotesKeep ==
    ASSUME ScriptInv, NEW member \in Members \ {wallet}, NEW action \in ProposalAction,
           OtherVotes(member, action)
    PROVE  ScriptInv'
<1>1. UNCHANGED <<env, status, script>> /\ proposal' = Voted(proposal, member, action)
    BY DEF OtherVotes
<1>2. proposal \in Proposal
      /\ status \in [Signatures -> Landed \cup {"none", "pending", "expired"}]
    BY DEF ScriptInv, TypeOK
<1>3. proposal' \in Proposal
    BY <1>1, <1>2, VotedProposal
<1>4. wallet \in proposal.approved => wallet \in proposal'.approved
    BY <1>1, <1>2, ApprovalStays
<1>5. VoteCounts'
    BY <1>1, <1>4 DEF ScriptInv, VoteCounts, HashWrong, DataWrong
<1> QED BY <1>1, <1>2, <1>3, <1>5, ClusterKeeps

(***************************************************************************)
(* The script. A call that fails or returns keeps its counters in bounds.  *)
(***************************************************************************)
LEMMA RetryBounds ==
    ASSUME TypeOK, Running, Retry
    PROVE  tries' \in 0..(Tries - 1) /\ step' = step
           /\ outcome' \in {"running", "rpc error"}
<1>1. LastTry \in 0..(Tries - 1) /\ tries \in 0..(Tries - 1) /\ Tries \in Nat
    BY ScriptAssumption DEF TypeOK, LastTry
<1>2. CASE tries < LastTry /\ tries' = tries + 1 /\ UNCHANGED <<step, outcome>>
    BY <1>1, <1>2 DEF Running
<1>3. CASE tries >= LastTry /\ Finish("rpc error")
    BY <1>1, <1>3 DEF Finish
<1> QED BY <1>2, <1>3 DEF Retry

LEMMA ReturnBounds ==
    ASSUME TypeOK, Running, NEW next, Return(next)
    PROVE  tries' \in 0..(Tries - 1) /\ step' = next /\ outcome' = "running"
BY ScriptAssumption DEF TypeOK, Return, Running

LEMMA FinishBounds ==
    ASSUME TypeOK, NEW how, Finish(how)
    PROVE  tries' \in 0..(Tries - 1) /\ step' = step /\ outcome' = how
BY DEF TypeOK, Finish

LEMMA ReadingKeeps ==
    ASSUME ScriptInv, UNCHANGED <<env, chain, sig>>
    PROVE  /\ VoteCounts' /\ proposal' \in Proposal /\ env' \in Env
           /\ status' \in [Signatures -> Landed \cup {"none", "pending", "expired"}]
           /\ sig' \in 0..Tries
BY DEF ScriptInv, TypeOK, VoteCounts, HashWrong, DataWrong, chain

LEMMA RpcFailsKeeps ==
    ASSUME ScriptInv, RpcFails
    PROVE  ScriptInv'
<1>1. UNCHANGED <<env, chain, polls, sig, err, approvedBefore, approved>> /\ Running /\ Retry
    BY DEF RpcFails, At
<1>2. tries' \in 0..(Tries - 1) /\ step' = step /\ outcome' \in {"running", "rpc error"}
    BY <1>1, RetryBounds DEF ScriptInv
<1>3. TypeOK'
    BY <1>1, <1>2, ReadingKeeps DEF ScriptInv, TypeOK, Outcomes
<1>4. StatusRead' /\ SignsOnce'
    BY <1>1, <1>2 DEF ScriptInv, StatusRead, SignsOnce, skipPreflight, expectFail, chain
<1>5. Reasons'
    BY <1>1, <1>2 DEF ScriptInv, Reasons, expectFail, Running
<1> QED BY <1>1, <1>2, <1>3, <1>4, <1>5, ReadingKeeps DEF ScriptInv

LEMMA FetchVaultTransactionKeeps ==
    ASSUME ScriptInv, FetchVaultTransaction
    PROVE  ScriptInv'
<1>1. /\ UNCHANGED <<env, chain, polls, sig, err, approvedBefore, approved>>
      /\ Running /\ step = "VaultTransaction"
    BY DEF FetchVaultTransaction, At
<1>2. /\ tries' \in 0..(Tries - 1) /\ step' \in {step, "approved before"}
      /\ outcome' \in {"running", "cannot build"}
    BY <1>1, ReturnBounds, FinishBounds DEF FetchVaultTransaction, ScriptInv
<1>3. TypeOK'
    BY <1>1, <1>2, ReadingKeeps DEF ScriptInv, TypeOK, Outcomes
<1>4. StatusRead' /\ SignsOnce'
    BY <1>1, <1>2 DEF ScriptInv, StatusRead, SignsOnce, skipPreflight, expectFail, chain
<1>5. Reasons'
    BY <1>1, <1>2 DEF ScriptInv, Reasons, Running
<1> QED BY <1>1, <1>2, <1>3, <1>4, <1>5, ReadingKeeps DEF ScriptInv

LEMMA FetchApprovedBeforeKeeps ==
    ASSUME ScriptInv, FetchApprovedBefore
    PROVE  ScriptInv'
<1>1. /\ UNCHANGED <<env, chain, polls, sig, err, approved>>
      /\ Running /\ step = "approved before" /\ Return("send")
      /\ approvedBefore' = Cardinality(proposal.approved)
    BY DEF FetchApprovedBefore, At
<1>2. tries' \in 0..(Tries - 1) /\ step' = "send" /\ outcome' = "running"
    BY <1>1, ReturnBounds DEF ScriptInv
<1>3. approvedBefore' \in 0..Cardinality(Members)
    <2>1. proposal.approved \in SUBSET Members
        BY DEF ScriptInv, TypeOK, Proposal
    <2> QED BY <1>1, <2>1, CountType
<1>4. TypeOK'
    BY <1>1, <1>2, <1>3, ReadingKeeps DEF ScriptInv, TypeOK, Outcomes
<1>5. StatusRead' /\ SignsOnce'
    BY <1>1, <1>2 DEF ScriptInv, StatusRead, SignsOnce, skipPreflight, expectFail, chain
<1>6. Reasons'
    BY <1>1, <1>2 DEF ScriptInv, Reasons, Running
<1> QED BY <1>1, <1>2, <1>4, <1>5, <1>6, ReadingKeeps DEF ScriptInv

(***************************************************************************)
(* A send follows the signature it was made with. Without a simulation it  *)
(* is the first and the last one.                                          *)
(***************************************************************************)
LEMMA SendKeeps ==
    ASSUME ScriptInv, Send
    PROVE  ScriptInv'
<1>1. /\ UNCHANGED <<env, proposal, polls, err, approvedBefore, approved>>
      /\ Running /\ step = "send"
    BY DEF Send, At
<1>2. PICK s \in NextSignatures :
         /\ sig' = s
         /\ \/ Deliver(s) /\ (Answered \/ Unanswered)
            \/ status[s] \in Landed /\ Answered /\ UNCHANGED status
            \/ Unanswered /\ UNCHANGED status
    BY DEF Send
<1>3. s \in Signatures /\ s \in {sig, sig + 1} /\ s \in 1..Tries
    BY DEF NextSignatures, Signatures
<1>4. /\ tries' \in 0..(Tries - 1) /\ step' \in {"send", "status"}
      /\ outcome' \in {"running", "rpc error"}
      /\ skipPreflight => step' = "status"
    <2>1. Return("status") \/ (~skipPreflight /\ Retry)
        BY <1>2 DEF Answered, Unanswered
    <2> QED BY <1>1, <2>1, ReturnBounds, RetryBounds DEF ScriptInv
<1>5. /\ status' \in [Signatures -> Landed \cup {"none", "pending", "expired"}]
      /\ \A t \in Signatures : t # s => status'[t] = status[t]
      /\ \A t \in Signatures : status'[t] = "ok" => status[t] = "ok"
    <2>1. status \in [Signatures -> Landed \cup {"none", "pending", "expired"}]
        BY DEF ScriptInv, TypeOK
    <2>2. status' = status \/
             status' = [status EXCEPT ![s] = IF status[s] = "none" THEN "pending" ELSE status[s]]
        BY <1>2 DEF Deliver
    <2> QED BY <1>3, <2>1, <2>2
<1>6. TypeOK'
    <2>1. sig' \in 0..Tries /\ sig' > 0
        BY <1>2, <1>3, ScriptAssumption
    <2> QED BY <1>1, <1>4, <1>5, <2>1 DEF ScriptInv, TypeOK, Outcomes
<1>7. VoteCounts'
    BY <1>1, <1>5 DEF ScriptInv, VoteCounts, HashWrong, DataWrong
<1>8. StatusRead' /\ Reasons'
    BY <1>1, <1>4 DEF ScriptInv, StatusRead, Reasons, Running
<1>9. SignsOnce'
    <2> SUFFICES ASSUME skipPreflight
                 PROVE  step' = "status" /\ \A t \in Signatures : t # s => status'[t] = "none"
        BY <1>1, <1>2 DEF SignsOnce, skipPreflight, expectFail
    <2>1. sig = 0 /\ \A t \in Signatures : t # sig => status[t] = "none"
        BY <1>1 DEF ScriptInv, SignsOnce
    <2>2. \A t \in Signatures : t # 0
        BY DEF Signatures
    <2> QED BY <1>4, <1>5, <2>1, <2>2
<1> QED BY <1>4, <1>6, <1>7, <1>8, <1>9 DEF ScriptInv

LEMMA PollKeeps ==
    ASSUME ScriptInv, Poll
    PROVE  ScriptInv'
<1>1. /\ UNCHANGED <<env, chain, sig, approvedBefore, approved>>
      /\ Running /\ step = "status" /\ sig \in Signatures
    <2>1. Running /\ step = "status" /\ UNCHANGED env
        BY DEF Poll, At
    <2>2. sig \in Signatures
        <3>1. sig \in 0..Tries /\ sig > 0
            BY <2>1 DEF ScriptInv, TypeOK
        <3>2. Tries \in Nat
            BY ScriptAssumption
        <3> QED BY <3>1, <3>2 DEF Signatures
    <2> QED BY <2>1, <2>2 DEF Poll
<1>2. CASE /\ status[sig] \in Landed /\ err' = (status[sig] = "failed")
           /\ Return("Proposal") /\ UNCHANGED polls
    <2>1. tries' \in 0..(Tries - 1) /\ step' = "Proposal" /\ outcome' = "running"
        BY <1>1, <1>2, ReturnBounds DEF ScriptInv
    <2>2. TypeOK'
        BY <1>1, <1>2, <2>1, ReadingKeeps DEF ScriptInv, TypeOK, Outcomes
    <2>3. StatusRead' /\ SignsOnce' /\ Reasons'
        BY <1>1, <1>2, <2>1 DEF ScriptInv, StatusRead, SignsOnce, Reasons, skipPreflight,
                                expectFail, chain, Landed, Running
    <2> QED BY <1>1, <2>1, <2>2, <2>3, ReadingKeeps DEF ScriptInv
<1>3. CASE /\ polls' = NextPoll /\ UNCHANGED err
           /\ IF KeepsPolling THEN Return("status") ELSE Finish("timed out")
    <2>1. /\ tries' \in 0..(Tries - 1) /\ step' = "status"
          /\ outcome' \in {"running", "timed out"}
        BY <1>1, <1>3, ReturnBounds, FinishBounds DEF ScriptInv
    <2>2. polls' \in 0..Polls
        <3>1. polls # Polls /\ polls \in 0..Polls
            BY <1>1 DEF ScriptInv, Reasons, TypeOK, Running
        <3>2. Polls \in Nat /\ polls' = polls + 1
            BY <1>3, ScriptAssumption DEF NextPoll
        <3> QED BY <3>1, <3>2
    <2>5. polls' = Polls => outcome' = "timed out"
        <3>1. CASE KeepsPolling
            <4>1. Polls \in Nat /\ polls' < Polls
                BY <3>1, ScriptAssumption DEF KeepsPolling
            <4>2. polls' \in Nat
                BY <2>2
            <4>3. polls' # Polls
                BY <4>1, <4>2
            <4> QED BY <4>3
        <3>2. CASE ~KeepsPolling
            BY <1>3, <3>2, FinishBounds DEF ScriptInv
        <3> QED BY <3>1, <3>2
    <2>3. TypeOK'
        BY <1>1, <1>3, <2>1, <2>2, ReadingKeeps DEF ScriptInv, TypeOK, Outcomes
    <2>4. StatusRead' /\ SignsOnce' /\ Reasons'
        BY <1>1, <1>3, <2>1, <2>5 DEF ScriptInv, StatusRead, SignsOnce, Reasons,
                                      skipPreflight, expectFail, chain
    <2> QED BY <1>1, <2>1, <2>3, <2>4, ReadingKeeps DEF ScriptInv
<1> QED BY <1>2, <1>3 DEF Poll

(***************************************************************************)
(* The verdict. What the script finds in the proposal it fetches last is   *)
(* what the status has told it.                                            *)
(***************************************************************************)
LEMMA FetchProposalKeeps ==
    ASSUME ScriptInv, FetchProposal
    PROVE  ScriptInv'
<1>1. /\ UNCHANGED <<env, chain, polls, sig, err, approvedBefore>>
      /\ Running /\ step = "Proposal" /\ approved' = proposal.approved
    BY DEF FetchProposal, At
<1>2. ~err => wallet \in approved'
    BY <1>1 DEF ScriptInv, StatusRead, VoteCounts
<1>3. \/ expectFail /\ ~err /\ Finish("unexpected success")
      \/ expectFail /\ err /\ Return("failed transaction")
      \/ ~expectFail /\ err /\ Finish("approval failed")
      \/ ~expectFail /\ ~err /\ Finish("approved")
    <2>1. err \in BOOLEAN
        BY DEF ScriptInv, TypeOK
    <2>2. TamperedVerdict = (IF err THEN Ok ELSE "unexpected success")
        BY DEF TamperedVerdict, Require
    <2>3. HonestVerdict(approved') = (IF err THEN "approval failed" ELSE Ok)
        BY <1>2, <2>1 DEF HonestVerdict, Require, &&, Ok
    <2> QED BY <2>1, <2>2, <2>3 DEF FetchProposal, Ok
<1>4. /\ tries' \in 0..(Tries - 1) /\ step' \in {"Proposal", "failed transaction"}
      /\ outcome' \in {"running", "unexpected success", "approval failed", "approved"}
      /\ step' = "failed transaction" => outcome' = "running" /\ expectFail /\ err
      /\ outcome' # "running" => step' = "Proposal" /\ (err <=> outcome' = "approval failed")
      /\ outcome' = "approved" => ~expectFail
    <2>1. TypeOK /\ err \in BOOLEAN
        BY DEF ScriptInv, TypeOK
    <2>2. CASE expectFail /\ ~err /\ Finish("unexpected success")
        <3>1. tries' \in 0..(Tries - 1) /\ step' = "Proposal" /\ outcome' = "unexpected success"
            BY <1>1, <2>1, <2>2, FinishBounds
        <3> QED BY <2>2, <3>1, Zenon
    <2>3. CASE expectFail /\ err /\ Return("failed transaction")
        <3>1. tries' \in 0..(Tries - 1) /\ step' = "failed transaction" /\ outcome' = "running"
            BY <1>1, <2>1, <2>3, ReturnBounds
        <3> QED BY <2>3, <3>1, Zenon
    <2>4. CASE ~expectFail /\ err /\ Finish("approval failed")
        <3>1. tries' \in 0..(Tries - 1) /\ step' = "Proposal" /\ outcome' = "approval failed"
            BY <1>1, <2>1, <2>4, FinishBounds
        <3> QED BY <2>4, <3>1, Zenon
    <2>5. CASE ~expectFail /\ ~err /\ Finish("approved")
        <3>1. tries' \in 0..(Tries - 1) /\ step' = "Proposal" /\ outcome' = "approved"
            BY <1>1, <2>1, <2>5, FinishBounds
        <3> QED BY <2>5, <3>1, Zenon
    <2> QED BY <1>3, <2>2, <2>3, <2>4, <2>5
<1>5. TypeOK'
    <2>1. approved' \subseteq Members
        BY <1>1 DEF ScriptInv, TypeOK, Proposal
    <2> QED BY <1>1, <1>4, <2>1, ReadingKeeps DEF ScriptInv, TypeOK, Outcomes
<1>6. StatusRead' /\ SignsOnce'
    BY <1>1, <1>4 DEF ScriptInv, StatusRead, SignsOnce, skipPreflight, expectFail, chain
<1>7. Reasons'
    BY <1>1, <1>4 DEF ScriptInv, Reasons, Running, expectFail
<1> QED BY <1>1, <1>4, <1>5, <1>6, <1>7, ReadingKeeps DEF ScriptInv

LEMMA FetchFailedTransactionKeeps ==
    ASSUME ScriptInv, FetchFailedTransaction
    PROVE  ScriptInv'
<1>1. /\ UNCHANGED <<env, chain, polls, sig, err, approvedBefore, approved>>
      /\ Running /\ step = "failed transaction"
    BY DEF FetchFailedTransaction, At
<1>2. /\ tries' \in 0..(Tries - 1) /\ step' = step
      /\ outcome' \in {"vote despite failure", "refused"}
    BY FinishBounds DEF FetchFailedTransaction, ScriptInv
<1>3. TypeOK'
    BY <1>1, <1>2, ReadingKeeps DEF ScriptInv, TypeOK, Outcomes
<1>4. StatusRead' /\ SignsOnce'
    BY <1>1, <1>2 DEF ScriptInv, StatusRead, SignsOnce, skipPreflight, expectFail, chain
<1>5. Reasons'
    BY <1>1, <1>2 DEF ScriptInv, Reasons, expectFail, Running
<1> QED BY <1>1, <1>2, <1>3, <1>4, <1>5, ReadingKeeps DEF ScriptInv

LEMMA StutterScript == ScriptInv /\ UNCHANGED vars => ScriptInv'
<1> SUFFICES ASSUME ScriptInv, UNCHANGED vars PROVE ScriptInv'
    OBVIOUS
<1>1. UNCHANGED <<env, script>> /\ UNCHANGED <<proposal, status>>
    BY DEF vars, chain
<1>2. /\ VoteCounts' /\ proposal' \in Proposal
      /\ status' \in [Signatures -> Landed \cup {"none", "pending", "expired"}]
    BY <1>1, ReadingKeeps DEF chain, script
<1> QED BY <1>1, <1>2, ClusterKeeps

LEMMA NextScript == ScriptInv /\ [Next]_vars => ScriptInv'
<1> SUFFICES ASSUME ScriptInv, [Next]_vars PROVE ScriptInv'
    OBVIOUS
<1>1. CASE Script
    BY <1>1, RpcFailsKeeps, FetchVaultTransactionKeeps, FetchApprovedBeforeKeeps, SendKeeps,
       PollKeeps, FetchProposalKeeps, FetchFailedTransactionKeeps DEF Script
<1>2. CASE Cluster
    BY <1>2, LandKeeps, ExpireKeeps, OtherVotesKeep DEF Cluster
<1> QED BY <1>1, <1>2, StutterScript DEF Next

(***************************************************************************)
(* What the script believes of its transaction is what became of it.       *)
(***************************************************************************)
THEOREM ScriptInvariant == Spec => []ScriptInv
<1>1. Init => ScriptInv
    BY InitScript
<1>2. ScriptInv /\ [Next]_vars => ScriptInv'
    BY NextScript
<1> QED BY <1>1, <1>2, PTL DEF Spec

LEMMA ZeroExit ==
    ASSUME Reasons, exit = 0
    PROVE  outcome = (IF expectFail THEN "refused" ELSE "approved")
<1>1. outcome \in {"approved", "refused"}
    BY DEF exit
<1> QED BY <1>1 DEF Reasons

(***************************************************************************)
(* Exit 0 of an honest run means a counted approval                        *)
(* (approve-clearsign.cjs:19-20).                                          *)
(***************************************************************************)
THEOREM ExitTellsTheVote == Spec => []ApprovedMeansCounted
<1>1. ScriptInv => ApprovedMeansCounted
    <2> SUFFICES ASSUME ScriptInv, outcome = "approved"
                 PROVE  status[sig] = "ok" /\ wallet \in proposal.approved
        BY ZeroExit DEF ApprovedMeansCounted, ScriptInv
    <2>1. step = "Proposal" /\ ~err
        BY DEF ScriptInv, Reasons
    <2>2. sig \in Signatures /\ status[sig] = "ok"
        BY <2>1 DEF ScriptInv, StatusRead
    <2> QED BY <2>2 DEF ScriptInv, VoteCounts
<1> QED BY <1>1, ScriptInvariant, PTL

(***************************************************************************)
(* Exit 0 of a tampered run means that no vote has landed or will          *)
(* (approve-clearsign.cjs:19-20).                                          *)
(***************************************************************************)
THEOREM ExitTellsTheRefusal == Spec => []RefusedMeansNoVote
<1>1. ScriptInv => RefusedMeansNoVote
    <2> SUFFICES ASSUME ScriptInv, outcome = "refused", expectFail, NEW s \in Signatures
                 PROVE  status[s] \notin {"ok", "pending"}
        BY ZeroExit DEF RefusedMeansNoVote, ScriptInv
    <2>1. status[sig] = "failed"
        BY DEF ScriptInv, Reasons, StatusRead
    <2>2. s # sig => status[s] = "none"
        BY DEF ScriptInv, SignsOnce, skipPreflight
    <2> QED BY <2>1, <2>2
<1> QED BY <1>1, ScriptInvariant, PTL

(***************************************************************************)
(* The script never blames a program that works                            *)
(* (approve-clearsign.cjs:193, 207-209).                                   *)
(***************************************************************************)
THEOREM BlamesNoWorkingProgram == Spec => []NoFalseAlarm
<1>1. ScriptInv => NoFalseAlarm
    BY DEF ScriptInv, NoFalseAlarm, Reasons, StatusRead, VoteCounts
<1> QED BY <1>1, ScriptInvariant, PTL

(***************************************************************************)
(* The version that signs once never misreports                            *)
(* (approve-clearsign-v1.cjs:205, 218).                                    *)
(***************************************************************************)
THEOREM ReportsAreTrue == Spec => []OneSendReportsTruly
<1>1. ScriptInv => OneSendReportsTruly
    <2> SUFFICES ASSUME ScriptInv, env.v1
                 PROVE  ReportedFailureIsReal
                        /\ (outcome = "unexpected success" => wallet \in proposal.approved)
        BY DEF OneSendReportsTruly
    <2>1. ReportedFailureIsReal
        <3> SUFFICES ASSUME outcome = "approval failed", NEW s \in Signatures
                     PROVE  status[s] # "ok"
            BY DEF ReportedFailureIsReal
        <3>1. status[sig] = "failed"
            BY DEF ScriptInv, Reasons, StatusRead
        <3>2. s # sig => status[s] = "none"
            BY DEF ScriptInv, SignsOnce, skipPreflight
        <3> QED BY <3>1, <3>2
    <2>2. outcome = "unexpected success" => wallet \in proposal.approved
        BY DEF ScriptInv, Reasons, StatusRead, VoteCounts
    <2> QED BY <2>1, <2>2
<1> QED BY <1>1, ScriptInvariant, PTL

(***************************************************************************)
(* The counters stay in the bounds of their loops                          *)
(* (approve-clearsign.cjs:52-62, 84-91).                                   *)
(***************************************************************************)
THEOREM TypeCorrect == Spec => []TypeOK
<1>1. ScriptInv => TypeOK
    BY DEF ScriptInv
<1> QED BY <1>1, ScriptInvariant, PTL

(***************************************************************************)
(* No loop starts over: each call brings the script nearer to its end.     *)
(***************************************************************************)
LEMMA RetryAdvances ==
    ASSUME TypeOK, UNCHANGED polls, Retry
    PROVE  Advances
<1>1. tries \in Nat
    BY ScriptAssumption DEF TypeOK
<1>2. CASE tries < LastTry /\ tries' = tries + 1 /\ UNCHANGED <<step, outcome>>
    BY <1>1, <1>2 DEF Advances
<1>3. CASE Finish("rpc error")
    BY <1>3 DEF Finish, Advances
<1> QED BY <1>2, <1>3 DEF Retry

LEMMA ReturnAdvances ==
    ASSUME NEW next, Return(next), Place(next) > Place(step)
    PROVE  Advances
BY DEF Return, Advances

LEMMA FinishAdvances ==
    ASSUME NEW how, how # "running", Finish(how)
    PROVE  Advances
BY DEF Finish, Advances

LEMMA PollAdvances ==
    ASSUME TypeOK, Poll
    PROVE  Advances
<1>1. step = "status" /\ polls \in Nat
    <2>1. polls \in 0..Polls
        BY DEF TypeOK
    <2>2. step = "status"
        BY DEF Poll, At
    <2> QED BY <2>1, <2>2, ScriptAssumption
<1>2. CASE Return("Proposal")
    <2>1. Place("Proposal") > Place(step)
        BY <1>1 DEF Place
    <2> QED BY <1>2, <2>1, ReturnAdvances, Zenon
<1>3. CASE polls' = NextPoll /\ Return("status")
    BY <1>1, <1>3 DEF NextPoll, Return, Advances
<1>4. CASE Finish("timed out")
    BY <1>4, FinishAdvances
<1> QED BY <1>2, <1>3, <1>4 DEF Poll

LEMMA SendAdvances ==
    ASSUME TypeOK, Send
    PROVE  Advances
<1>1. step = "send" /\ UNCHANGED polls
    BY DEF Send, At
<1>2. Return("status") \/ Retry
    BY DEF Send, Answered, Unanswered
<1>3. CASE Return("status")
    <2>1. Place("status") > Place(step)
        BY <1>1 DEF Place
    <2> QED BY <1>3, <2>1, ReturnAdvances, Zenon
<1>4. CASE Retry
    BY <1>1, <1>4, RetryAdvances
<1> QED BY <1>2, <1>3, <1>4

LEMMA ReadingAdvances ==
    ASSUME FetchVaultTransaction \/ FetchApprovedBefore
           \/ FetchProposal \/ FetchFailedTransaction
    PROVE  Advances
<1>1. CASE FetchVaultTransaction
    <2>1. CASE Return("approved before")
        <3>1. step = "VaultTransaction"
            BY <1>1 DEF FetchVaultTransaction, At
        <3>2. Place("approved before") > Place(step)
            BY <3>1 DEF Place
        <3> QED BY <2>1, <3>2, ReturnAdvances, Zenon
    <2>2. CASE Finish("cannot build")
        BY <2>2, FinishAdvances
    <2> QED BY <1>1, <2>1, <2>2 DEF FetchVaultTransaction
<1>2. CASE FetchApprovedBefore
    <2>1. step = "approved before" /\ Return("send")
        BY <1>2 DEF FetchApprovedBefore, At
    <2>2. Place("send") > Place(step)
        <3>1. Place("send") = 3
            BY DEF Place
        <3>2. Place(step) = 2
            BY <2>1 DEF Place
        <3>3. 3 > 2
            OBVIOUS
        <3> QED BY <3>1, <3>2, <3>3, Zenon
    <2> QED BY <2>1, <2>2, ReturnAdvances, Zenon
<1>3. CASE FetchProposal
    <2>1. CASE Return("failed transaction")
        <3>1. step = "Proposal"
            BY <1>3 DEF FetchProposal, At
        <3>2. Place("failed transaction") > Place(step)
            BY <3>1 DEF Place
        <3> QED BY <2>1, <3>2, ReturnAdvances, Zenon
    <2>2. CASE Finish(TamperedVerdict) /\ TamperedVerdict # Ok
        BY <2>2 DEF Finish, Advances, TamperedVerdict, Require, Ok
    <2>3. CASE Finish(HonestVerdict(approved')) /\ HonestVerdict(approved') # Ok
        BY <2>3 DEF Finish, Advances, HonestVerdict, Require, &&, Ok
    <2>4. CASE Finish("approved")
        BY <2>4, FinishAdvances
    <2> QED BY <1>3, <2>1, <2>2, <2>3, <2>4 DEF FetchProposal
<1>4. CASE FetchFailedTransaction
    BY <1>4, FinishAdvances DEF FetchFailedTransaction
<1> QED BY <1>1, <1>2, <1>3, <1>4

(***************************************************************************)
(* However the node answers, and whatever others vote, no call takes the   *)
(* script back (approve-clearsign.cjs:52-62, 84-91).                       *)
(***************************************************************************)
THEOREM ScriptAdvances == Spec => EachCallAdvances
<1>1. ASSUME TypeOK, Script PROVE Advances
    <2>1. CASE RpcFails
        BY <1>1, <2>1, RetryAdvances DEF RpcFails
    <2> QED BY <1>1, <2>1, PollAdvances, SendAdvances, ReadingAdvances DEF Script
<1>2. TypeOK /\ [Next]_vars => [Script => Advances]_vars
    BY <1>1
<1> QED BY <1>2, TypeCorrect, PTL DEF Spec, EachCallAdvances
=============================================================================
