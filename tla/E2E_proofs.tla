----------------------------- MODULE E2E_proofs -----------------------------
(***************************************************************************)
(* The end-to-end scenario keeps its promises, for any number of runs, of  *)
(* tries and of polls, however often it is interrupted.                    *)
(***************************************************************************)
EXTENDS E2E, Operators_proofs, FiniteSetTheorems

Statuses == Landed \cup {"none", "pending", "expired"}

LEMMA Bounds == Tries \in Nat /\ Tries > 0 /\ Polls \in Nat /\ Polls > 0 /\ 1 \in 1..Runs
BY ScenarioAssumption

LEMMA Zeros == 0 \in 0..(Tries - 1) /\ 0 \in 0..(Polls - 1)
<1>1. 0 <= Tries - 1 /\ 0 <= Polls - 1
    BY Bounds
<1> QED BY <1>1, Bounds

(***************************************************************************)
(* The wallet's own approval is enough.                                    *)
(***************************************************************************)
LEMMA OneIsEnough == Cardinality({wallet}) >= Threshold
<1>1. Cardinality({wallet}) = 1
    BY FS_Singleton
<1>2. Threshold = 1
    BY ScenarioAssumption
<1> QED BY <1>1, <1>2

LEMMA InitScenario == Init => ScenarioInv
<1> SUFFICES ASSUME Init PROVE ScenarioInv
    OBVIOUS
<1>1. proposal \in Proposal /\ proposal = NoProposal
    BY NoProposalType DEF Init
<1>2. tries \in 0..(Tries - 1) /\ polls \in 0..(Polls - 1) /\ run \in 1..Runs /\ run = 1
    BY Bounds DEF Init
<1>3. \A t \in Transactions : status[t] = "none"
    BY DEF Init
<1>4. \A r \in 1..Runs, s \in Sends : status[r, s] = "none"
    BY <1>3 DEF Transactions
<1>5. status \in [Transactions -> Landed \cup {"none", "pending", "expired"}]
    BY DEF Init
<1>6. TypeOK
    BY <1>1, <1>2, <1>5 DEF Init, TypeOK
<1>7. FirstRunOnly /\ InOrder /\ UnderWay /\ PassedMeansApproved
    BY <1>2, <1>4 DEF Init, FirstRunOnly, InOrder, UnderWay, PassedMeansApproved, Sends
<1>8. OneProposal /\ RefusedBeforeApproved
    BY <1>1, <1>4 DEF OneProposal, RefusedBeforeApproved, NoProposal, Sends
<1> QED BY <1>6, <1>7, <1>8 DEF ScenarioInv

(***************************************************************************)
(* What is done stays done.                                                *)
(***************************************************************************)
Kept ==
    \A r \in 1..Runs, s \in Sends :
        /\ status[r, s] \in Landed \cup {"expired"} => status'[r, s] = status[r, s]
        /\ status'[r, s] = "none" <=> status[r, s] = "none"

LEMMA DoneStays ==
    ASSUME Kept
    PROVE  /\ \A s \in Sends : Done(s) => Done(s)'
           /\ Refused => Refused'
BY DEF Kept, Done, Refused, Landed, Sends

LEMMA ChainKeeps ==
    ASSUME ScenarioInv, UNCHANGED <<run, healthy, script>>, Kept, OneProposal',
           proposal' \in Proposal, status' \in [Transactions -> Statuses],
           proposal.approved = {wallet} => proposal'.approved = {wallet},
           proposal'.approved # {} => Refused,
           proposal.status = "Executed" => proposal'.status = "Executed",
           proposal.approved = {wallet} /\ status[run, "execute"] = "pending" =>
               \/ proposal'.status = "Executed"
               \/ status'[run, "execute"] \in {"pending", "expired"}
    PROVE  ScenarioInv'
<1>1. UNCHANGED <<step, call, tries, polls, outcome>>
    BY DEF script
<1>2. run \in 1..Runs /\ step \in Sends \cup {"start", "vault transaction", "proposal"}
    BY DEF ScenarioInv, TypeOK
<1>3. TypeOK'
    <2>1. call = "status" => step \in Sends /\ status'[run, step] # "none"
        <3> SUFFICES ASSUME call = "status"
                     PROVE  step \in Sends /\ status'[run, step] # "none"
            OBVIOUS
        <3>1. step \in Sends /\ status[run, step] # "none"
            BY DEF ScenarioInv, TypeOK
        <3> QED BY <1>2, <3>1 DEF Kept
    <2> QED BY <1>1, <2>1 DEF ScenarioInv, TypeOK, Statuses
<1>4. FirstRunOnly'
    BY <1>1 DEF ScenarioInv, FirstRunOnly, Kept, Sends
<1>5. InOrder'
    BY <1>1, DoneStays DEF ScenarioInv, InOrder, Kept, Sends
<1>6. \/ proposal.status = "Executed"
      \/ status[run, "execute"] \in {"pending", "expired"} /\ proposal.approved = {wallet}
      => \/ proposal'.status = "Executed"
         \/ status'[run, "execute"] \in {"pending", "expired"}
    BY <1>2 DEF Kept, Sends
<1>7. UnderWay' /\ PassedMeansApproved'
    BY <1>1, <1>6 DEF ScenarioInv, UnderWay, PassedMeansApproved, InOrder
<1>8. RefusedBeforeApproved'
    BY DoneStays DEF RefusedBeforeApproved
<1> QED BY <1>3, <1>4, <1>5, <1>7, <1>8 DEF ScenarioInv

(***************************************************************************)
(* A transaction lands, expires, or is refused by the program.             *)
(***************************************************************************)
LEMMA StatusWrite ==
    ASSUME ScenarioInv, NEW r \in 1..Runs, NEW s \in Sends, NEW how \in Landed \cup {"expired"},
           status[r, s] = "pending", status' = [status EXCEPT ![<<r, s>>] = how]
    PROVE  /\ Kept /\ status' \in [Transactions -> Statuses] /\ status'[r, s] = how
           /\ \A r2 \in 1..Runs, s2 \in Sends :
                 status'[r2, s2] # status[r2, s2] => r2 = r /\ s2 = s
<1>1. status \in [Transactions -> Statuses] /\ <<r, s>> \in Transactions
    BY DEF ScenarioInv, TypeOK, Statuses, Transactions
<1>2. status' \in [Transactions -> Statuses] /\ status'[r, s] = how
    BY <1>1 DEF Statuses
<1>3. \A r2 \in 1..Runs, s2 \in Sends :
         status'[r2, s2] # status[r2, s2] => r2 = r /\ s2 = s
    BY <1>1 DEF Transactions
<1>4. Kept
    BY <1>2, <1>3 DEF Kept, Landed
<1> QED BY <1>2, <1>3, <1>4

LEMMA NotYetProposed ==
    ASSUME ScenarioInv, NEW r \in 1..Runs, status[r, "propose"] = "pending"
    PROVE  ~Done("propose")
BY DEF ScenarioInv, FirstRunOnly, Done

LEMMA NotProposed == NoProposal.status = "None" /\ NoProposal.approved = {}
BY DEF NoProposal

LEMMA Proposed ==
    ASSUME ScenarioInv, proposal.status # "None" \/ proposal.approved # {}
    PROVE  Done("propose") /\ Done("fund")
<1>1. Done("propose")
    BY NotProposed DEF ScenarioInv, OneProposal
<1>2. \E r \in 1..Runs : status[r, "propose"] # "none"
    BY <1>1 DEF Done
<1> QED BY <1>1, <1>2 DEF ScenarioInv, InOrder

LEMMA FailedKeeps ==
    ASSUME ScenarioInv, NEW r \in 1..Runs, NEW s \in Sends, NEW how \in {"failed", "expired"},
           status[r, s] = "pending", status' = [status EXCEPT ![<<r, s>>] = how],
           UNCHANGED <<proposal, run, healthy, script>>,
           how = "failed" => TransactionVerdict(s) # Ok
    PROVE  ScenarioInv'
<1>1. /\ Kept /\ status' \in [Transactions -> Statuses] /\ status'[r, s] = how
      /\ \A r2 \in 1..Runs, s2 \in Sends :
            status'[r2, s2] # status[r2, s2] => r2 = r /\ s2 = s
    BY StatusWrite DEF Landed
<1>2. proposal \in Proposal /\ run \in 1..Runs
    BY DEF ScenarioInv, TypeOK
<1>3. OneProposal'
    <2>1. Done("propose") => Done("propose")'
        BY <1>1, DoneStays DEF Sends
    <2>2. \A r2 \in 1..Runs : status'[r2, "execute"] = "ok" => status[r2, "execute"] = "ok"
        BY <1>1 DEF Sends
    <2> QED BY <2>1, <2>2 DEF ScenarioInv, OneProposal
<1>4. ASSUME proposal.approved = {wallet}, status[run, "execute"] = "pending"
      PROVE  proposal.status = "Executed" \/ status'[run, "execute"] \in {"pending", "expired"}
    <2>1. CASE s = "execute" /\ how = "failed"
        <3>1. Done("fund")
            BY <1>4, Proposed
        <3>2. proposal.status # "Approved"
            BY <2>1, <3>1 DEF TransactionVerdict, Require, &&, Ok
        <3> QED BY <1>4, <3>2 DEF ScenarioInv, OneProposal
    <2>2. CASE s # "execute"
        BY <1>1, <1>2, <1>4, <2>2 DEF Sends
    <2>3. CASE how = "expired"
        BY <1>1, <1>2, <1>4, <2>3 DEF Sends
    <2> QED BY <2>1, <2>2, <2>3
<1>5. proposal.approved # {} => Refused
    BY DEF ScenarioInv, RefusedBeforeApproved
<1> QED BY <1>1, <1>2, <1>3, <1>4, <1>5, ChainKeeps

LEMMA OkKeeps ==
    ASSUME ScenarioInv, NEW r \in 1..Runs, NEW s \in Sends,
           status[r, s] = "pending", status' = [status EXCEPT ![<<r, s>>] = "ok"],
           UNCHANGED <<run, healthy, script>>,
           TransactionVerdict(s) = Ok, proposal' = Effect(s)
    PROVE  ScenarioInv'
<1>1. /\ Kept /\ status' \in [Transactions -> Statuses] /\ status'[r, s] = "ok"
      /\ \A r2 \in 1..Runs, s2 \in Sends :
            status'[r2, s2] # status[r2, s2] => r2 = r /\ s2 = s
    BY StatusWrite DEF Landed
<1>2. proposal \in Proposal /\ run \in 1..Runs
    BY DEF ScenarioInv, TypeOK
<1>3. Done("propose") => Done("propose")'
    BY <1>1, DoneStays DEF Sends
<1>4. s # "execute" =>
         \A r2 \in 1..Runs : status'[r2, "execute"] = status[r2, "execute"]
    BY <1>1 DEF Sends
<1>5. CASE s \in {"create", "fund"}
    <2>1. proposal' = proposal
        BY <1>5 DEF Effect
    <2>2. OneProposal'
        BY <1>3, <1>4, <1>5, <2>1 DEF ScenarioInv, OneProposal
    <2>3. proposal.approved # {} => Refused
        BY DEF ScenarioInv, RefusedBeforeApproved
    <2> QED BY <1>1, <1>2, <1>4, <1>5, <2>1, <2>2, <2>3, ChainKeeps
<1>6. CASE s = "propose"
    <2>1. proposal = NoProposal /\ proposal' = NewProposal
        BY <1>6, NotYetProposed DEF ScenarioInv, OneProposal, Effect
    <2>2. proposal.approved = {} /\ proposal.status = "None"
          /\ proposal'.approved = {} /\ proposal'.status = "Active" /\ proposal' \in Proposal
        BY <2>1, NoProposalType DEF NoProposal, NewProposal
    <2>3. Done("propose")'
        BY <1>1, <1>6 DEF Done
    <2>4. OneProposal'
        BY <1>4, <1>6, <2>2, <2>3 DEF ScenarioInv, OneProposal
    <2> QED BY <1>1, <2>2, <2>4, ChainKeeps
<1>7. CASE s = "honest"
    <2>1. proposal.status = "Active"
        BY <1>7 DEF TransactionVerdict, VoteVerdict, Require, &&, Ok
    <2>2. proposal.approved = {} /\ Done("propose")
        BY <2>1, Proposed DEF ScenarioInv, OneProposal
    <2>3. proposal' = Approved(proposal, wallet)
        BY <1>7 DEF Effect, Voted
    <2>4. proposal'.approved = {wallet} /\ proposal'.status = "Approved"
        <3>1. Cardinality({wallet}) >= Threshold
            BY OneIsEnough
        <3>2. proposal.approved \cup {wallet} = {wallet}
            BY <2>2
        <3> QED BY <1>2, <2>3, <3>1, <3>2 DEF Approved, Proposal
    <2>5. proposal' \in Proposal
        BY <1>2, <1>7, VotedProposal, ScenarioAssumption DEF Effect
    <2>6. OneProposal'
        BY <1>3, <1>4, <1>7, <2>1, <2>2, <2>4 DEF ScenarioInv, OneProposal
    <2>7. Refused
        BY <1>7 DEF ScenarioInv, InOrder
    <2> QED BY <1>1, <2>1, <2>2, <2>4, <2>5, <2>6, <2>7, ChainKeeps
<1>8. CASE s = "execute"
    <2>1. proposal.status = "Approved" /\ proposal' = [proposal EXCEPT !.status = "Executed"]
        BY <1>8 DEF TransactionVerdict, Effect, Require, &&, Ok
    <2>2. /\ proposal' \in Proposal /\ proposal'.status = "Executed"
          /\ proposal'.approved = proposal.approved
        BY <1>2, <2>1 DEF Proposal, ProposalStatus
    <2>3. proposal.approved = {wallet} /\ Done("propose")
        BY <2>1, Proposed DEF ScenarioInv, OneProposal
    <2>4. OneProposal'
        BY <1>3, <2>2, <2>3 DEF ScenarioInv, OneProposal
    <2>5. Refused
        BY <2>3 DEF ScenarioInv, RefusedBeforeApproved
    <2> QED BY <1>1, <2>2, <2>3, <2>4, <2>5, ChainKeeps
<1>9. s # "tampered"
    BY DEF TransactionVerdict, Ok
<1> QED BY <1>5, <1>6, <1>7, <1>8, <1>9 DEF Sends

LEMMA ClusterKeeps ==
    ASSUME ScenarioInv, Cluster
    PROVE  ScenarioInv'
<1>1. PICK r \in 1..Runs, s \in Sends : Land(<<r, s>>) \/ Expire(<<r, s>>)
    BY DEF Cluster, Transactions
<1>2. <<r, s>>[2] = s
    OBVIOUS
<1>3. CASE Land(<<r, s>>)
    BY <1>2, <1>3, FailedKeeps, OkKeeps DEF Land
<1>4. CASE Expire(<<r, s>>)
    BY <1>4, FailedKeeps DEF Expire
<1> QED BY <1>1, <1>3, <1>4

(***************************************************************************)
(* The script goes on, or stays where it is.                               *)
(***************************************************************************)
LEMMA GotoKeeps ==
    ASSUME ScenarioInv, Running, UNCHANGED <<chain, run, healthy>>,
           NEW s \in Sends \cup {"start", "vault transaction", "proposal"},
           NEW c \in {"send", "read"}, Goto(s, c),
           s \in {"create", "fund", "propose"} => run = 1,
           s = "propose" => Done("fund"),
           s \in {"proposal", "tampered", "honest", "execute"} => Done("propose"),
           s = "honest" \/ (s = "tampered" /\ c = "read") => Refused,
           s = "execute" => proposal.approved = {wallet},
           s = "execute" /\ c = "read" =>
               \/ proposal.status = "Executed"
               \/ status[run, "execute"] \in {"pending", "expired"}
    PROVE  ScenarioInv'
<1>1. /\ UNCHANGED <<proposal, status, run, healthy>>
      /\ step' = s /\ call' = c /\ tries' = 0 /\ polls' = 0 /\ outcome' = "running"
    BY DEF Goto, Running, chain
<1>2. 0 \in 0..(Tries - 1) /\ 0 \in 0..(Polls - 1)
    BY Zeros
<1>3. TypeOK'
    BY <1>1, <1>2 DEF ScenarioInv, TypeOK
<1>4. FirstRunOnly' /\ InOrder' /\ UnderWay' /\ PassedMeansApproved'
    BY <1>1 DEF ScenarioInv, FirstRunOnly, InOrder, UnderWay, PassedMeansApproved, Done, Refused
<1>5. OneProposal' /\ RefusedBeforeApproved'
    BY <1>1 DEF ScenarioInv, OneProposal, RefusedBeforeApproved, Done, Refused
<1> QED BY <1>3, <1>4, <1>5 DEF ScenarioInv

Ended == {"interrupted", "not ready", "rpc error", "timed out", "unexpected status",
          "vote despite failure", "not one approval", "passed"}

LEMMA StayKeeps ==
    ASSUME ScenarioInv, UNCHANGED <<chain, run, healthy, step, call>>,
           tries' \in 0..(Tries - 1), polls' \in 0..(Polls - 1),
           outcome' \in Ended \cup {"running"},
           outcome' = "passed" =>
               /\ proposal.approved = {wallet}
               /\ \/ proposal.status = "Executed"
                  \/ status[run, "execute"] \in {"pending", "expired"}
    PROVE  ScenarioInv'
<1>1. UNCHANGED <<proposal, status>>
    BY DEF chain
<1>2. TypeOK'
    BY <1>1 DEF ScenarioInv, TypeOK, Ended
<1>3. FirstRunOnly' /\ InOrder' /\ UnderWay' /\ PassedMeansApproved'
    BY <1>1 DEF ScenarioInv, FirstRunOnly, InOrder, UnderWay, PassedMeansApproved, Done, Refused
<1>4. OneProposal' /\ RefusedBeforeApproved'
    BY <1>1 DEF ScenarioInv, OneProposal, RefusedBeforeApproved, Done, Refused
<1> QED BY <1>2, <1>3, <1>4 DEF ScenarioInv

LEMMA FinishKeeps ==
    ASSUME ScenarioInv, UNCHANGED <<chain, run, healthy>>, NEW how \in Ended, Finish(how),
           how = "passed" =>
               /\ proposal.approved = {wallet}
               /\ \/ proposal.status = "Executed"
                  \/ status[run, "execute"] \in {"pending", "expired"}
    PROVE  ScenarioInv'
<1>1. tries \in 0..(Tries - 1) /\ polls \in 0..(Polls - 1)
    BY DEF ScenarioInv, TypeOK
<1> QED BY <1>1, StayKeeps DEF Finish

LEMMA RetryStays ==
    ASSUME ScenarioInv, Running, Retry
    PROVE  /\ tries' \in 0..(Tries - 1) /\ polls' \in 0..(Polls - 1)
           /\ UNCHANGED <<step, call>> /\ outcome' \in {"running", "rpc error"}
<1>1. tries \in 0..(Tries - 1) /\ polls \in 0..(Polls - 1) /\ Tries \in Nat
    BY Bounds DEF ScenarioInv, TypeOK
<1>2. CASE tries < Tries - 1 /\ tries' = tries + 1 /\ UNCHANGED <<step, call, polls, outcome>>
    <2>1. tries' \in 0..(Tries - 1)
        BY <1>1, <1>2
    <2> QED BY <1>1, <1>2, <2>1 DEF Running
<1>3. CASE tries >= Tries - 1 /\ Finish("rpc error")
    BY <1>1, <1>3 DEF Finish
<1> QED BY <1>2, <1>3 DEF Retry

LEMMA RetryKeeps ==
    ASSUME ScenarioInv, Running, UNCHANGED <<chain, run, healthy>>, Retry
    PROVE  ScenarioInv'
BY RetryStays, StayKeeps DEF Ended

(***************************************************************************)
(* A send puts a transaction of this run and this step on its way.         *)
(***************************************************************************)
LEMMA SendKeeps ==
    ASSUME ScenarioInv, NEW s \in Sends, Send(s)
    PROVE  ScenarioInv'
<1>1. /\ UNCHANGED <<proposal, run, healthy>> /\ Running
      /\ step = s /\ call = "send" /\ run \in 1..Runs
    BY DEF Send, At, ScenarioInv, TypeOK
<1>2. Goto(s, "status") \/ Retry
    BY DEF Send
<1>3. /\ tries' \in 0..(Tries - 1) /\ polls' \in 0..(Polls - 1) /\ step' = s
      /\ \/ call' = "status" /\ Goto(s, "status") /\ outcome' = "running"
         \/ call' = "send" /\ outcome' \in {"running", "rpc error"}
    <2>1. CASE Goto(s, "status")
        BY <1>1, <2>1, Zeros DEF Goto, Running
    <2>2. CASE Retry
        BY <1>1, <2>2, RetryStays
    <2> QED BY <1>2, <2>1, <2>2
<1>4. \/ /\ status' = [status EXCEPT ![<<run, s>>] = IF status[run, s] = "none" THEN "pending"
                                                      ELSE status[run, s]]
         /\ status'[run, s] # "none"
      \/ UNCHANGED status /\ (status[run, s] \in Landed \/ Retry)
    <2>1. status \in [Transactions -> Statuses] /\ <<run, s>> \in Transactions
        BY <1>1 DEF ScenarioInv, TypeOK, Statuses, Transactions
    <2> QED BY <2>1 DEF Send
<1>5. /\ status' \in [Transactions -> Statuses]
      /\ \A r2 \in 1..Runs, s2 \in Sends :
            \/ status'[r2, s2] = status[r2, s2]
            \/ r2 = run /\ s2 = s /\ status[r2, s2] = "none" /\ status'[r2, s2] = "pending"
    <2>1. status \in [Transactions -> Statuses] /\ <<run, s>> \in Transactions
        BY <1>1 DEF ScenarioInv, TypeOK, Statuses, Transactions
    <2> QED BY <1>1, <1>4, <2>1 DEF Statuses, Transactions
<1>6. call' = "status" => status'[run, s] # "none"
    BY <1>1, <1>3, <1>4 DEF Landed, Retry, Finish, Goto
<1>7. TypeOK'
    BY <1>1, <1>3, <1>5, <1>6 DEF ScenarioInv, TypeOK, Statuses
<1>8. /\ \A s2 \in Sends : Done(s2)' <=> Done(s2)
      /\ Refused' <=> Refused
    BY <1>5 DEF Done, Refused, Sends
<1>9. FirstRunOnly'
    BY <1>1, <1>3, <1>5 DEF ScenarioInv, FirstRunOnly, Sends
<1>10. InOrder'
    BY <1>1, <1>3, <1>5, <1>8 DEF ScenarioInv, InOrder, Sends
<1>11. UnderWay' /\ PassedMeansApproved'
    BY <1>3 DEF UnderWay, PassedMeansApproved
<1>12. OneProposal' /\ RefusedBeforeApproved'
    BY <1>1, <1>5, <1>8 DEF ScenarioInv, OneProposal, RefusedBeforeApproved, Sends
<1> QED BY <1>7, <1>9, <1>10, <1>11, <1>12 DEF ScenarioInv

(***************************************************************************)
(* The status of a signature, when there is one, decides; the loop of the  *)
(* execution may be left without one.                                      *)
(***************************************************************************)
LEMMA AfterSendingKeeps ==
    ASSUME ScenarioInv, NEW s \in Sends, Running, step = s, call = "status",
           UNCHANGED <<chain, run, healthy>>, AfterSending(s),
           \/ status[run, s] \in Landed /\ AsExpected(s)
           \/ s = "execute" /\ status[run, s] \notin Landed
    PROVE  ScenarioInv'
<1>1. /\ run \in 1..Runs /\ status[run, s] \in Statuses \ {"none"}
      /\ s \in {"create", "fund", "propose"} => run = 1
      /\ s \in {"proposal", "tampered", "honest", "execute"} => Done("propose")
      /\ s = "honest" => Refused
      /\ s = "execute" => proposal.approved = {wallet}
    <2>1. run \in 1..Runs /\ status[run, s] # "none" /\ <<run, s>> \in Transactions
        BY DEF ScenarioInv, TypeOK, Transactions
    <2> QED BY <2>1 DEF ScenarioInv, TypeOK, FirstRunOnly, InOrder, Statuses
<1>2. CASE s = "create"
    BY <1>1, <1>2, GotoKeeps DEF AfterSending, Sends
<1>3. CASE s = "fund"
    <2>1. Done("fund")
        BY <1>1, <1>3 DEF AsExpected, Landed, Done
    <2> QED BY <1>1, <1>3, <2>1, GotoKeeps DEF AfterSending, Sends
<1>4. CASE s = "propose"
    BY <1>4, GotoKeeps DEF AfterSending
<1>5. CASE s = "tampered"
    <2>1. Refused
        BY <1>1, <1>5 DEF AsExpected, Landed, Refused
    <2> QED BY <1>1, <1>5, <2>1, GotoKeeps DEF AfterSending, Sends
<1>6. CASE s = "honest"
    BY <1>1, <1>6, GotoKeeps DEF AfterSending, Sends
<1>7. CASE s = "execute"
    <2>1. proposal.status = "Executed" \/ status[run, "execute"] \in {"pending", "expired"}
        BY <1>1, <1>7 DEF AsExpected, Landed, Statuses, ScenarioInv, OneProposal
    <2> QED BY <1>1, <1>7, <2>1, GotoKeeps DEF AfterSending, Sends
<1> QED BY <1>2, <1>3, <1>4, <1>5, <1>6, <1>7 DEF Sends

LEMMA PollKeeps ==
    ASSUME ScenarioInv, NEW s \in Sends, Poll(s)
    PROVE  ScenarioInv'
<1>1. UNCHANGED <<chain, run, healthy>> /\ Running /\ step = s /\ call = "status"
    BY DEF Poll, At
<1>2. CASE status[run, s] \in Landed /\ AsExpected(s) /\ AfterSending(s)
    BY <1>1, <1>2, AfterSendingKeeps
<1>3. CASE Finish("unexpected status")
    BY <1>1, <1>3, FinishKeeps DEF Ended
<1>4. CASE NextPoll < Polls /\ polls' = NextPoll /\ tries' = 0 /\ UNCHANGED <<step, call, outcome>>
    <2>1. polls' \in 0..(Polls - 1)
        <3>1. polls \in 0..(Polls - 1) /\ Polls \in Nat /\ polls + 1 < Polls /\ polls' = polls + 1
            BY <1>4, Bounds DEF ScenarioInv, TypeOK, NextPoll
        <3> QED BY <3>1
    <2> QED BY <1>1, <1>4, <2>1, Zeros, StayKeeps DEF Running
<1>5. CASE status[run, s] \notin Landed /\ ~GivesUp(s) /\ AfterSending(s)
    BY <1>1, <1>5, AfterSendingKeeps DEF GivesUp
<1>6. CASE Finish("timed out")
    BY <1>1, <1>6, FinishKeeps DEF Ended
<1> QED BY <1>2, <1>3, <1>4, <1>5, <1>6 DEF Poll

(***************************************************************************)
(* What is read back.                                                      *)
(***************************************************************************)
LEMMA AfterApprovalKeeps ==
    ASSUME ScenarioInv, Running, UNCHANGED <<chain, run, healthy>>, Done("propose"),
           proposal.approved # {}, AfterApproval(proposal)
    PROVE  ScenarioInv'
<1>1. proposal.approved = {wallet}
    BY DEF ScenarioInv, OneProposal
<1>2. CASE proposal.status # "Executed" /\ Goto("execute", "send")
    BY <1>1, <1>2, GotoKeeps DEF Sends
<1>3. CASE proposal.status = "Executed" /\ Finish("passed")
    BY <1>1, <1>3, FinishKeeps DEF Ended
<1> QED BY <1>2, <1>3 DEF AfterApproval

LEMMA ReadingKeeps ==
    ASSUME ScenarioInv,
           ReadVaultTransaction \/ ReadProposal \/ ReadRefused \/ ReadApproved \/ ReadBalance
    PROVE  ScenarioInv'
<1>1. UNCHANGED <<chain, run, healthy>> /\ Running
    BY DEF ReadVaultTransaction, ReadProposal, ReadRefused, ReadApproved, ReadBalance, Reading, At
<1>2. CASE ReadVaultTransaction
    BY <1>1, <1>2, GotoKeeps, RetryKeeps DEF ReadVaultTransaction
<1>3. CASE ReadProposal
    <2>1. step = "proposal" /\ Done("propose")
        BY <1>3 DEF ReadProposal, Reading, At, ScenarioInv, InOrder
    <2> QED BY <1>1, <1>3, <2>1, GotoKeeps, AfterApprovalKeeps DEF ReadProposal, Sends
<1>4. CASE ReadRefused
    <2>1. step = "tampered" /\ call = "read" /\ Done("propose") /\ Refused
        BY <1>4 DEF ReadRefused, Reading, At, ScenarioInv, InOrder
    <2> QED BY <1>1, <1>4, <2>1, GotoKeeps, FinishKeeps DEF ReadRefused, Sends, Ended
<1>5. CASE ReadApproved
    <2>1. step = "honest" /\ Done("propose")
        BY <1>5 DEF ReadApproved, Reading, At, ScenarioInv, InOrder
    <2>2. Cardinality({}) # 1
        BY FS_EmptySet
    <2> QED BY <1>1, <1>5, <2>1, <2>2, AfterApprovalKeeps, FinishKeeps DEF ReadApproved, Ended
<1>6. CASE ReadBalance
    <2>1. step = "execute" /\ call = "read" /\ Finish("passed")
        BY <1>6 DEF ReadBalance, Reading, At
    <2> QED BY <1>1, <2>1, FinishKeeps DEF ScenarioInv, InOrder, UnderWay, Ended
<1> QED BY <1>2, <1>3, <1>4, <1>5, <1>6

LEMMA StartKeeps ==
    ASSUME ScenarioInv, Start
    PROVE  ScenarioInv'
<1>1. UNCHANGED <<chain, run, healthy>> /\ Running
    BY DEF Start, Reading, At
<1>2. CASE Finish("not ready")
    BY <1>1, <1>2, FinishKeeps DEF Ended
<1>3. CASE run = 1 /\ Goto("create", "send")
    BY <1>1, <1>3, GotoKeeps DEF Sends
<1>4. CASE Goto("vault transaction", "read")
    BY <1>1, <1>4, GotoKeeps
<1> QED BY <1>2, <1>3, <1>4 DEF Start

LEMMA ScriptKeeps ==
    ASSUME ScenarioInv, Script
    PROVE  ScenarioInv'
<1>1. CASE RpcFails
    BY <1>1, RetryKeeps DEF RpcFails, At
<1> QED BY <1>1, StartKeeps, SendKeeps, PollKeeps, ReadingKeeps DEF Script

(***************************************************************************)
(* An interruption leaves everything where it is; the run that resumes the *)
(* scenario starts again.                                                  *)
(***************************************************************************)
LEMMA InterruptKeeps ==
    ASSUME ScenarioInv, Interrupt
    PROVE  ScenarioInv'
<1>1. tries \in 0..(Tries - 1) /\ polls \in 0..(Polls - 1)
    BY DEF ScenarioInv, TypeOK
<1> QED BY <1>1, StayKeeps DEF Interrupt, Ended

LEMMA ResumeKeeps ==
    ASSUME ScenarioInv, Resume
    PROVE  ScenarioInv'
<1>1. /\ UNCHANGED <<proposal, status>> /\ step' = "start" /\ call' = "read"
      /\ tries' = 0 /\ polls' = 0 /\ outcome' = "running" /\ healthy' \in BOOLEAN
    BY DEF Resume, chain
<1>2. run' \in 1..Runs
    <2>1. run \in 1..Runs /\ run < Runs /\ run' = run + 1 /\ Runs \in Nat
        BY ScenarioAssumption DEF ScenarioInv, TypeOK, Resume
    <2> QED BY <2>1
<1>3. TypeOK'
    BY <1>1, <1>2, Zeros DEF ScenarioInv, TypeOK
<1>4. FirstRunOnly' /\ InOrder' /\ UnderWay' /\ PassedMeansApproved'
    BY <1>1 DEF ScenarioInv, FirstRunOnly, InOrder, UnderWay, PassedMeansApproved, Done, Refused
<1>5. OneProposal' /\ RefusedBeforeApproved'
    BY <1>1 DEF ScenarioInv, OneProposal, RefusedBeforeApproved, Done, Refused
<1> QED BY <1>3, <1>4, <1>5 DEF ScenarioInv

LEMMA StutterScenario == ScenarioInv /\ UNCHANGED vars => ScenarioInv'
<1> SUFFICES ASSUME ScenarioInv, UNCHANGED vars PROVE ScenarioInv'
    OBVIOUS
<1>1. UNCHANGED <<proposal, status, run, healthy, step, call, tries, polls, outcome>>
    BY DEF vars, chain, script
<1>2. TypeOK'
    BY <1>1 DEF ScenarioInv, TypeOK
<1>3. FirstRunOnly' /\ InOrder' /\ UnderWay' /\ PassedMeansApproved'
    BY <1>1 DEF ScenarioInv, FirstRunOnly, InOrder, UnderWay, PassedMeansApproved, Done, Refused
<1>4. OneProposal' /\ RefusedBeforeApproved'
    BY <1>1 DEF ScenarioInv, OneProposal, RefusedBeforeApproved, Done, Refused
<1> QED BY <1>2, <1>3, <1>4 DEF ScenarioInv

LEMMA NextScenario == ScenarioInv /\ [Next]_vars => ScenarioInv'
BY ScriptKeeps, ClusterKeeps, InterruptKeeps, ResumeKeeps, StutterScenario DEF Next

(***************************************************************************)
(* However many runs it takes and wherever each is interrupted, the        *)
(* scenario has one proposal, which only goes forward.                     *)
(***************************************************************************)
THEOREM ScenarioInvariant == Spec => []ScenarioInv
<1>1. Init => ScenarioInv
    BY InitScenario
<1>2. ScenarioInv /\ [Next]_vars => ScenarioInv'
    BY NextScenario
<1> QED BY <1>1, <1>2, PTL DEF Spec

(***************************************************************************)
(* No approval before the program was seen to refuse (e2e.cjs:9-11).       *)
(***************************************************************************)
THEOREM RefusalComesFirst == Spec => []RefusedBeforeApproved
<1>1. ScenarioInv => RefusedBeforeApproved
    BY DEF ScenarioInv
<1> QED BY <1>1, ScenarioInvariant, PTL

(***************************************************************************)
(* No pass without the approval, nor without an execution at least under   *)
(* way (e2e.cjs:12, 302).                                                  *)
(***************************************************************************)
THEOREM PassShowsApproval == Spec => []PassedMeansApproved
<1>1. ScenarioInv => PassedMeansApproved
    BY DEF ScenarioInv
<1> QED BY <1>1, ScenarioInvariant, PTL

(***************************************************************************)
(* A healthy run: the script.                                              *)
(***************************************************************************)
Passing == {"running", "interrupted", "passed"}

LEMMA StayHealthy ==
    ASSUME ScenarioInv, HealthyInv, UNCHANGED <<chain, run, healthy, step, call>>,
           healthy /\ (run = 1 \/ Done("propose")) => outcome' \in Passing
    PROVE  HealthyInv'
<1>1. UNCHANGED <<proposal, status>>
    BY DEF chain
<1>2. SignedOnce' /\ ReadBack'
    BY <1>1 DEF HealthyInv, SignedOnce, ReadBack, Ahead, Done
<1>3. (healthy => Undisturbed)'
    BY <1>1 DEF HealthyInv, Undisturbed
<1>4. HealthyRunPasses'
    BY <1>1 DEF HealthyRunPasses, Done, Passing
<1> QED BY <1>2, <1>3, <1>4 DEF HealthyInv

AsRead(s) ==
    /\ s \in {"tampered", "honest"} /\ status[run, "honest"] # "ok" => proposal.approved = {}
    /\ s = "execute" /\ status[run, "execute"] # "ok" => proposal.status = "Approved"

LEMMA GotoHealthy ==
    ASSUME ScenarioInv, HealthyInv, Running, UNCHANGED <<chain, run, healthy>>,
           NEW s \in Sends \cup {"vault transaction", "proposal"},
           NEW c \in {"send", "read"}, Goto(s, c),
           Ahead' \subseteq Ahead,
           s = "vault transaction" => run # 1 \/ Done("propose"),
           s = "honest" /\ c = "read" => Done("honest"),
           c = "send" => s \in Ahead \cap Sends,
           healthy => Settled /\ AsRead(s)
    PROVE  HealthyInv'
<1>1. /\ UNCHANGED <<proposal, status, run, healthy>>
      /\ step' = s /\ call' = c /\ outcome' = "running"
    BY DEF Goto, Running, chain
<1>2. SignedOnce'
    BY <1>1 DEF HealthyInv, SignedOnce
<1>3. ReadBack'
    BY <1>1 DEF HealthyInv, ReadBack, Done
<1>4. ASSUME healthy PROVE Undisturbed'
    <2>1. \A r \in 1..Runs, s2 \in Sends : status[r, s2] # "pending"
        BY <1>4 DEF Settled, Transactions
    <2>2. c = "send" => s \in Sends /\ status[run, s] = "none"
        BY DEF HealthyInv, SignedOnce
    <2>3. \A s2 \in Sends :
             status[run, s2] # "expired" /\ (status[run, s2] = "failed" => s2 = "tampered")
        BY <1>4 DEF HealthyInv, Undisturbed
    <2>4. AsRead(s)
        BY <1>4
    <2> QED BY <1>1, <2>1, <2>2, <2>3, <2>4 DEF Undisturbed, AsRead
<1>5. HealthyRunPasses'
    BY <1>1 DEF HealthyRunPasses
<1>6. healthy' => Undisturbed'
    <2>1. healthy \in BOOLEAN
        BY DEF ScenarioInv, TypeOK
    <2>2. healthy' = healthy
        BY <1>1
    <2>3. CASE healthy = TRUE
        BY <1>4, <2>3
    <2>4. CASE healthy = FALSE
        BY <2>2, <2>4
    <2> QED BY <2>1, <2>3, <2>4
<1> QED BY <1>2, <1>3, <1>5, <1>6 DEF HealthyInv

LEMMA StartHealthy ==
    ASSUME ScenarioInv, HealthyInv, Start
    PROVE  HealthyInv'
<1>1. /\ UNCHANGED <<chain, run, healthy>> /\ Running /\ step = "start"
      /\ healthy => Settled
    BY DEF Start, Reading, At
<1>2. Ahead = Sends
    BY <1>1 DEF Ahead
<1>3. CASE ~healthy /\ Finish("not ready")
    BY <1>1, <1>3, StayHealthy DEF Finish
<1>4. CASE run = 1 /\ Goto("create", "send")
    <2>1. Ahead' \subseteq Ahead
        BY <1>2, <1>4 DEF Ahead, Goto
    <2> QED BY <1>1, <1>2, <1>4, <2>1, GotoHealthy DEF Sends, AsRead
<1>5. CASE run > 1 /\ Goto("vault transaction", "read")
    <2>1. Ahead' \subseteq Ahead
        BY <1>2, <1>5 DEF Ahead, Goto, Sends
    <2>2. run # 1
        <3>1. run \in 1..Runs /\ Runs \in Nat
            BY ScenarioAssumption DEF ScenarioInv, TypeOK
        <3>2. run > 1
            BY <1>5
        <3> QED BY <3>1, <3>2
    <2> QED BY <1>1, <1>5, <2>1, <2>2, GotoHealthy DEF AsRead
<1> QED BY <1>3, <1>4, <1>5 DEF Start

(***************************************************************************)
(* A send starts one transaction of the run; on a healthy node it goes.    *)
(***************************************************************************)
LEMMA ActiveForHonest ==
    ASSUME ScenarioInv, HealthyInv, Done("propose"), proposal.approved = {}
    PROVE  VoteVerdict(proposal, wallet, "Approve") = Ok
<1>1. proposal.status = "Active"
    BY DEF ScenarioInv, OneProposal, HealthyInv, ReadBack
<1>2. wallet \in Members /\ wallet \notin proposal.approved
    BY ScenarioAssumption
<1> QED BY <1>1, <1>2 DEF VoteVerdict, Require, &&, Ok

LEMMA HonestOk ==
    ASSUME ScenarioInv, HealthyInv, healthy, step \in Sends, step # "tampered",
           status[run, step] # "ok"
    PROVE  TransactionVerdict(step) = Ok
<1>1. CASE step \in {"create", "fund", "propose"}
    BY <1>1 DEF TransactionVerdict
<1>2. CASE step = "honest"
    <2>1. Done("propose") /\ proposal.approved = {}
        BY <1>2 DEF ScenarioInv, InOrder, HealthyInv, Undisturbed
    <2> QED BY <1>2, <2>1, ActiveForHonest DEF TransactionVerdict
<1>3. CASE step = "execute"
    <2>1. proposal.status = "Approved"
        BY <1>3 DEF HealthyInv, Undisturbed
    <2>2. Done("fund")
        BY <2>1, Proposed
    <2> QED BY <1>3, <2>1, <2>2 DEF TransactionVerdict, Require, &&, Ok
<1> QED BY <1>1, <1>2, <1>3 DEF Sends

LEMMA SendHealthy ==
    ASSUME ScenarioInv, HealthyInv, NEW s \in Sends, Send(s)
    PROVE  HealthyInv'
<1>1. /\ UNCHANGED <<proposal, run, healthy>> /\ Running /\ outcome = "running"
      /\ step = s /\ call = "send" /\ run \in 1..Runs
      /\ healthy => Settled
    BY DEF Send, At, Running, ScenarioInv, TypeOK
<1>2. status \in [Transactions -> Statuses] /\ <<run, s>> \in Transactions
    BY <1>1 DEF ScenarioInv, TypeOK, Statuses, Transactions
<1>3. \A r2 \in 1..Runs, s2 \in Sends :
         \/ status'[r2, s2] = status[r2, s2]
         \/ r2 = run /\ s2 = s /\ status[r2, s2] = "none" /\ status'[r2, s2] = "pending"
    BY <1>2 DEF Send, Statuses, Transactions
<1>4. step' = s
    BY <1>1, RetryStays DEF Send, Goto
<1>5. \A s2 \in Sends : Done(s2)' <=> Done(s2)
    BY <1>3 DEF Done
<1>6. SignedOnce'
    <2>1. Ahead' = Ahead /\ s \notin Ahead /\ Ahead \subseteq Sends
        BY <1>1, <1>4 DEF Ahead, Sends
    <2>2. \A r \in 1..Runs, s2 \in Sends : r > run => status'[r, s2] = "none"
        <3> SUFFICES ASSUME NEW r \in 1..Runs, NEW s2 \in Sends, r > run
                     PROVE  status'[r, s2] = "none"
            OBVIOUS
        <3>1. status[r, s2] = "none"
            BY DEF HealthyInv, SignedOnce
        <3>2. r # run
            BY <1>1, ScenarioAssumption
        <3> QED BY <1>3, <3>1, <3>2
    <2>3. \A s2 \in Ahead : status'[run, s2] = "none"
        <3>1. \A s2 \in Ahead : status[run, s2] = "none" /\ s2 \in Sends /\ s2 # s
            BY <2>1 DEF HealthyInv, SignedOnce
        <3> QED BY <1>1, <1>3, <3>1
    <2> QED BY <1>1, <2>1, <2>2, <2>3 DEF SignedOnce
<1>7. ReadBack'
    <2>1. step' # "vault transaction" /\ (step' = "honest" => call' # "read")
        BY <1>1, <1>4, RetryStays DEF Send, Goto, Sends
    <2>2. \A r \in 1..Runs : status'[r, "tampered"] # "ok"
        BY <1>3 DEF HealthyInv, ReadBack, Sends
    <2> QED BY <1>1, <1>5, <2>1, <2>2 DEF HealthyInv, ReadBack, Sends
<1>8. healthy => Goto(s, "status")
    <2> SUFFICES ASSUME healthy PROVE Goto(s, "status")
        OBVIOUS
    <2>1. status[run, s] = "none"
        BY <1>1 DEF HealthyInv, Undisturbed
    <2>2. NodeTakes(s)
        BY <1>1, <2>1, HonestOk DEF NodeTakes, Landed, skipPreflight
    <2> QED BY <2>1, <2>2 DEF Send, Landed
<1>9. (healthy => Undisturbed)'
    <2> SUFFICES ASSUME healthy PROVE Undisturbed'
        BY <1>1
    <2>1. step' = s /\ call' = "status"
        BY <1>8 DEF Goto
    <2>2. \A r \in 1..Runs, s2 \in Sends : status[r, s2] # "pending"
        BY <1>1 DEF Settled, Transactions
    <2>3. Undisturbed
        BY DEF HealthyInv
    <2>4. \A r \in 1..Runs, s2 \in Sends : status'[r, s2] = "pending" => r = run /\ s2 = s
        BY <1>3, <2>2
    <2>5. \A s2 \in Sends :
             status'[run, s2] # "expired" /\ (status'[run, s2] = "failed" => s2 = "tampered")
        BY <1>1, <1>3, <2>3 DEF Undisturbed
    <2>6. \A s2 \in Sends : status'[run, s2] # "ok" => status[run, s2] # "ok"
        BY <1>1, <1>3
    <2> QED BY <1>1, <2>1, <2>3, <2>4, <2>5, <2>6 DEF Undisturbed, Sends
<1>10. HealthyRunPasses'
    BY <1>1, <1>8 DEF HealthyRunPasses, Goto
<1> QED BY <1>6, <1>7, <1>9, <1>10 DEF HealthyInv

(***************************************************************************)
(* What a healthy run waits for has come.                                  *)
(***************************************************************************)
LEMMA AfterSendingHealthy ==
    ASSUME ScenarioInv, HealthyInv, NEW s \in Sends, Running, step = s, call = "status",
           UNCHANGED <<chain, run, healthy>>, AfterSending(s),
           \/ status[run, s] \in Landed /\ AsExpected(s)
           \/ s = "execute" /\ ~healthy,
           healthy => Settled
    PROVE  HealthyInv'
<1>1. run \in 1..Runs
    BY DEF ScenarioInv, TypeOK
<1>2. s \in Sends \ {"execute", "tampered"} => Done(s)
    BY <1>1 DEF AsExpected, Landed, Done, Sends
<1>3. CASE s = "create" /\ Goto("fund", "send")
    <2>1. Ahead' \subseteq Ahead /\ "fund" \in Ahead
        BY <1>3 DEF Ahead, Goto, Sends
    <2> QED BY <1>3, <2>1, GotoHealthy DEF AsRead, Sends
<1>4. CASE s = "fund" /\ Goto("propose", "send")
    <2>1. Ahead' \subseteq Ahead /\ "propose" \in Ahead
        BY <1>4 DEF Ahead, Goto, Sends
    <2> QED BY <1>4, <2>1, GotoHealthy DEF AsRead, Sends
<1>5. CASE s = "propose" /\ Goto("vault transaction", "read")
    <2>1. Ahead' \subseteq Ahead
        BY <1>5 DEF Ahead, Goto
    <2> QED BY <1>2, <1>5, <2>1, GotoHealthy DEF AsRead, Sends
<1>6. CASE s \in {"tampered", "honest", "execute"} /\ Goto(s, "read")
    <2>1. Ahead' \subseteq Ahead
        BY <1>6 DEF Ahead, Goto
    <2>2. healthy => AsRead(s)
        BY DEF HealthyInv, Undisturbed, AsRead
    <2> QED BY <1>2, <1>6, <2>1, <2>2, GotoHealthy DEF Sends
<1> QED BY <1>3, <1>4, <1>5, <1>6 DEF AfterSending, Sends

LEMMA PollHealthy ==
    ASSUME ScenarioInv, HealthyInv, NEW s \in Sends, Poll(s)
    PROVE  HealthyInv'
<1>1. /\ UNCHANGED <<chain, run, healthy>> /\ Running /\ step = s /\ call = "status"
      /\ healthy => Settled
    BY DEF Poll, At
<1>2. run \in 1..Runs /\ status[run, s] \in Statuses \ {"none"}
    <2>1. run \in 1..Runs /\ status[run, s] # "none" /\ <<run, s>> \in Transactions
        BY <1>1 DEF ScenarioInv, TypeOK, Transactions
    <2> QED BY <2>1 DEF ScenarioInv, TypeOK, Statuses
<1>3. healthy => status[run, s] \in Landed /\ AsExpected(s)
    <2> SUFFICES ASSUME healthy PROVE status[run, s] \in Landed /\ AsExpected(s)
        OBVIOUS
    <2>1. status[run, s] # "pending"
        BY <1>1, <1>2 DEF Settled, Transactions
    <2>2. status[run, s] # "expired" /\ (status[run, s] = "failed" => s = "tampered")
        BY DEF HealthyInv, Undisturbed
    <2>3. status[run, "tampered"] # "ok"
        BY <1>2 DEF HealthyInv, ReadBack
    <2> QED BY <1>2, <2>1, <2>2, <2>3 DEF AsExpected, Landed, Statuses
<1>4. CASE status[run, s] \in Landed /\ AsExpected(s) /\ AfterSending(s)
    BY <1>1, <1>4, AfterSendingHealthy
<1>5. CASE ~(status[run, s] \in Landed /\ AsExpected(s))
    <2>1. ~healthy
        BY <1>3, <1>5
    <2>2. CASE AfterSending(s) /\ ~GivesUp(s)
        BY <1>1, <2>1, <2>2, AfterSendingHealthy DEF GivesUp
    <2>3. CASE UNCHANGED <<step, call>>
        BY <1>1, <2>1, <2>3, StayHealthy
    <2> QED BY <1>5, <2>2, <2>3 DEF Poll, Finish
<1> QED BY <1>4, <1>5 DEF Poll

LEMMA RetryHealthy ==
    ASSUME ScenarioInv, HealthyInv, Running, UNCHANGED <<chain, run, healthy>>, Retry,
           ~healthy \/ ~(run = 1 \/ Done("propose"))
    PROVE  HealthyInv'
BY RetryStays, StayHealthy

(***************************************************************************)
(* What a healthy run reads back is what it expects.                       *)
(***************************************************************************)
LEMMA AfterApprovalHealthy ==
    ASSUME ScenarioInv, HealthyInv, Running, UNCHANGED <<chain, run, healthy>>,
           step \in {"proposal", "honest"}, proposal.approved # {}, AfterApproval(proposal),
           healthy => Settled
    PROVE  HealthyInv'
<1>1. CASE proposal.status # "Executed" /\ Goto("execute", "send")
    <2>1. Ahead' \subseteq Ahead /\ "execute" \in Ahead
        BY <1>1 DEF Ahead, Goto
    <2>2. proposal.status = "Approved"
        BY <1>1 DEF ScenarioInv, OneProposal
    <2> QED BY <1>1, <2>1, <2>2, GotoHealthy DEF AsRead, Sends
<1>2. CASE Finish("passed")
    BY <1>2, StayHealthy DEF Finish, Passing
<1> QED BY <1>1, <1>2 DEF AfterApproval

LEMMA ReadingHealthy ==
    ASSUME ScenarioInv, HealthyInv,
           ReadVaultTransaction \/ ReadProposal \/ ReadRefused \/ ReadApproved \/ ReadBalance
    PROVE  HealthyInv'
<1>1. /\ UNCHANGED <<chain, run, healthy>> /\ Running /\ call = "read" /\ run \in 1..Runs
      /\ healthy => Settled
    BY DEF ReadVaultTransaction, ReadProposal, ReadRefused, ReadApproved, ReadBalance, Reading,
           At, ScenarioInv, TypeOK
<1>2. CASE ReadVaultTransaction
    <2>1. step = "vault transaction"
        BY <1>2 DEF ReadVaultTransaction, Reading, At
    <2>2. CASE Goto("proposal", "read")
        <3>1. Ahead' \subseteq Ahead
            BY <2>1, <2>2 DEF Ahead, Goto
        <3> QED BY <1>1, <2>2, <3>1, GotoHealthy DEF AsRead, Sends
    <2>3. CASE ~Done("propose") /\ Retry
        <3>1. run # 1
            BY <2>1, <2>3 DEF HealthyInv, ReadBack
        <3> QED BY <1>1, <2>3, <3>1, RetryHealthy
    <2> QED BY <1>2, <2>2, <2>3 DEF ReadVaultTransaction
<1>3. CASE ReadProposal
    <2>1. step = "proposal"
        BY <1>3 DEF ReadProposal, Reading, At
    <2>2. CASE proposal.approved = {} /\ Goto("tampered", "send")
        <3>1. Ahead' \subseteq Ahead /\ "tampered" \in Ahead
            BY <2>1, <2>2 DEF Ahead, Goto
        <3> QED BY <1>1, <2>2, <3>1, GotoHealthy DEF AsRead, Sends
    <2> QED BY <1>1, <1>3, <2>1, <2>2, AfterApprovalHealthy DEF ReadProposal
<1>4. CASE ReadRefused
    <2>1. step = "tampered"
        BY <1>4 DEF ReadRefused, Reading, At
    <2>2. CASE proposal.approved = {} /\ Goto("honest", "send")
        <3>1. Ahead' \subseteq Ahead /\ "honest" \in Ahead
            BY <2>1, <2>2 DEF Ahead, Goto
        <3> QED BY <1>1, <2>2, <3>1, GotoHealthy DEF AsRead, Sends
    <2>3. CASE proposal.approved # {} /\ Finish("vote despite failure")
        <3>1. status[run, "honest"] = "none"
            BY <2>1 DEF HealthyInv, SignedOnce, Ahead
        <3>2. ~healthy
            BY <2>1, <2>3, <3>1 DEF HealthyInv, Undisturbed
        <3> QED BY <1>1, <2>3, <3>2, StayHealthy DEF Finish
    <2> QED BY <1>4, <2>2, <2>3 DEF ReadRefused
<1>5. CASE ReadApproved
    <2>1. step = "honest"
        BY <1>5 DEF ReadApproved, Reading, At
    <2>2. proposal.approved = {wallet}
        BY <1>1, <2>1 DEF HealthyInv, ReadBack
    <2>3. Cardinality(proposal.approved) = 1
        BY <2>2, FS_Singleton
    <2> QED BY <1>1, <1>5, <2>1, <2>2, <2>3, AfterApprovalHealthy DEF ReadApproved
<1>6. CASE ReadBalance
    BY <1>1, <1>6, StayHealthy DEF ReadBalance, Finish, Reading, At, Passing
<1> QED BY <1>2, <1>3, <1>4, <1>5, <1>6

LEMMA ScriptHealthy ==
    ASSUME ScenarioInv, HealthyInv, Script
    PROVE  HealthyInv'
<1>1. CASE RpcFails
    BY <1>1, RetryHealthy DEF RpcFails, At
<1> QED BY <1>1, StartHealthy, SendHealthy, PollHealthy, ReadingHealthy DEF Script

(***************************************************************************)
(* A healthy run: the cluster.                                             *)
(***************************************************************************)
LEMMA OkEffect ==
    ASSUME ScenarioInv, HealthyInv, NEW r \in 1..Runs, NEW s \in Sends,
           status[r, s] = "pending", TransactionVerdict(s) = Ok, proposal' = Effect(s)
    PROVE  /\ s # "tampered"
           /\ proposal'.status # "None" \/ (proposal' = proposal /\ s # "propose")
           /\ proposal.approved = {wallet} \/ s = "honest" => proposal'.approved = {wallet}
           /\ s \notin {"propose", "honest", "execute"} => proposal' = proposal
<1>1. CASE s \in {"create", "fund"}
    BY <1>1 DEF Effect
<1>2. CASE s = "propose"
    <2>1. proposal.approved = {}
        BY <1>2, NotYetProposed, NotProposed DEF ScenarioInv, OneProposal
    <2> QED BY <1>2, <2>1 DEF Effect, NewProposal, NoProposal
<1>3. CASE s = "honest"
    <2>1. proposal.status = "Active" /\ proposal \in Proposal
        BY <1>3 DEF TransactionVerdict, VoteVerdict, Require, &&, Ok, ScenarioInv, TypeOK
    <2>2. proposal.approved = {}
        BY <2>1 DEF ScenarioInv, OneProposal
    <2>3. proposal' = Approved(proposal, wallet) /\ proposal.approved \cup {wallet} = {wallet}
        BY <1>3, <2>2 DEF Effect, Voted
    <2>4. proposal'.approved = {wallet} /\ proposal'.status = "Approved"
        BY <2>1, <2>3, OneIsEnough DEF Approved, Proposal
    <2> QED BY <1>3, <2>4
<1>4. CASE s = "execute"
    <2>1. proposal \in Proposal /\ proposal' = [proposal EXCEPT !.status = "Executed"]
        BY <1>4 DEF Effect, ScenarioInv, TypeOK
    <2> QED BY <1>4, <2>1 DEF Proposal
<1>5. s # "tampered"
    BY DEF TransactionVerdict, Ok
<1> QED BY <1>1, <1>2, <1>3, <1>4, <1>5 DEF Sends

Becomes(s, how) ==
    \/ how = "expired" /\ ~healthy /\ UNCHANGED proposal
    \/ how = "failed" /\ TransactionVerdict(s) # Ok /\ UNCHANGED proposal
    \/ how = "ok" /\ TransactionVerdict(s) = Ok /\ proposal' = Effect(s)

LEMMA SettlingHealthy ==
    ASSUME ScenarioInv, HealthyInv, NEW r \in 1..Runs, NEW s \in Sends,
           NEW how \in Landed \cup {"expired"}, status[r, s] = "pending",
           status' = [status EXCEPT ![<<r, s>>] = how],
           UNCHANGED <<run, healthy, script>>, Becomes(s, how)
    PROVE  HealthyInv'
<1>1. /\ Kept /\ status' \in [Transactions -> Statuses] /\ status'[r, s] = how
      /\ \A r2 \in 1..Runs, s2 \in Sends :
            status'[r2, s2] # status[r2, s2] => r2 = r /\ s2 = s
    BY StatusWrite
<1>2. /\ UNCHANGED <<run, healthy, step, call, outcome>> /\ run \in 1..Runs
      /\ healthy \in BOOLEAN
    BY DEF script, ScenarioInv, TypeOK
<1>3. /\ how = "ok" =>
            /\ s # "tampered"
            /\ proposal'.status # "None" \/ (proposal' = proposal /\ s # "propose")
            /\ proposal.approved = {wallet} \/ s = "honest" => proposal'.approved = {wallet}
            /\ s \notin {"propose", "honest", "execute"} => proposal' = proposal
      /\ how # "ok" => proposal' = proposal
    BY OkEffect DEF Landed, Becomes
<1>4. \A s2 \in Sends : /\ Done(s2) => Done(s2)'
                        /\ Done(s2)' => Done(s2) \/ (how = "ok" /\ s2 = s)
    BY <1>1, DoneStays DEF Done
<1>5. SignedOnce'
    <2>1. Ahead' = Ahead /\ Ahead \subseteq Sends
        BY <1>2 DEF Ahead, Sends
    <2>2. \A r2 \in 1..Runs, s2 \in Sends : status[r2, s2] = "none" => status'[r2, s2] = "none"
        BY <1>1 DEF Kept
    <2>3. SignedOnce
        BY DEF HealthyInv
    <2> QED BY <1>2, <2>1, <2>2, <2>3 DEF SignedOnce
<1>6. ReadBack'
    <2>1. Done("propose")' => proposal'.status # "None"
        BY <1>3, <1>4 DEF HealthyInv, ReadBack, Sends
    <2>2. Done("honest")' => proposal'.approved = {wallet}
        BY <1>3, <1>4 DEF HealthyInv, ReadBack, Sends
    <2>3. \A r2 \in 1..Runs : status'[r2, "tampered"] # "ok"
        BY <1>1, <1>3 DEF HealthyInv, ReadBack, Sends
    <2> QED BY <1>2, <1>4, <2>1, <2>2, <2>3 DEF HealthyInv, ReadBack, Sends
<1>7. ASSUME healthy PROVE Undisturbed'
    <2>1. Undisturbed /\ r = run /\ s = step /\ how # "expired"
        BY <1>7 DEF HealthyInv, Undisturbed, Becomes
    <2>2. how = "failed" => s = "tampered"
        BY <1>7, <2>1, HonestOk DEF Becomes
    <2>3. \A r2 \in 1..Runs, s2 \in Sends : status'[r2, s2] # "pending"
        <3> SUFFICES ASSUME NEW r2 \in 1..Runs, NEW s2 \in Sends, status'[r2, s2] = "pending"
                     PROVE  FALSE
            OBVIOUS
        <3>1. CASE r2 = r /\ s2 = s
            BY <1>1, <2>1, <3>1 DEF Landed
        <3>2. CASE ~(r2 = r /\ s2 = s)
            BY <1>1, <2>1, <3>2 DEF Undisturbed
        <3> QED BY <3>1, <3>2
    <2>4. \A s2 \in Sends :
             status'[run, s2] # "expired" /\ (status'[run, s2] = "failed" => s2 = "tampered")
        BY <1>1, <1>2, <2>1, <2>2 DEF Undisturbed
    <2>5. step \in {"tampered", "honest"} /\ status'[run, "honest"] # "ok" =>
              status[run, "honest"] # "ok" /\ proposal' = proposal
        BY <1>1, <1>2, <1>3, <2>1 DEF Sends, Landed
    <2>6. step = "execute" /\ status'[run, "execute"] # "ok" => FALSE
        BY <1>1, <2>1, <2>2 DEF Landed
    <2>7. call # "send"
        BY <2>1 DEF Undisturbed
    <2> QED BY <1>2, <2>1, <2>3, <2>4, <2>5, <2>6, <2>7 DEF Undisturbed
<1>8. healthy' => Undisturbed'
    <2>1. healthy' = healthy
        BY <1>2
    <2>2. CASE healthy = TRUE
        BY <1>7, <2>2
    <2>3. CASE healthy = FALSE
        BY <2>1, <2>3
    <2> QED BY <1>2, <2>2, <2>3
<1>9. HealthyRunPasses'
    <2>1. healthy /\ s = "propose" => run = 1
        BY DEF HealthyInv, Undisturbed, ScenarioInv, FirstRunOnly
    <2>2. healthy /\ (run = 1 \/ Done("propose")') => run = 1 \/ Done("propose")
        BY <1>4, <2>1 DEF Sends
    <2>3. healthy /\ (run = 1 \/ Done("propose")') => outcome \in Passing
        BY <2>2 DEF HealthyInv, HealthyRunPasses, Passing
    <2>4. CASE healthy = TRUE
        BY <1>2, <2>3, <2>4 DEF HealthyRunPasses, Passing
    <2>5. CASE healthy = FALSE
        BY <1>2, <2>5 DEF HealthyRunPasses
    <2> QED BY <1>2, <2>4, <2>5
<1> QED BY <1>5, <1>6, <1>8, <1>9 DEF HealthyInv

LEMMA ClusterHealthy ==
    ASSUME ScenarioInv, HealthyInv, Cluster
    PROVE  HealthyInv'
<1>1. PICK r \in 1..Runs, s \in Sends : Land(<<r, s>>) \/ Expire(<<r, s>>)
    BY DEF Cluster, Transactions
<1>2. <<r, s>>[2] = s
    OBVIOUS
<1>3. CASE Land(<<r, s>>)
    BY <1>2, <1>3, SettlingHealthy DEF Land, Landed, Becomes
<1>4. CASE Expire(<<r, s>>)
    BY <1>4, SettlingHealthy DEF Expire, Becomes
<1> QED BY <1>1, <1>3, <1>4

LEMMA InterruptHealthy ==
    ASSUME ScenarioInv, HealthyInv, Interrupt
    PROVE  HealthyInv'
BY StayHealthy DEF Interrupt, Passing

LEMMA ResumeHealthy ==
    ASSUME ScenarioInv, HealthyInv, Resume
    PROVE  HealthyInv'
<1>1. /\ UNCHANGED <<proposal, status>> /\ step' = "start" /\ call' = "read"
      /\ outcome' = "running" /\ healthy' \in BOOLEAN /\ run' = run + 1
      /\ healthy' => Settled
    BY DEF Resume, chain
<1>2. run \in 1..Runs /\ run' \in 1..Runs /\ run' > run /\ run' # 1 /\ Runs \in Nat
    <2>1. run \in 1..Runs /\ run < Runs /\ run' = run + 1 /\ Runs \in Nat
        BY ScenarioAssumption DEF ScenarioInv, TypeOK, Resume
    <2> QED BY <2>1
<1>3. \A r \in 1..Runs, s \in Sends : r = run' \/ r > run' => status'[r, s] = "none"
    <2> SUFFICES ASSUME NEW r \in 1..Runs, NEW s \in Sends, r = run' \/ r > run'
                 PROVE  status'[r, s] = "none"
        OBVIOUS
    <2>1. r > run
        BY <1>2
    <2> QED BY <1>1, <2>1 DEF HealthyInv, SignedOnce
<1>4. SignedOnce'
    <2>1. Ahead' = Sends
        BY <1>1 DEF Ahead
    <2> QED BY <1>2, <1>3, <2>1 DEF SignedOnce
<1>5. ReadBack'
    BY <1>1, <1>2 DEF HealthyInv, ReadBack, Done
<1>6. ASSUME healthy' PROVE Undisturbed'
    <2>1. \A r \in 1..Runs, s \in Sends : status'[r, s] # "pending"
        BY <1>1, <1>6 DEF Settled, Transactions
    <2>2. \A s \in Sends : status'[run', s] = "none"
        BY <1>2, <1>3
    <2> QED BY <1>1, <2>1, <2>2 DEF Undisturbed
<1>7. HealthyRunPasses'
    BY <1>1 DEF HealthyRunPasses
<1> QED BY <1>4, <1>5, <1>6, <1>7 DEF HealthyInv

LEMMA InitHealthy == Init => HealthyInv
<1> SUFFICES ASSUME Init PROVE HealthyInv
    OBVIOUS
<1>1. \A r \in 1..Runs, s \in Sends : status[r, s] = "none"
    BY DEF Init, Transactions
<1>2. run \in 1..Runs /\ Ahead = Sends
    BY Bounds DEF Init, Ahead
<1>3. SignedOnce /\ Undisturbed
    BY <1>1, <1>2 DEF Init, SignedOnce, Undisturbed
<1>4. ReadBack /\ HealthyRunPasses
    BY <1>1 DEF Init, ReadBack, HealthyRunPasses, Done, Sends
<1> QED BY <1>3, <1>4 DEF HealthyInv

LEMMA StutterHealthy == ScenarioInv /\ HealthyInv /\ UNCHANGED vars => HealthyInv'
<1> SUFFICES ASSUME ScenarioInv, HealthyInv, UNCHANGED vars PROVE HealthyInv'
    OBVIOUS
<1>1. UNCHANGED <<chain, run, healthy, step, call>> /\ outcome' = outcome
    BY DEF vars, script
<1>2. healthy /\ (run = 1 \/ Done("propose")) => outcome' \in Passing
    BY <1>1 DEF HealthyInv, HealthyRunPasses, Passing
<1> QED BY <1>1, <1>2, StayHealthy

(***************************************************************************)
(* Nothing disturbs a run on a healthy node (e2e.cjs:135, 233-302): what   *)
(* it has read remains true until its own transaction has landed.          *)
(***************************************************************************)
THEOREM HealthyInvariant == Spec => []HealthyInv
<1>1. Init => HealthyInv
    BY InitHealthy
<1>2. ScenarioInv /\ HealthyInv /\ [Next]_vars => HealthyInv'
    BY ScriptHealthy, ClusterHealthy, InterruptHealthy, ResumeHealthy, StutterHealthy DEF Next
<1> QED BY <1>1, <1>2, ScenarioInvariant, PTL DEF Spec

(***************************************************************************)
(* The scenario can be resumed to its end (README.md:232-235): a run on a  *)
(* healthy node does not fail, whatever the runs before it have left       *)
(* behind and whenever what they sent has landed.                          *)
(***************************************************************************)
THEOREM HealthyRunsPass == Spec => []HealthyRunPasses
<1>1. HealthyInv => HealthyRunPasses
    BY DEF HealthyInv
<1> QED BY <1>1, HealthyInvariant, PTL

(***************************************************************************)
(* The counters stay in the bounds of their loops, and what is polled has  *)
(* been sent (e2e.cjs:45-57, 66-83).                                       *)
(***************************************************************************)
THEOREM TypeCorrect == Spec => []TypeOK
<1>1. ScenarioInv => TypeOK
    BY DEF ScenarioInv
<1> QED BY <1>1, ScenarioInvariant, PTL

(***************************************************************************)
(* No loop starts over: each call brings a run nearer to its end.          *)
(***************************************************************************)
LEMMA RetryAdvances ==
    ASSUME TypeOK, Retry
    PROVE  Advances
<1>1. tries \in Nat
    <2>1. tries \in 0..(Tries - 1)
        BY DEF TypeOK
    <2> QED BY <2>1, ScenarioAssumption
<1>2. CASE tries' = tries + 1 /\ UNCHANGED <<step, call, polls, outcome>>
    BY <1>1, <1>2 DEF Advances
<1>3. CASE Finish("rpc error")
    BY <1>3 DEF Finish, Advances
<1> QED BY <1>2, <1>3 DEF Retry

LEMMA GotoAdvances ==
    ASSUME NEW s, NEW c, Goto(s, c),
           Place(s) > Place(step) \/ (s = step /\ Turn(c) > Turn(call))
    PROVE  Advances
BY DEF Goto, Advances

LEMMA FinishAdvances ==
    ASSUME NEW how, how # "running", Finish(how)
    PROVE  Advances
BY DEF Finish, Advances

LEMMA AfterApprovalAdvances ==
    ASSUME NEW p, AfterApproval(p), step \in {"proposal", "honest"}
    PROVE  Advances
<1>1. CASE Goto("execute", "send")
    <2>1. Place("execute") > Place(step)
        <3>1. Place("execute") = 9
            BY DEF Place
        <3>2. Place("proposal") = 6 /\ Place("honest") = 8
            BY DEF Place
        <3>3. 9 > 6 /\ 9 > 8
            OBVIOUS
        <3> QED BY <3>1, <3>2, <3>3, Zenon
    <2> QED BY <1>1, <2>1, GotoAdvances, Zenon
<1>2. CASE Finish("passed")
    BY <1>2, FinishAdvances
<1> QED BY <1>1, <1>2 DEF AfterApproval

LEMMA SendAdvances ==
    ASSUME TypeOK, NEW s \in Sends, Send(s)
    PROVE  Advances
<1>1. step = s /\ call = "send"
    BY DEF Send, At
<1>2. Goto(s, "status") \/ Retry
    BY DEF Send
<1>3. CASE Goto(s, "status")
    BY <1>1, <1>3, GotoAdvances DEF Turn
<1>4. CASE Retry
    BY <1>4, RetryAdvances
<1> QED BY <1>2, <1>3, <1>4

LEMMA AfterSendingAdvances ==
    ASSUME NEW s \in Sends, step = s, call = "status", AfterSending(s)
    PROVE  Advances
<1>1. CASE s = "create"
    <2>1. Goto("fund", "send") /\ Place("fund") > Place(step)
        BY <1>1 DEF AfterSending, Place
    <2> QED BY <2>1, GotoAdvances, Zenon
<1>2. CASE s = "fund"
    <2>1. Goto("propose", "send") /\ Place("propose") > Place(step)
        BY <1>2 DEF AfterSending, Place
    <2> QED BY <2>1, GotoAdvances, Zenon
<1>3. CASE s = "propose"
    <2>1. Goto("vault transaction", "read")
        BY <1>3 DEF AfterSending
    <2>2. Place("vault transaction") > Place(step)
        <3>1. Place("vault transaction") = 5
            BY DEF Place
        <3>2. Place(step) = 4
            BY <1>3 DEF Place
        <3>3. 5 > 4
            OBVIOUS
        <3> QED BY <3>1, <3>2, <3>3, Zenon
    <2> QED BY <2>1, <2>2, GotoAdvances, Zenon
<1>4. CASE s \in {"tampered", "honest", "execute"}
    <2>1. Goto(s, "read")
        BY <1>4 DEF AfterSending
    <2> QED BY <2>1, GotoAdvances DEF Turn
<1> QED BY <1>1, <1>2, <1>3, <1>4 DEF Sends

LEMMA PollAdvances ==
    ASSUME TypeOK, NEW s \in Sends, Poll(s)
    PROVE  Advances
<1>1. step = s /\ call = "status" /\ polls \in Nat
    <2>1. polls \in 0..(Polls - 1)
        BY DEF TypeOK
    <2>2. step = s /\ call = "status"
        BY DEF Poll, At
    <2> QED BY <2>1, <2>2, ScenarioAssumption
<1>2. CASE AfterSending(s)
    BY <1>1, <1>2, AfterSendingAdvances
<1>3. CASE polls' = NextPoll /\ UNCHANGED <<step, call, outcome>>
    BY <1>1, <1>3 DEF NextPoll, Advances
<1>4. CASE Finish("unexpected status") \/ Finish("timed out")
    BY <1>4, FinishAdvances
<1> QED BY <1>2, <1>3, <1>4 DEF Poll

LEMMA ReadingAdvances ==
    ASSUME TypeOK,
           Start \/ ReadVaultTransaction \/ ReadProposal \/ ReadRefused \/ ReadApproved
           \/ ReadBalance
    PROVE  Advances
<1>1. CASE Start
    <2>1. step = "start"
        BY <1>1 DEF Start, Reading, At
    <2>2. CASE Finish("not ready")
        BY <2>2, FinishAdvances
    <2>3. CASE Goto("create", "send") \/ Goto("vault transaction", "read")
        <3>1. Place("create") > Place(step) /\ Place("vault transaction") > Place(step)
            BY <2>1 DEF Place
        <3> QED BY <2>3, <3>1, GotoAdvances, Zenon
    <2> QED BY <1>1, <2>2, <2>3 DEF Start
<1>2. CASE ReadVaultTransaction
    <2>1. step = "vault transaction"
        BY <1>2 DEF ReadVaultTransaction, Reading, At
    <2>2. CASE Goto("proposal", "read")
        <3>1. Place("proposal") > Place(step)
            <4>1. Place("proposal") = 6
                BY DEF Place
            <4>2. Place(step) = 5
                BY <2>1 DEF Place
            <4>3. 6 > 5
                OBVIOUS
            <4> QED BY <4>1, <4>2, <4>3, Zenon
        <3> QED BY <2>2, <3>1, GotoAdvances, Zenon
    <2> QED BY <1>2, <2>2, RetryAdvances DEF ReadVaultTransaction
<1>3. CASE ReadProposal
    <2>1. step = "proposal"
        BY <1>3 DEF ReadProposal, Reading, At
    <2>2. CASE Goto("tampered", "send")
        <3>1. Place("tampered") > Place(step)
            BY <2>1 DEF Place
        <3> QED BY <2>2, <3>1, GotoAdvances, Zenon
    <2> QED BY <1>3, <2>1, <2>2, AfterApprovalAdvances DEF ReadProposal
<1>4. CASE ReadRefused
    <2>1. step = "tampered"
        BY <1>4 DEF ReadRefused, Reading, At
    <2>2. CASE Goto("honest", "send")
        <3>1. Place("honest") > Place(step)
            BY <2>1 DEF Place
        <3> QED BY <2>2, <3>1, GotoAdvances, Zenon
    <2> QED BY <1>4, <2>2, FinishAdvances DEF ReadRefused
<1>5. CASE ReadApproved
    <2>1. step = "honest"
        BY <1>5 DEF ReadApproved, Reading, At
    <2> QED BY <1>5, <2>1, AfterApprovalAdvances, FinishAdvances DEF ReadApproved
<1>6. CASE ReadBalance
    BY <1>6, FinishAdvances DEF ReadBalance
<1> QED BY <1>1, <1>2, <1>3, <1>4, <1>5, <1>6

(***************************************************************************)
(* Whatever the node answers, and whatever interrupted runs have left      *)
(* behind, no call takes a run back (e2e.cjs:45-57, 66-83).                *)
(***************************************************************************)
THEOREM ScenarioAdvances == Spec => EachCallAdvances
<1>1. ASSUME TypeOK, Script PROVE Advances
    <2>1. CASE RpcFails
        BY <1>1, <2>1, RetryAdvances DEF RpcFails
    <2>2. CASE \E s \in Sends : Send(s) \/ Poll(s)
        BY <1>1, <2>2, SendAdvances, PollAdvances
    <2> QED BY <1>1, <2>1, <2>2, ReadingAdvances DEF Script
<1>2. TypeOK /\ [Next]_vars => [Script => Advances]_vars
    BY <1>1
<1> QED BY <1>2, TypeCorrect, PTL DEF Spec, EachCallAdvances
=============================================================================
