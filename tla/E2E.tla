-------------------------------- MODULE E2E ---------------------------------
(***************************************************************************)
(* e2e.cjs: the end-to-end scenario, which may be interrupted anywhere and *)
(* run again on the multisig of its first run. A transaction is named by   *)
(* the run that signed it and the step it is for: each is signed once, and *)
(* may land long after its run has ended.                                  *)
(*                                                                         *)
(* Calls whose result decides nothing (blockhashes, balances, logs) are    *)
(* merged with the call that follows them.                                 *)
(***************************************************************************)
EXTENDS SquadsRuntime

CONSTANTS
    wallet,
    Tries,          \* tries of withRetry: 8 in the script
    Polls,          \* polls for the status of a signature: 40
    Runs            \* bound: the first run and those that resume it

ASSUME ScenarioAssumption ==
    /\ Members = {wallet} /\ Threshold = 1
    /\ Tries \in Nat \ {0} /\ Polls \in Nat \ {0} /\ Runs \in Nat \ {0}

VARIABLES
    proposal,       \* the proposal on chain
    status,         \* the transactions, by run and step
    run,            \* the number of the run
    healthy,        \* whether the node answers all of this run
    step, call,     \* the step the script is at, and the call it makes
    tries, polls,   \* its loop counters
    outcome         \* "running", or how it ended

chain == <<proposal, status>>
script == <<step, call, tries, polls, outcome>>
vars == <<chain, run, healthy, script>>

Sends == {"create", "fund", "propose", "tampered", "honest", "execute"}
Transactions == (1..Runs) \X Sends
Landed == {"ok", "failed"}

Done(s) == \E r \in 1..Runs : status[r, s] = "ok"
Settled == \A t \in Transactions : status[t] # "pending"

-----------------------------------------------------------------------------
(***************************************************************************)
(* The cluster: what becomes of a transaction.                             *)
(***************************************************************************)
TransactionVerdict(s) ==
    CASE s = "tampered" -> "DataMismatch"
      [] s = "honest"   -> VoteVerdict(proposal, wallet, "Approve")
      [] s = "execute"  -> Require(proposal.status = "Approved", "InvalidProposalStatus")
                           && Require(Done("fund"), "InsufficientFunds")
      [] OTHER          -> Ok

Effect(s) ==
    CASE s = "propose" -> NewProposal
      [] s = "honest"  -> Voted(proposal, wallet, "Approve")
      [] s = "execute" -> [proposal EXCEPT !.status = "Executed"]
      [] OTHER         -> proposal

Land(t) ==
    /\ status[t] = "pending"
    /\ \/ /\ TransactionVerdict(t[2]) = Ok
          /\ status' = [status EXCEPT ![t] = "ok"] /\ proposal' = Effect(t[2])
       \/ /\ TransactionVerdict(t[2]) # Ok
          /\ status' = [status EXCEPT ![t] = "failed"] /\ UNCHANGED proposal
    /\ UNCHANGED <<run, healthy, script>>

Expire(t) ==
    /\ ~healthy
    /\ status[t] = "pending" /\ status' = [status EXCEPT ![t] = "expired"]
    /\ UNCHANGED <<proposal, run, healthy, script>>

-----------------------------------------------------------------------------
(***************************************************************************)
(* The script. A healthy node answers each call, and has settled what it   *)
(* was sent before the next one.                                           *)
(***************************************************************************)
Running == outcome = "running"

At(s, c) ==
    /\ Running
    /\ step = s /\ call = c
    /\ healthy => Settled
    /\ UNCHANGED <<run, healthy>>

Reading(s) == At(s, "read") /\ UNCHANGED chain

Goto(s, c) ==
    /\ step' = s /\ call' = c /\ tries' = 0 /\ polls' = 0
    /\ UNCHANGED outcome

Finish(how) == outcome' = how /\ UNCHANGED <<step, call, tries, polls>>

\* Mutant: one try too many.
Retry_OneMore ==
    \/ tries < Tries /\ tries' = tries + 1 /\ UNCHANGED <<step, call, polls, outcome>>
    \/ tries >= Tries /\ Finish("rpc error")

Retry ==
    \/ tries < Tries - 1 /\ tries' = tries + 1 /\ UNCHANGED <<step, call, polls, outcome>>
    \/ tries >= Tries - 1 /\ Finish("rpc error")

RpcFails ==
    /\ At(step, call)
    /\ ~healthy
    /\ Retry
    /\ UNCHANGED chain

(***************************************************************************)
(* The wallet must hold enough, and the program be deployed. A resumed run *)
(* goes on behind the three steps that set the scenario up.                *)
(***************************************************************************)
Start ==
    /\ Reading("start")
    /\ \/ ~healthy /\ Finish("not ready")
       \/ run = 1 /\ Goto("create", "send")
       \/ run > 1 /\ Goto("vault transaction", "read")

(***************************************************************************)
(* sendTx sends one signed transaction until the node takes it; a node     *)
(* that has seen it land says so, which is as good, but not for the        *)
(* execution, which is sent without sendTx.                                *)
(***************************************************************************)
\* Mutant: the tampered approval is simulated first, and never leaves.
skipPreflight_Never(s) == FALSE

skipPreflight(s) == s = "tampered"

NodeTakes(s) ==
    /\ status[run, s] \notin Landed
    /\ skipPreflight(s) \/ (status[run, s] # "expired" /\ TransactionVerdict(s) = Ok)

Send(s) ==
    /\ At(s, "send")
    /\ \/ /\ NodeTakes(s)
          /\ status' = [status EXCEPT ![<<run, s>>] = IF @ = "none" THEN "pending" ELSE @]
          /\ \/ Goto(s, "status")
             \/ ~healthy /\ Retry
       \/ /\ status[run, s] \in Landed
          /\ IF s = "execute" THEN Retry ELSE Goto(s, "status")
          /\ UNCHANGED status
       \/ /\ status[run, s] \notin Landed /\ ~NodeTakes(s)
          /\ Retry
          /\ UNCHANGED status
    /\ UNCHANGED proposal

(***************************************************************************)
(* The status of the signature decides, when there is one: the tampered    *)
(* approval must have failed, the others must not. When there is none,     *)
(* sendTx gives up, and the loop of the execution is left as if it had.    *)
(***************************************************************************)
\* Mutants: polls that run out in silence for every step, or start again.
GivesUp_Never(s) == FALSE
NextPoll_Wraps == (polls + 1) % Polls

AsExpected(s) == (status[run, s] = "failed") <=> (s = "tampered")
GivesUp(s) == s # "execute"
NextPoll == polls + 1

AfterSending(s) ==
    CASE s = "create"  -> Goto("fund", "send")
      [] s = "fund"    -> Goto("propose", "send")
      [] s = "propose" -> Goto("vault transaction", "read")
      [] OTHER         -> Goto(s, "read")

Poll(s) ==
    /\ At(s, "status")
    /\ \/ status[run, s] \in Landed /\ AsExpected(s) /\ AfterSending(s)
       \/ status[run, s] \in Landed /\ ~AsExpected(s) /\ Finish("unexpected status")
       \/ /\ status[run, s] \notin Landed
          /\ IF NextPoll < Polls
             THEN polls' = NextPoll /\ tries' = 0 /\ UNCHANGED <<step, call, outcome>>
             ELSE IF GivesUp(s) THEN Finish("timed out") ELSE AfterSending(s)
    /\ UNCHANGED chain

(***************************************************************************)
(* What the script reads back, and where it goes from there.               *)
(***************************************************************************)
\* Mutants: what is executed is executed again; what is approved is not
\* executed; it is approved again.
AfterApproval_Executes(p) == Goto("execute", "send")
AfterApproval_Passes(p) == IF p.status = "Active" THEN Goto("execute", "send") ELSE Finish("passed")
AfterApproval_Again(p) == IF p.status # "Executed" THEN Goto("honest", "send") ELSE Finish("passed")

AfterApproval(p) ==
    IF p.status # "Executed" THEN Goto("execute", "send") ELSE Finish("passed")

ReadVaultTransaction ==
    /\ Reading("vault transaction")
    /\ IF Done("propose") THEN Goto("proposal", "read") ELSE Retry

ReadProposal ==
    /\ Reading("proposal")
    /\ IF proposal.approved = {} THEN Goto("tampered", "send")
       ELSE AfterApproval(proposal)

ReadRefused ==
    /\ Reading("tampered")
    /\ IF proposal.approved = {} THEN Goto("honest", "send")
       ELSE Finish("vote despite failure")

ReadApproved ==
    /\ Reading("honest")
    /\ IF Cardinality(proposal.approved) = 1 THEN AfterApproval(proposal)
       ELSE Finish("not one approval")

ReadBalance == Reading("execute") /\ Finish("passed")

(***************************************************************************)
(* An interruption, and a run with RESUME_MULTISIG: the address is known   *)
(* once the first run has printed it.                                      *)
(***************************************************************************)
Interrupt ==
    /\ Running
    /\ outcome' = "interrupted"
    /\ UNCHANGED <<chain, run, healthy, step, call, tries, polls>>

AddressPrinted == run > 1 \/ step \notin {"start", "create"}

Resume ==
    /\ ~Running
    /\ run < Runs /\ AddressPrinted
    /\ run' = run + 1 /\ healthy' \in {h \in BOOLEAN : h => Settled}
    /\ step' = "start" /\ call' = "read" /\ tries' = 0 /\ polls' = 0
    /\ outcome' = "running"
    /\ UNCHANGED chain

-----------------------------------------------------------------------------
Init ==
    /\ proposal = NoProposal
    /\ status = [t \in Transactions |-> "none"]
    /\ run = 1 /\ healthy \in BOOLEAN
    /\ step = "start" /\ call = "read" /\ tries = 0 /\ polls = 0
    /\ outcome = "running"

Script ==
    \/ RpcFails \/ Start
    \/ \E s \in Sends : Send(s) \/ Poll(s)
    \/ ReadVaultTransaction \/ ReadProposal \/ ReadRefused \/ ReadApproved
    \/ ReadBalance

Cluster == \E t \in Transactions : Land(t) \/ Expire(t)

Next == Script \/ Cluster \/ Interrupt \/ Resume

(***************************************************************************)
(* Fairness: a call to the node returns or fails, and the script goes on;  *)
(* a healthy node settles what it was sent.                                *)
(***************************************************************************)
Settles == healthy /\ \E t \in Transactions : Land(t)

Spec == Init /\ [][Next]_vars /\ WF_vars(Script) /\ WF_vars(Settles)

-----------------------------------------------------------------------------
(***************************************************************************)
(* TypeOK, with what ties the step to the chain: a signature is polled     *)
(* that was sent in this run.                                              *)
(***************************************************************************)
TypeOK ==
    /\ proposal \in Proposal
    /\ status \in [Transactions -> Landed \cup {"none", "pending", "expired"}]
    /\ run \in 1..Runs /\ healthy \in BOOLEAN
    /\ step \in Sends \cup {"start", "vault transaction", "proposal"}
    /\ call \in {"send", "status", "read"}
    /\ tries \in 0..(Tries - 1) /\ polls \in 0..(Polls - 1)
    /\ outcome \in {"running", "interrupted", "not ready", "rpc error", "timed out",
                    "unexpected status", "vote despite failure", "not one approval",
                    "passed"}
    /\ call = "status" => step \in Sends /\ status[run, step] # "none"

Refused == \E r \in 1..Runs : status[r, "tampered"] = "failed"

(***************************************************************************)
(* Never approved before a refusal was seen (e2e.cjs:9-11, 302): whatever  *)
(* interruptions and late landings there were, the proposal has a vote     *)
(* only once a tampered approval has failed on chain.                      *)
(***************************************************************************)
RefusedBeforeApproved == proposal.approved # {} => Refused

(***************************************************************************)
(* What "E2E PASSED" says (e2e.cjs:302) as far as the script sees to it:   *)
(* the proposal has the wallet's vote, and is executed, unless the         *)
(* execution of this run is still under way or was lost.                   *)
(***************************************************************************)
PassedMeansApproved ==
    outcome = "passed" =>
        /\ proposal.approved = {wallet}
        /\ proposal.status = "Executed" \/ status[run, "execute"] \in {"pending", "expired"}

(***************************************************************************)
(* Why: the first run sets the scenario up, the steps are taken in order   *)
(* whoever takes them, and there is one proposal, which only goes forward. *)
(***************************************************************************)
FirstRunOnly ==
    /\ step \in {"create", "fund", "propose"} => run = 1
    /\ \A r \in 1..Runs, s \in {"create", "fund", "propose"} :
          r # 1 => status[r, s] = "none"

InOrder ==
    /\ step = "propose" \/ (\E r \in 1..Runs : status[r, "propose"] # "none") => Done("fund")
    /\ step \in {"proposal", "tampered", "honest", "execute"} => Done("propose")
    /\ \/ step = "honest" \/ (step = "tampered" /\ call = "read")
       \/ \E r \in 1..Runs : status[r, "honest"] # "none"
       => Refused
    /\ step = "execute" => proposal.approved = {wallet}

OneProposal ==
    /\ Done("propose") \/ proposal = NoProposal
    /\ \/ proposal.approved = {} /\ proposal.status \in {"None", "Active"}
       \/ proposal.approved = {wallet} /\ proposal.status \in {"Approved", "Executed"}
    /\ \A r \in 1..Runs : status[r, "execute"] = "ok" => proposal.status = "Executed"

UnderWay ==
    step = "execute" /\ call = "read" =>
        proposal.status = "Executed" \/ status[run, "execute"] \in {"pending", "expired"}

(***************************************************************************)
(* Together they are inductive, and imply what the scenario is run for     *)
(* (e2e.cjs:9-12, 302).                                                    *)
(***************************************************************************)
ScenarioInv ==
    /\ TypeOK /\ FirstRunOnly /\ InOrder /\ OneProposal /\ UnderWay
    /\ RefusedBeforeApproved /\ PassedMeansApproved

(***************************************************************************)
(* A scenario can always be resumed to its end (README.md:232-235): a run  *)
(* on a healthy node, whatever the runs before it have left behind, does   *)
(* not fail. It does if the vault transaction had not been created, which  *)
(* a resumed run takes for granted (e2e.cjs:135).                          *)
(***************************************************************************)
HealthyRunPasses ==
    healthy /\ (run = 1 \/ Done("propose")) =>
        outcome \in {"running", "interrupted", "passed"}

(***************************************************************************)
(* Why: a run signs each step once, and reads back what it has waited for. *)
(***************************************************************************)
Ahead ==
    CASE step = "start"    -> Sends
      [] step = "create"   -> Sends \ {"create"}
      [] step = "fund"     -> Sends \ {"create", "fund"}
      [] step = "tampered" -> {"honest", "execute"}
      [] step = "honest"   -> {"execute"}
      [] step = "execute"  -> {}
      [] OTHER             -> {"tampered", "honest", "execute"}

SignedOnce ==
    /\ \A s \in Ahead : status[run, s] = "none"
    /\ \A r \in 1..Runs, s \in Sends : r > run => status[r, s] = "none"

ReadBack ==
    /\ Done("propose") => proposal.status # "None"
    /\ Done("honest") => proposal.approved = {wallet}
    /\ \A r \in 1..Runs : status[r, "tampered"] # "ok"
    /\ run = 1 /\ step = "vault transaction" => Done("propose")
    /\ step = "honest" /\ call = "read" => Done("honest")

(***************************************************************************)
(* Nothing but its own transaction is under way during a healthy run, so   *)
(* that the proposal stays as it was read until the transaction lands.     *)
(***************************************************************************)
Undisturbed ==
    /\ \A r \in 1..Runs, s \in Sends :
          status[r, s] = "pending" => r = run /\ s = step /\ call = "status"
    /\ call = "send" => step \in Sends /\ status[run, step] = "none"
    /\ \A s \in Sends :
          status[run, s] # "expired" /\ (status[run, s] = "failed" => s = "tampered")
    /\ step \in {"tampered", "honest"} /\ status[run, "honest"] # "ok" =>
          proposal.approved = {}
    /\ step = "execute" /\ status[run, "execute"] # "ok" => proposal.status = "Approved"

(***************************************************************************)
(* Together, beside ScenarioInv, they are inductive, and imply that a      *)
(* healthy run does not fail (README.md:232-235).                          *)
(***************************************************************************)
HealthyInv ==
    /\ SignedOnce /\ ReadBack
    /\ healthy => Undisturbed
    /\ HealthyRunPasses

(***************************************************************************)
(* Every run ends, whatever the node does.                                 *)
(***************************************************************************)
Terminates == []<>(outcome # "running")

(***************************************************************************)
(* Why: no call takes a run back, whatever the node answers and earlier    *)
(* runs have left behind. It goes to a later step, to the next call of its *)
(* step, to the next poll or to the next try (e2e.cjs:45-57, 66-83).       *)
(***************************************************************************)
Place(s) ==
    CASE s = "start"             -> 1
      [] s = "create"            -> 2
      [] s = "fund"              -> 3
      [] s = "propose"           -> 4
      [] s = "vault transaction" -> 5
      [] s = "proposal"          -> 6
      [] s = "tampered"          -> 7
      [] s = "honest"            -> 8
      [] OTHER                   -> 9

Turn(c) == CASE c = "send" -> 1 [] c = "status" -> 2 [] OTHER -> 3

Advances ==
    \/ outcome' # "running"
    \/ Place(step') > Place(step)
    \/ step' = step /\ Turn(call') > Turn(call)
    \/ step' = step /\ call' = call /\ polls' > polls
    \/ step' = step /\ call' = call /\ polls' = polls /\ tries' > tries

EachCallAdvances == [][Script => Advances]_vars

(***************************************************************************)
(* What the header and the last line of the script say (e2e.cjs:12, 302)   *)
(* and it does not do: a pass means that the transfer was executed.        *)
(***************************************************************************)
PassedMeansExecuted == outcome = "passed" => proposal.status = "Executed"
=============================================================================
