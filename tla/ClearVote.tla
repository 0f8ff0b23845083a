----------------------------- MODULE ClearVote ------------------------------
(***************************************************************************)
(* What clear signing promises, with nothing of how: everybody who votes   *)
(* on a proposal sees the same content, what runs is the content they saw, *)
(* and one step shows and casts one vote.                                  *)
(***************************************************************************)
CONSTANTS Votes, Content

VARIABLES
    seen,   \* votes cast, each with the content its signer was shown
    ran     \* proposals executed, each with the content that ran

Init == seen = {} /\ ran = {}

Agrees(proposal, content) ==
    \A s \in seen : s.vote.proposal = proposal => s.content = content

Pending(proposal) == \A r \in ran : r.proposal # proposal

Cast(vote, content) ==
    /\ Pending(vote.proposal)
    /\ Agrees(vote.proposal, content)
    /\ seen' = seen \cup {[vote |-> vote, content |-> content]}
    /\ UNCHANGED ran

Run(proposal, content) ==
    /\ Pending(proposal)
    /\ Agrees(proposal, content)
    /\ ran' = ran \cup {[proposal |-> proposal, content |-> content]}
    /\ UNCHANGED seen

Next == \E vote \in Votes, content \in Content :
            Cast(vote, content) \/ Run(vote.proposal, content)

Spec == Init /\ [][Next]_<<seen, ran>>
=============================================================================
