--------------------------- MODULE SquadsRuntime ----------------------------
(***************************************************************************)
(* The Squads v4 program, which is not part of this repository: what its   *)
(* votes do to a proposal, and what it makes of a stored message when it   *)
(* executes it. Modelled from how the repository uses and mirrors it:      *)
(* Expansion reads the key table and the flags independently of            *)
(* validation.rs, so that the two can disagree.                            *)
(***************************************************************************)
EXTENDS Squads, SequencesExt

CONSTANTS
    Members,        \* the members of the multisigs, all with every permission
    Threshold       \* votes that approve, or cancel, a proposal

ASSUME MembersAssumption ==
    IsFiniteSet(Members) /\ Threshold \in 1..Cardinality(Members)

ProposalStatus ==
    {"None", "Active", "Approved", "Rejected", "Cancelled", "Executed"}

Proposal == [status : ProposalStatus, approved : SUBSET Members,
             rejected : SUBSET Members, cancelled : SUBSET Members]

NoProposal == [status |-> "None", approved |-> {}, rejected |-> {}, cancelled |-> {}]

NewProposal == [NoProposal EXCEPT !.status = "Active"]

(***************************************************************************)
(* The votes: approvals and rejections are cast on an active proposal,     *)
(* cancellations on an approved one, each once by each member. A vote      *)
(* replaces the member's opposite vote.                                    *)
(***************************************************************************)
VoteVerdict(p, member, action) ==
    Require(member \in Members, "NotAMember")
    && CASE action = "Approve" ->
              Require(p.status = "Active", "InvalidProposalStatus")
              && Require(member \notin p.approved, "AlreadyApproved")
         [] action = "Reject" ->
              Require(p.status = "Active", "InvalidProposalStatus")
              && Require(member \notin p.rejected, "AlreadyRejected")
         [] OTHER ->
              Require(p.status = "Approved", "InvalidProposalStatus")
              && Require(member \notin p.cancelled, "AlreadyCancelled")

Approved(p, member) ==
    LET approved == p.approved \cup {member}
    IN  [p EXCEPT !.approved = approved,
                  !.rejected = @ \ {member},
                  !.status   = IF Cardinality(approved) >= Threshold
                               THEN "Approved" ELSE @]

Rejected(p, member) ==
    LET rejected == p.rejected \cup {member}
    IN  [p EXCEPT !.rejected = rejected,
                  !.approved = @ \ {member},
                  !.status   = IF Cardinality(Members) - Cardinality(rejected)
                                    < Threshold
                               THEN "Rejected" ELSE @]

Cancelled(p, member) ==
    LET cancelled == p.cancelled \cup {member}
    IN  [p EXCEPT !.cancelled = cancelled,
                  !.status    = IF Cardinality(cancelled) >= Threshold
                                THEN "Cancelled" ELSE @]

Voted(p, member, action) ==
    CASE action = "Approve" -> Approved(p, member)
      [] action = "Reject"  -> Rejected(p, member)
      [] OTHER              -> Cancelled(p, member)

(***************************************************************************)
(* What Squads checks of a message when it stores it: its instructions     *)
(* refer to keys that it has, counting those its lookups load.             *)
(***************************************************************************)
NumLoaded(message, list) ==
    Len(FlattenSeq([l \in DOMAIN message.address_table_lookups |->
                       message.address_table_lookups[l][list]]))

NumKeys(message) ==
    Len(message.account_keys) + NumLoaded(message, "writable_indexes")
                              + NumLoaded(message, "readonly_indexes")

RefersToItsKeys(message) ==
    \A i \in DOMAIN message.instructions :
        LET ix == message.instructions[i]
        IN  /\ ix.program_id_index < NumKeys(message)
            /\ \A j \in DOMAIN ix.account_indexes :
                  ix.account_indexes[j] < NumKeys(message)

(***************************************************************************)
(* The keys a message loads from its tables through one list of indexes,   *)
(* and the instructions Squads invokes when it executes the message.       *)
(***************************************************************************)
LoadedThrough(message, tables, list) ==
    FlattenSeq([l \in DOMAIN tables |->
        LET indexes == message.address_table_lookups[l][list]
        IN  [k \in DOMAIN indexes |-> tables[l][indexes[k] + 1]]])

ExpandedKeys(message, tables) ==
    message.account_keys \o LoadedThrough(message, tables, "writable_indexes")
                         \o LoadedThrough(message, tables, "readonly_indexes")

ExpandedMeta(message, tables, index) ==
    LET static   == Len(message.account_keys)
        writable == LoadedThrough(message, tables, "writable_indexes")
    IN  [pubkey      |-> ExpandedKeys(message, tables)[index + 1],
         is_signer   |-> is_signer_index(message, index),
         is_writable |-> \/ is_static_writable_index(message, index)
                         \/ index >= static /\ index - static < Len(writable)]

ExpandedInstruction(message, tables, ix) ==
    [program_id |-> ExpandedKeys(message, tables)[ix.program_id_index + 1],
     accounts   |-> [j \in DOMAIN ix.account_indexes |->
                        ExpandedMeta(message, tables, ix.account_indexes[j])],
     data       |-> ix.data]

Expansion(message, tables) ==
    [i \in DOMAIN message.instructions |->
        ExpandedInstruction(message, tables, message.instructions[i])]
=============================================================================
