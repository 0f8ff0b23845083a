---------------------------- MODULE VoteInvariant ----------------------------
(***************************************************************************)
(* The inductive invariant behind OnlyTheShownVote and NoBlindVote: what   *)
(* must be true of a transaction halfway for those two to hold whenever    *)
(* one has committed.                                                      *)
(***************************************************************************)
EXTENDS ClearSigning

(***************************************************************************)
(* The transaction in flight is one that was submitted, or none.           *)
(***************************************************************************)
InFlight ==
    \/ pc > 0 /\ tx \in Transactions
    \/ /\ pc = 0 /\ tx = NoTransaction /\ cast = {}
       /\ working = proposal /\ staged = buffer

TypeInv == TypeOK /\ InFlight

(***************************************************************************)
(* The devices have seen the transaction in flight.                        *)
(***************************************************************************)
Seen == pc > 0 => \A m \in tx.signers \cap ClearSigners : DevicePolicy(m, tx)

(***************************************************************************)
(* Every verify_proposal that has run accepted the whole transaction.      *)
(***************************************************************************)
ShapeOk(args) == validate_transaction_shape(TopLevel(tx), VoteExpectation(args)) = Ok

Verified ==
    \A k \in Calling(tx, IX_VERIFY_PROPOSAL) : k < pc => ShapeOk(Args(tx.instructions[k]))

(***************************************************************************)
(* Where a vote in flight came from: an instruction of Squads that is this *)
(* vote, or one of a foreign program; always with its member's signature.  *)
(***************************************************************************)
Origin(v) ==
    \E k \in DOMAIN tx.instructions :
        /\ k < pc
        /\ \/ IsForeign(tx.instructions[k])
           \/ /\ tx.instructions[k].program_id = SQUADS_PROGRAM_ID
              /\ IsVote(tx.instructions[k])
              /\ v = VoteOf(tx.instructions[k])

CastInside == \A v \in cast : Origin(v) /\ v.member \in tx.signers

(***************************************************************************)
(* A voter that a proposal of the transaction counts was counted before    *)
(* it, or has a vote in flight.                                            *)
(***************************************************************************)
InCast(p, member, actions) ==
    \E v \in cast : v.proposal = p /\ v.member = member /\ v.action \in actions

Counted ==
    \A p \in ProposalAddresses, m \in Members :
        /\ m \in working[p].approved =>
              m \in proposal[p].approved \/ InCast(p, m, {"Approve"})
        /\ m \in working[p].rejected =>
              m \in proposal[p].rejected \/ InCast(p, m, {"Reject"})
        /\ m \in working[p].cancelled =>
              m \in proposal[p].cancelled \/ InCast(p, m, {"Cancel", "CancelV2"})

(***************************************************************************)
(* A clear vote, halfway (lib.rs:32-34, README.md:62-63): the checks made  *)
(* so far hold of the whole transaction, and nothing is counted that was   *)
(* not cast in it or before it.                                            *)
(***************************************************************************)
Halfway == Seen /\ Verified /\ CastInside /\ Counted

IInv == TypeInv /\ Halfway /\ OnlyTheShownVote /\ NoBlindVote
=============================================================================
