----------------------- MODULE ClearSigningRefinement -----------------------
(***************************************************************************)
(* ClearSigning implements ClearVote: what was seen is what landed, what   *)
(* ran is what Squads executed. The content of a vote is one that a stored *)
(* message may expand to.                                                  *)
(***************************************************************************)
EXTENDS ClearSigning

PossibleTables(message) ==
    [DOMAIN message.address_table_lookups -> SeqOf(TableKeys, MaxTableLen)]

Content ==
    UNION {{Expansion(content.message, tables) :
               tables \in {t \in PossibleTables(content.message) :
                               resolve(content.message, t) = Ok}} :
           content \in Contents}

SeenMap == {[vote |-> r.vote, content |-> r.args.instructions] : r \in landed}

RanMap == {[proposal |-> p, content |-> executed[p]] :
              p \in {q \in ProposalAddresses : proposal[q].status = "Executed"}}

Abstract == INSTANCE ClearVote WITH
    Votes <- Vote, Content <- Content, seen <- SeenMap, ran <- RanMap

(***************************************************************************)
(* Agreement: the votes and executions of ClearSigning are behaviours of   *)
(* the abstract specification.                                             *)
(***************************************************************************)
ImplementsClearVote == Abstract!Spec
=============================================================================
