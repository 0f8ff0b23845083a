------------------------------- MODULE MCE2E --------------------------------
(***************************************************************************)
(* The scenario of one wallet, its only member.                            *)
(***************************************************************************)
EXTENDS E2E

MCMembers == {wallet}
=============================================================================
