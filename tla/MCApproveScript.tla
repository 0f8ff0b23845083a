-------------------------- MODULE MCApproveScript ---------------------------
(***************************************************************************)
(* One run of a script among three members, of whom two must approve.    *)
(***************************************************************************)
EXTENDS ApproveScript

CONSTANTS alice, bob, carol

MCMembers == {alice, bob, carol}
=============================================================================
