------------------------------ MODULE Verdicts ------------------------------
(***************************************************************************)
(* What a handler of the program answers: Ok, or the error it aborts with. *)
(* The Rust control flow is kept in the order of the source:               *)
(*                                                                         *)
(*   require!(c, E)          Require(c, E)                                 *)
(*   f()?; g()               f && g       (g is not evaluated if f fails)  *)
(*   for x in xs { f(x)?; }  FirstError([i \in DOMAIN xs |-> f(xs[i])])    *)
(***************************************************************************)
EXTENDS Integers, Sequences

Ok == "Ok"

Require(condition, error) == IF condition THEN Ok ELSE error

first && second == IF first = Ok THEN second ELSE first

(***************************************************************************)
(* The verdict of a loop that stops at its first failing iteration.        *)
(***************************************************************************)
FirstError(verdicts) ==
    LET bad == {i \in DOMAIN verdicts : verdicts[i] # Ok}
    IN  IF bad = {} THEN Ok
        ELSE verdicts[CHOOSE i \in bad : \A j \in bad : i <= j]

(***************************************************************************)
(* errors.rs: the errors of the program, in the order of their codes (the  *)
(* first is 6000).                                                         *)
(***************************************************************************)
ClearSigningError == {
    "InvalidTransactionOwner", "TransactionPdaMismatch", "NotAVaultTransaction",
    "TransactionDeserializationError", "MultisigMismatch",
    "TransactionIndexMismatch", "VaultIndexMismatch", "EphemeralSignersMismatch",
    "LookupTableCountMismatch", "LookupTableAddressMismatch",
    "InvalidLookupTableOwner", "InvalidLookupTableData",
    "LookupTableIndexOutOfBounds", "AccountIndexOutOfBounds",
    "InstructionCountMismatch", "ProgramIdMismatch", "AccountCountMismatch",
    "AccountKeyMismatch", "AccountWritableMismatch", "AccountSignerMismatch",
    "DataMismatch", "InstructionsSysvarError", "ForbiddenInstruction",
    "UnexpectedSquadsInstruction", "MalformedVoteInstruction",
    "VoteMultisigMismatch", "VoteProposalMismatch", "VoteMemberMismatch",
    "VoteMemberNotSigner", "MissingVoteInstruction", "BufferKeyMismatch",
    "InvalidBufferOwner", "NotABuffer", "BufferHashMismatch"}
=============================================================================
