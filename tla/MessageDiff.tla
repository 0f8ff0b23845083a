---------------------------- MODULE MessageDiff -----------------------------
(***************************************************************************)
(* The diff of validation.rs against the layout that squads.rs documents   *)
(* (lines 89-92): one message, its lookup tables and an expected           *)
(* instruction list are chosen, then judged the way verify_proposal does.  *)
(***************************************************************************)
EXTENDS Validation

CONSTANTS Messages, TableLists, ExpectedLists

(***************************************************************************)
(* What is judged is of the types that borsh decodes, and the header of a  *)
(* message is one that Squads stores: its groups of keys do not overlap.   *)
(***************************************************************************)
ASSUME MessagesAssumption ==
    \A m \in Messages :
        /\ VaultTransactionMessage(m)
        /\ m.num_writable_signers <= m.num_signers
        /\ m.num_signers + m.num_writable_non_signers <= Len(m.account_keys)

ASSUME TableListsAssumption ==
    \A ts \in TableLists : IsSequence(ts) /\ \A l \in DOMAIN ts : IsSequence(ts[l])

ASSUME ExpectedListsAssumption ==
    \A shown \in ExpectedLists :
        IsSequence(shown) /\ \A i \in DOMAIN shown : ExpectedInstruction(shown[i])

VARIABLES message, tables, expected, verdict

vars == <<message, tables, expected, verdict>>

Pending == "pending"

Init ==
    /\ message \in Messages
    /\ tables \in TableLists
    /\ expected \in ExpectedLists
    /\ verdict = Pending

Judge ==
    /\ verdict = Pending
    /\ verdict' = (resolve(message, tables)
                   && validate_instructions(message, AccountKeys(message, tables), expected))
    /\ UNCHANGED <<message, tables, expected>>

Spec == Init /\ [][Judge]_vars

(***************************************************************************)
(* buildExpected: the list the client shows, for a message that loads no   *)
(* keys (it refuses the others).                                           *)
(***************************************************************************)
\* Mutant: the first key that does not sign is never writable.
isWritable_Strict(m, i) ==
    \/ i < m.num_writable_signers
    \/ i > m.num_signers /\ i - m.num_signers < m.num_writable_non_signers

isWritable(m, i) ==
    \/ i < m.num_writable_signers
    \/ i >= m.num_signers /\ i - m.num_signers < m.num_writable_non_signers

ClientMeta(m, i) ==
    [pubkey |-> m.account_keys[i + 1], is_signer |-> i < m.num_signers,
     is_writable |-> isWritable(m, i)]

buildExpected(m) ==
    [i \in DOMAIN m.instructions |->
        LET ix == m.instructions[i]
        IN  [program_id |-> m.account_keys[ix.program_id_index + 1],
             accounts   |-> [j \in DOMAIN ix.account_indexes |->
                                ClientMeta(m, ix.account_indexes[j])],
             data       |-> ix.data]]

-----------------------------------------------------------------------------
(***************************************************************************)
(* The reference: the key table is six groups of keys, one after another,  *)
(* and a key has the flags of its group.                                   *)
(***************************************************************************)
Group(keys, signer, writable) ==
    [k \in DOMAIN keys |->
        [pubkey |-> keys[k], is_signer |-> signer, is_writable |-> writable]]

InLookups(list) ==
    FlattenSeq([l \in DOMAIN tables |->
        LET indexes == message.address_table_lookups[l][list]
        IN  [k \in DOMAIN indexes |-> tables[l][indexes[k] + 1]]])

Layout ==
    LET keys == message.account_keys
        s    == message.num_signers
        w    == message.num_writable_signers
        n    == s + message.num_writable_non_signers
    IN  Group(SubSeq(keys, 1, w), TRUE, TRUE)
        \o Group(SubSeq(keys, w + 1, s), TRUE, FALSE)
        \o Group(SubSeq(keys, s + 1, n), FALSE, TRUE)
        \o Group(SubSeq(keys, n + 1, Len(keys)), FALSE, FALSE)
        \o Group(InLookups("writable_indexes"), FALSE, TRUE)
        \o Group(InLookups("readonly_indexes"), FALSE, FALSE)

Resolves ==
    /\ Len(tables) = Len(message.address_table_lookups)
    /\ \A l \in DOMAIN tables, list \in {"writable_indexes", "readonly_indexes"} :
          \A i \in Range(message.address_table_lookups[l][list]) :
              i \in 0..(Len(tables[l]) - 1)

Indexes(ix) == {ix.program_id_index} \cup Range(ix.account_indexes)

InBounds ==
    \A ix \in Range(message.instructions) :
        Indexes(ix) \subseteq 0..(Len(Layout) - 1)

Reference(data) ==
    [i \in DOMAIN message.instructions |->
        LET ix == message.instructions[i]
        IN  [program_id |-> Layout[ix.program_id_index + 1].pubkey,
             accounts   |-> [j \in DOMAIN ix.account_indexes |->
                                Layout[ix.account_indexes[j] + 1]],
             data       |-> data[i]]]

StoredBytes == [i \in DOMAIN message.instructions |-> message.instructions[i].data]

ExpectedBytes ==
    [i \in DOMAIN message.instructions |-> expected[i].data]

Judged == verdict # Pending

(***************************************************************************)
(* The diff is exact (README.md:48-54): it accepts the expected list if,   *)
(* and only if, the list is the expansion of the message under the layout. *)
(***************************************************************************)
AcceptsExactlyTheExpansion ==
    Judged => (verdict = Ok <=> Resolves /\ InBounds /\ expected = Reference(StoredBytes))

(***************************************************************************)
(* Data that differs, and nothing else, is reported as DataMismatch, the   *)
(* code the end-to-end scenario expects (README.md:252).                   *)
(***************************************************************************)
TamperedDataIsReported ==
    Judged /\ Resolves /\ InBounds /\ Len(expected) = Len(message.instructions)
        /\ expected = Reference(ExpectedBytes) /\ ExpectedBytes # StoredBytes
    => verdict = "DataMismatch"

(***************************************************************************)
(* The client agrees with the program (approve-clearsign.cjs:94-111,       *)
(* written apart from it in another language): what buildExpected shows    *)
(* for a message it supports passes the diff.                              *)
(***************************************************************************)
ClientPassesTheDiff ==
    Judged /\ message.address_table_lookups = <<>> /\ Resolves /\ InBounds =>
        validate_instructions(message, AccountKeys(message, <<>>), buildExpected(message)) = Ok
=============================================================================
