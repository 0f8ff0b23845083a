--------------------------- MODULE MCMessageDiff ----------------------------
(***************************************************************************)
(* Every header over three static keys, lookups of up to two tables, and   *)
(* every single-account instruction, in and out of bounds.                 *)
(***************************************************************************)
EXTENDS MessageDiff

CONSTANTS a, b, c, t1, t2, x, y, z, d1, d2

Headers ==
    {h \in [s : 0..3, w : 0..3, n : 0..3] : h.w <= h.s /\ h.s + h.n <= 3}

Lookup(key, writable, readonly) ==
    [account_key |-> key, writable_indexes |-> writable, readonly_indexes |-> readonly]

LookupLists ==
    {<<>>,
     <<Lookup(t1, <<0>>, <<1>>)>>,
     <<Lookup(t1, <<1>>, <<0>>), Lookup(t2, <<0>>, <<>>)>>}

Ix(program, accounts) ==
    [program_id_index |-> program, account_indexes |-> accounts, data |-> d1]

MCMessages ==
    {[num_signers |-> h.s, num_writable_signers |-> h.w,
      num_writable_non_signers |-> h.n, account_keys |-> <<a, b, c>>,
      instructions |-> ixs, address_table_lookups |-> lookups] :
        h \in Headers, lookups \in LookupLists,
        ixs \in {<<Ix(2, <<i>>)>> : i \in 0..6} \cup {<<Ix(2, <<>>)>>, <<Ix(6, <<>>)>>, <<>>}}

MCTableLists == {<<>>, <<<<x, y>>>>, <<<<x, y>>, <<z>>>>, <<<<x>>, <<z>>>>}

Meta(key, signer, writable) ==
    [pubkey |-> key, is_signer |-> signer, is_writable |-> writable]

MCExpectedLists ==
    {<<[program_id |-> c, accounts |-> accounts, data |-> data]>> :
        data \in {d1, d2},
        accounts \in {<<>>} \cup
            {<<Meta(key, s, w)>> : key \in {a, c, x, y, z}, s, w \in BOOLEAN}}
    \cup {<<[program_id |-> b, accounts |-> <<>>, data |-> d1]>>, <<>>}
=============================================================================
