------------------------- MODULE MessageDiff_proofs -------------------------
(***************************************************************************)
(* The diff of validation.rs accepts exactly the expansion of a message    *)
(* under the layout that squads.rs documents: for every message, lookup    *)
(* tables and expected list.                                               *)
(***************************************************************************)
EXTENDS MessageDiff, Operators_proofs

Meta(key, signer, writable) ==
    [pubkey |-> key, is_signer |-> signer, is_writable |-> writable]

Shows(group, keys, signer, writable) ==
    /\ IsSequence(group) /\ Len(group) = Len(keys)
    /\ \A k \in 1..Len(keys) : group[k] = Meta(keys[k], signer, writable)

\* A group shows each of its keys with the flags of the group.
LEMMA GroupShows ==
    ASSUME NEW keys, IsSequence(keys), NEW signer, NEW writable
    PROVE  Shows(Group(keys, signer, writable), keys, signer, writable)
<1> DEFINE n == Len(keys)
           group == Group(keys, signer, writable)
<1>1. n \in Nat /\ DOMAIN keys = 1..n
    BY DEF IsSequence
<1>2. group = [k \in 1..n |-> Meta(keys[k], signer, writable)]
    BY <1>1 DEF Group, Meta
<1> HIDE DEF group
<1>3. IsSequence(group) /\ Len(group) = n
    BY <1>1, <1>2 DEF IsSequence
<1> HIDE DEF n
<1>4. \A k \in 1..n : group[k] = Meta(keys[k], signer, writable)
    BY <1>2
<1> QED BY <1>3, <1>4 DEF Shows, group, n

IsGroup(G, keys, a, n, signer, writable) ==
    /\ IsSequence(G) /\ Len(G) = n
    /\ \A k \in 1..n : G[k] = Meta(keys[a + k], signer, writable)

\* The same for the group of the keys from a + 1 to b.
LEMMA GroupOf ==
    ASSUME NEW keys, IsSequence(keys), NEW a \in Nat, NEW b \in Nat, a <= b, b <= Len(keys),
           NEW signer, NEW writable
    PROVE  IsGroup(Group(SubSeq(keys, a + 1, b), signer, writable), keys, a, b - a, signer, writable)
<1> DEFINE part == SubSeq(keys, a + 1, b)
           G == Group(part, signer, writable)
<1>1. IsSequence(part) /\ Len(part) = b - a /\ \A k \in 1..(b - a) : part[k] = keys[a + k]
    BY SubSeqIs
<1> HIDE DEF part
<1>2. IsSequence(G) /\ Len(G) = b - a /\ \A k \in 1..(b - a) : G[k] = Meta(part[k], signer, writable)
    BY <1>1, GroupShows DEF Shows
<1> HIDE DEF G
<1>3. \A k \in 1..(b - a) : G[k] = Meta(keys[a + k], signer, writable)
    BY <1>1, <1>2
<1> QED BY <1>2, <1>3 DEF IsGroup, G, part

StaticGroups(keys, w, s, n) ==
    Group(SubSeq(keys, 1, w), TRUE, TRUE)
    \o Group(SubSeq(keys, w + 1, s), TRUE, FALSE)
    \o Group(SubSeq(keys, s + 1, n), FALSE, TRUE)
    \o Group(SubSeq(keys, n + 1, Len(keys)), FALSE, FALSE)

ShowsStatic(layout, keys, w, s, n) ==
    /\ IsSequence(layout) /\ Len(layout) = Len(keys)
    /\ \A i \in 1..Len(keys) :
          layout[i] = Meta(keys[i], i <= s, i <= w \/ (i > s /\ i <= n))

\* The four static groups, end to end, flag the keys by the three counts of the header.
LEMMA StaticLayout ==
    ASSUME NEW keys, IsSequence(keys), NEW w \in Nat, NEW s \in Nat, NEW n \in Nat,
           w <= s, s <= n, n <= Len(keys)
    PROVE  ShowsStatic(StaticGroups(keys, w, s, n), keys, w, s, n)
<1> DEFINE z == Len(keys)
           A == Group(SubSeq(keys, 1, w), TRUE, TRUE)
           B == Group(SubSeq(keys, w + 1, s), TRUE, FALSE)
           C == Group(SubSeq(keys, s + 1, n), FALSE, TRUE)
           D == Group(SubSeq(keys, n + 1, z), FALSE, FALSE)
<1>1. z \in Nat
    BY DEF IsSequence
<1>2. w <= Len(keys) /\ s <= Len(keys) /\ z <= Len(keys)
    BY <1>1
<1>3. /\ IsSequence(A) /\ Len(A) = w
      /\ \A k \in 1..w : A[k] = Meta(keys[k], TRUE, TRUE)
    <2> DEFINE G == Group(SubSeq(keys, 0 + 1, w), TRUE, TRUE)
    <2>1. 0 \in Nat /\ 0 <= w
        OBVIOUS
    <2>2. IsGroup(G, keys, 0, w - 0, TRUE, TRUE)
        BY <1>2, <2>1, GroupOf, Zenon
    <2>3. 0 + 1 = 1 /\ w - 0 = w
        OBVIOUS
    <2>4. IsGroup(A, keys, 0, w, TRUE, TRUE)
        BY <2>2, <2>3, Zenon
    <2> HIDE DEF A, G
    <2>5. \A k \in 1..w : A[k] = Meta(keys[0 + k], TRUE, TRUE)
        BY <2>4, Zenon DEF IsGroup
    <2>6. \A k \in 1..w : A[k] = Meta(keys[k], TRUE, TRUE)
        <3> SUFFICES ASSUME NEW k \in 1..w PROVE A[k] = Meta(keys[k], TRUE, TRUE)
            OBVIOUS
        <3>1. 0 + k = k
            OBVIOUS
        <3> QED BY <2>5, <3>1, Zenon
    <2> QED BY <2>4, <2>6 DEF IsGroup
<1>4. /\ IsSequence(B) /\ Len(B) = s - w
      /\ \A k \in 1..(s - w) : B[k] = Meta(keys[w + k], TRUE, FALSE)
    <2>1. IsGroup(B, keys, w, s - w, TRUE, FALSE)
        BY <1>2, GroupOf, Zenon
    <2> HIDE DEF B
    <2> QED BY <2>1 DEF IsGroup
<1>5. /\ IsSequence(C) /\ Len(C) = n - s
      /\ \A k \in 1..(n - s) : C[k] = Meta(keys[s + k], FALSE, TRUE)
    <2>1. IsGroup(C, keys, s, n - s, FALSE, TRUE)
        BY GroupOf, Zenon
    <2> HIDE DEF C
    <2> QED BY <2>1 DEF IsGroup
<1>6. /\ IsSequence(D) /\ Len(D) = z - n
      /\ \A k \in 1..(z - n) : D[k] = Meta(keys[n + k], FALSE, FALSE)
    <2>1. IsGroup(D, keys, n, z - n, FALSE, FALSE)
        BY <1>1, <1>2, GroupOf, Zenon
    <2> HIDE DEF D
    <2> QED BY <2>1 DEF IsGroup
<1> DEFINE AB == A \o B
           ABC == AB \o C
           layout == ABC \o D
<1> HIDE DEF A, B, C, D
<1>7. /\ IsSequence(AB) /\ Len(AB) = s
      /\ \A i \in 1..s : AB[i] = IF i <= w THEN A[i] ELSE B[i - w]
    <2>1. IsSequence(AB) /\ Len(AB) = Len(A) + Len(B)
          /\ \A i \in 1..(Len(A) + Len(B)) : AB[i] = IF i <= Len(A) THEN A[i] ELSE B[i - Len(A)]
        BY <1>3, <1>4, ConcatIs
    <2> HIDE DEF AB
    <2> QED BY <1>3, <1>4, <2>1
<1> HIDE DEF AB
<1>8. /\ IsSequence(ABC) /\ Len(ABC) = n
      /\ \A i \in 1..n : ABC[i] = IF i <= s THEN AB[i] ELSE C[i - s]
    <2>1. IsSequence(ABC) /\ Len(ABC) = Len(AB) + Len(C)
          /\ \A i \in 1..(Len(AB) + Len(C)) : ABC[i] = IF i <= Len(AB) THEN AB[i] ELSE C[i - Len(AB)]
        BY <1>7, <1>5, ConcatIs
    <2> HIDE DEF ABC
    <2> QED BY <1>7, <1>5, <2>1
<1> HIDE DEF ABC
<1>9. /\ IsSequence(layout) /\ Len(layout) = z
      /\ \A i \in 1..z : layout[i] = IF i <= n THEN ABC[i] ELSE D[i - n]
    <2>1. IsSequence(layout) /\ Len(layout) = Len(ABC) + Len(D)
          /\ \A i \in 1..(Len(ABC) + Len(D)) : layout[i] = IF i <= Len(ABC) THEN ABC[i] ELSE D[i - Len(ABC)]
        BY <1>8, <1>6, ConcatIs
    <2> HIDE DEF layout, z
    <2> QED BY <1>1, <1>8, <1>6, <2>1
<1> HIDE DEF layout, z
<1>10. ASSUME NEW i \in 1..z
       PROVE  layout[i] = Meta(keys[i], i <= s, i <= w \/ (i > s /\ i <= n))
    <2>1. CASE i <= w
        <3>1. layout[i] = A[i]
            BY <1>1, <1>7, <1>8, <1>9, <2>1
        <3>2. i \in 1..w /\ i <= s
            BY <1>1, <2>1
        <3>3. (i <= s) = TRUE /\ (i <= w \/ (i > s /\ i <= n)) = TRUE
            BY <2>1, <3>2
        <3> QED BY <1>3, <3>1, <3>2, <3>3
    <2>2. CASE i > w /\ i <= s
        <3>1. layout[i] = B[i - w]
            BY <1>1, <1>7, <1>8, <1>9, <2>2
        <3>2. i - w \in 1..(s - w) /\ w + (i - w) = i
            BY <1>1, <2>2
        <3>3. (i <= s) = TRUE /\ (i <= w \/ (i > s /\ i <= n)) = FALSE
            BY <1>1, <2>2
        <3> QED BY <1>4, <3>1, <3>2, <3>3
    <2>3. CASE i > s /\ i <= n
        <3>1. layout[i] = C[i - s]
            BY <1>1, <1>8, <1>9, <2>3
        <3>2. i - s \in 1..(n - s) /\ s + (i - s) = i
            BY <1>1, <2>3
        <3>3. (i <= s) = FALSE /\ (i <= w \/ (i > s /\ i <= n)) = TRUE
            BY <1>1, <2>3
        <3> QED BY <1>5, <3>1, <3>2, <3>3
    <2>4. CASE i > n
        <3>1. layout[i] = D[i - n]
            BY <1>1, <1>9, <2>4
        <3>2. i - n \in 1..(z - n) /\ n + (i - n) = i
            BY <1>1, <2>4
        <3>3. (i <= s) = FALSE /\ (i <= w \/ (i > s /\ i <= n)) = FALSE
            BY <1>1, <2>4
        <3> QED BY <1>6, <3>1, <3>2, <3>3
    <2> QED BY <1>1, <2>1, <2>2, <2>3, <2>4
<1>11. StaticGroups(keys, w, s, n) = layout
    BY Zenon DEF StaticGroups, layout, ABC, AB, A, B, C, D, z
<1> QED BY <1>9, <1>10, <1>11 DEF ShowsStatic, z

\* The documented layout is the account space of Squads, key by key.
LEMMA LayoutIs ==
    ASSUME VaultTransactionMessage(message),
           message.num_writable_signers <= message.num_signers,
           message.num_signers + message.num_writable_non_signers <= Len(message.account_keys),
           IsSequence(tables), Len(tables) = Len(message.address_table_lookups)
    PROVE  /\ IsSequence(Layout) /\ Len(Layout) = Len(ExpandedKeys(message, tables))
           /\ \A i \in 0..(Len(Layout) - 1) : Layout[i + 1] = ExpandedMeta(message, tables, i)
<1> DEFINE keys == message.account_keys
           z == Len(keys)
           w == message.num_writable_signers
           s == message.num_signers
           n == s + message.num_writable_non_signers
           writable == LoadedThrough(message, tables, "writable_indexes")
           readonly == LoadedThrough(message, tables, "readonly_indexes")
           static == StaticGroups(keys, w, s, n)
           W == Group(writable, FALSE, TRUE)
           R == Group(readonly, FALSE, FALSE)
           upper == static \o W
           layout == upper \o R
           named == keys \o writable
           all == named \o readonly
<1>1. IsSequence(keys) /\ z \in Nat
    BY DEF VaultTransactionMessage, IsSequence
<1>2. w \in Nat /\ s \in Nat /\ message.num_writable_non_signers \in Nat
    <2>1. Byte \subseteq Nat
        BY DEF Byte
    <2> QED BY <2>1 DEF VaultTransactionMessage
<1>3. n \in Nat /\ w <= s /\ s <= n /\ n <= z /\ n - s = message.num_writable_non_signers
    BY <1>1, <1>2
<1>4. IsSequence(writable) /\ IsSequence(readonly)
    BY LoadedType DEF LoadLists
<1>5. InLookups("writable_indexes") = writable /\ InLookups("readonly_indexes") = readonly
    BY DEF InLookups, LoadedThrough
<1>6. Layout = layout
    BY <1>5, Zenon DEF Layout, StaticGroups
<1>7. ExpandedKeys(message, tables) = all
    BY DEF ExpandedKeys
<1> HIDE DEF keys, z, w, s, n, writable, readonly
<1>8. /\ IsSequence(static) /\ Len(static) = z
      /\ \A i \in 1..z : static[i] = Meta(keys[i], i <= s, i <= w \/ (i > s /\ i <= n))
    <2>1. n <= Len(keys)
        BY <1>3 DEF z
    <2>2. /\ IsSequence(static) /\ Len(static) = Len(keys)
          /\ \A i \in 1..Len(keys) :
                static[i] = Meta(keys[i], i <= s, i <= w \/ (i > s /\ i <= n))
        <3>1. ShowsStatic(static, keys, w, s, n)
            BY <1>1, <1>2, <1>3, <2>1, StaticLayout, Zenon
        <3> QED BY <3>1, Zenon DEF ShowsStatic
    <2> QED BY <2>2, Zenon DEF z
<1>9. /\ IsSequence(W) /\ Len(W) = Len(writable)
      /\ \A k \in 1..Len(writable) : W[k] = Meta(writable[k], FALSE, TRUE)
    BY <1>4, GroupShows, Zenon DEF Shows
<1>10. /\ IsSequence(R) /\ Len(R) = Len(readonly)
       /\ \A k \in 1..Len(readonly) : R[k] = Meta(readonly[k], FALSE, FALSE)
    BY <1>4, GroupShows, Zenon DEF Shows
<1>11. Len(writable) \in Nat /\ Len(readonly) \in Nat
    BY <1>4 DEF IsSequence
<1> HIDE DEF static, W, R
<1>12. /\ IsSequence(upper) /\ Len(upper) = z + Len(writable)
       /\ \A i \in 1..(z + Len(writable)) : upper[i] = IF i <= z THEN static[i] ELSE W[i - z]
    <2>1. IsSequence(upper) /\ Len(upper) = Len(static) + Len(W)
          /\ \A i \in 1..(Len(static) + Len(W)) :
                upper[i] = IF i <= Len(static) THEN static[i] ELSE W[i - Len(static)]
        BY <1>8, <1>9, ConcatIs
    <2> HIDE DEF upper
    <2> QED BY <1>8, <1>9, <2>1
<1>13. /\ IsSequence(named) /\ Len(named) = z + Len(writable)
       /\ \A i \in 1..(z + Len(writable)) : named[i] = IF i <= z THEN keys[i] ELSE writable[i - z]
    BY <1>1, <1>4, ConcatIs DEF z
<1> HIDE DEF upper, named
<1>14. /\ IsSequence(layout) /\ Len(layout) = z + Len(writable) + Len(readonly)
       /\ \A i \in 1..(z + Len(writable) + Len(readonly)) :
             layout[i] = IF i <= z + Len(writable) THEN upper[i] ELSE R[i - (z + Len(writable))]
    <2>1. IsSequence(layout) /\ Len(layout) = Len(upper) + Len(R)
          /\ \A i \in 1..(Len(upper) + Len(R)) :
                layout[i] = IF i <= Len(upper) THEN upper[i] ELSE R[i - Len(upper)]
        BY <1>10, <1>12, ConcatIs
    <2> HIDE DEF layout
    <2> QED BY <1>10, <1>12, <2>1
<1>15. /\ IsSequence(all) /\ Len(all) = z + Len(writable) + Len(readonly)
       /\ \A i \in 1..(z + Len(writable) + Len(readonly)) :
             all[i] = IF i <= z + Len(writable) THEN named[i] ELSE readonly[i - (z + Len(writable))]
    <2>1. IsSequence(all) /\ Len(all) = Len(named) + Len(readonly)
          /\ \A i \in 1..(Len(named) + Len(readonly)) :
                all[i] = IF i <= Len(named) THEN named[i] ELSE readonly[i - Len(named)]
        BY <1>4, <1>13, ConcatIs
    <2> HIDE DEF all
    <2> QED BY <1>13, <2>1
<1> HIDE DEF layout, all
<1>16. ASSUME NEW i \in Nat, i < z + Len(writable) + Len(readonly)
       PROVE  layout[i + 1] = ExpandedMeta(message, tables, i)
    <2>1. ExpandedMeta(message, tables, i)
            = Meta(all[i + 1], is_signer_index(message, i),
                   is_static_writable_index(message, i) \/ (i >= z /\ i - z < Len(writable)))
        BY <1>7 DEF ExpandedMeta, Meta, writable, keys, z
    <2>2. is_signer_index(message, i) <=> i < s
        BY DEF is_signer_index, s
    <2>3. is_static_writable_index(message, i)
             <=> i < z /\ (i < w \/ (i >= s /\ i - s < n - s))
        BY <1>3 DEF is_static_writable_index, s, w, z, keys
    <2> DEFINE signs == is_signer_index(message, i)
               writes == is_static_writable_index(message, i) \/ (i >= z /\ i - z < Len(writable))
    <2>4. CASE i < z
        <3>1. layout[i + 1] = static[i + 1] /\ all[i + 1] = keys[i + 1]
            BY <1>1, <1>11, <1>12, <1>13, <1>14, <1>15, <2>4
        <3>2. static[i + 1] = Meta(keys[i + 1], i + 1 <= s, i + 1 <= w \/ (i + 1 > s /\ i + 1 <= n))
            BY <1>1, <1>8, <2>4
        <3>3. signs = (i + 1 <= s)
            <4>1. signs \in BOOLEAN
                BY DEF is_signer_index
            <4> QED BY <1>2, <2>2, <4>1
        <3>4. writes = (i + 1 <= w \/ (i + 1 > s /\ i + 1 <= n))
            BY <1>1, <1>2, <1>3, <2>3, <2>4
        <3> QED BY <2>1, <3>1, <3>2, <3>3, <3>4, Zenon
    <2>5. CASE i >= z /\ i < z + Len(writable)
        <3>1. layout[i + 1] = W[i + 1 - z] /\ all[i + 1] = writable[i + 1 - z]
              /\ i + 1 - z \in 1..Len(writable)
            BY <1>1, <1>11, <1>12, <1>13, <1>14, <1>15, <2>5
        <3>2. signs = FALSE /\ writes = TRUE
            BY <1>1, <1>2, <1>3, <1>11, <2>2, <2>3, <2>5
        <3> QED BY <1>9, <2>1, <3>1, <3>2, Zenon
    <2>6. CASE i >= z + Len(writable)
        <3>1. layout[i + 1] = R[i + 1 - (z + Len(writable))]
              /\ all[i + 1] = readonly[i + 1 - (z + Len(writable))]
              /\ i + 1 - (z + Len(writable)) \in 1..Len(readonly)
            BY <1>1, <1>11, <1>14, <1>15, <2>6, <1>16
        <3>2. signs = FALSE /\ writes = FALSE
            BY <1>1, <1>2, <1>3, <1>11, <2>2, <2>3, <2>6
        <3> QED BY <1>10, <2>1, <3>1, <3>2, Zenon
    <2> QED BY <1>1, <1>11, <2>4, <2>5, <2>6
<1>17. Len(layout) = z + Len(writable) + Len(readonly)
    BY <1>14
<1>18. \A i \in 0..(Len(layout) - 1) : layout[i + 1] = ExpandedMeta(message, tables, i)
    BY <1>1, <1>11, <1>16, <1>17
<1> QED BY <1>6, <1>7, <1>14, <1>15, <1>18

-----------------------------------------------------------------------------
(***************************************************************************)
(* The inductive invariant: what was chosen stays, and the verdict is the  *)
(* one that verify_proposal reaches.                                       *)
(***************************************************************************)
Judgement ==
    resolve(message, tables)
    && validate_instructions(message, AccountKeys(message, tables), expected)

DiffInv ==
    /\ message \in Messages /\ tables \in TableLists /\ expected \in ExpectedLists
    /\ verdict \in {Pending, Judgement}

\* A verdict is the one that verify_proposal gives.
LEMMA DiffInvariant == Spec => []DiffInv
<1>1. Init => DiffInv
    BY DEF Init, DiffInv
<1>2. DiffInv /\ [Judge]_vars => DiffInv'
    BY DEF DiffInv, Judge, vars, Judgement
<1> QED BY <1>1, <1>2, PTL DEF Spec

(***************************************************************************)
(* What is judged.                                                         *)
(***************************************************************************)
LEMMA JudgedTypes ==
    ASSUME DiffInv
    PROVE  /\ VaultTransactionMessage(message)
           /\ message.num_writable_signers <= message.num_signers
           /\ message.num_signers + message.num_writable_non_signers <= Len(message.account_keys)
           /\ IsSequence(tables) /\ \A l \in DOMAIN tables : IsSequence(tables[l])
           /\ ExpectedInstructions(expected)
BY MessagesAssumption, TableListsAssumption, ExpectedListsAssumption
   DEF DiffInv, ExpectedInstructions

\* AccountKeys::resolve accepts tables that match the lookups, all indexes in bounds.
LEMMA ResolveExact == DiffInv => (resolve(message, tables) = Ok <=> Resolves)
<1> SUFFICES ASSUME DiffInv PROVE resolve(message, tables) = Ok <=> Resolves
    OBVIOUS
<1> DEFINE lookups == message.address_table_lookups
<1>1. resolve(message, tables) = Ok
         <=> Len(tables) = Len(lookups) /\ \A l \in DOMAIN tables : LookupInBounds(lookups[l], tables[l])
    BY DEF resolve, Require, &&, Ok
<1>2. ASSUME Len(tables) = Len(lookups), NEW l \in DOMAIN tables
      PROVE  LookupInBounds(lookups[l], tables[l])
                <=> \A list \in {"writable_indexes", "readonly_indexes"} :
                       \A i \in Range(lookups[l][list]) : i \in 0..(Len(tables[l]) - 1)
    <2>1. DOMAIN tables = DOMAIN lookups
        BY <1>2, JudgedTypes DEF VaultTransactionMessage, IsSequence
    <2>2. lookups[l].writable_indexes \in Seq(Byte) /\ lookups[l].readonly_indexes \in Seq(Byte)
        BY <2>1, JudgedTypes DEF VaultTransactionMessage, MultisigMessageAddressTableLookup
    <2>3. Len(tables[l]) \in Nat
        BY JudgedTypes DEF IsSequence
    <2>4. ASSUME NEW indexes \in Seq(Byte)
          PROVE  (\A k \in DOMAIN indexes : indexes[k] < Len(tables[l]))
                    <=> \A i \in Range(indexes) : i \in 0..(Len(tables[l]) - 1)
        <3>1. \A k \in DOMAIN indexes : indexes[k] \in Byte
            OBVIOUS
        <3>2. Byte \subseteq Nat
            BY DEF Byte
        <3>3. \A k \in DOMAIN indexes : indexes[k] \in Nat
            BY <3>1, <3>2, Zenon
        <3> QED BY <2>3, <3>3 DEF Range
    <2>5. LookupInBounds(lookups[l], tables[l])
             <=> /\ \A k \in DOMAIN lookups[l].writable_indexes :
                       lookups[l].writable_indexes[k] < Len(tables[l])
                 /\ \A k \in DOMAIN lookups[l].readonly_indexes :
                       lookups[l].readonly_indexes[k] < Len(tables[l])
        BY DEF LookupInBounds
    <2> HIDE DEF lookups
    <2>6. (\A list \in {"writable_indexes", "readonly_indexes"} :
              \A i \in Range(lookups[l][list]) : i \in 0..(Len(tables[l]) - 1))
             <=> /\ \A i \in Range(lookups[l].writable_indexes) : i \in 0..(Len(tables[l]) - 1)
                 /\ \A i \in Range(lookups[l].readonly_indexes) : i \in 0..(Len(tables[l]) - 1)
        OBVIOUS
    <2> QED BY <2>2, <2>4, <2>5, <2>6
<1> QED BY <1>1, <1>2 DEF Resolves

\* LayoutIs, of what is judged.
LEMMA LayoutExact ==
    ASSUME DiffInv, Resolves
    PROVE  /\ IsSequence(Layout) /\ Len(Layout) = Len(ExpandedKeys(message, tables))
           /\ \A i \in 0..(Len(Layout) - 1) : Layout[i + 1] = ExpandedMeta(message, tables, i)
BY JudgedTypes, LayoutIs DEF Resolves

\* Indexes within the layout are those that name keys of the message.
LEMMA BoundsExact ==
    ASSUME DiffInv, Resolves
    PROVE  InBounds <=> MessageNamesKeys(message, tables)
<1> DEFINE ixs == message.instructions
           n == Len(Layout)
<1>1. n \in Nat /\ n = Len(ExpandedKeys(message, tables))
    BY LayoutExact DEF IsSequence
<1>2. ASSUME NEW i \in DOMAIN ixs
      PROVE  Indexes(ixs[i]) \subseteq 0..(n - 1) <=> InstructionNamesKeys(message, tables, ixs[i])
    <2> DEFINE ix == ixs[i]
    <2>1. MultisigCompiledInstruction(ix)
        BY JudgedTypes, StoredInstructions
    <2> HIDE DEF ix, n
    <2>2. ix.program_id_index \in Nat /\ \A j \in DOMAIN ix.account_indexes : ix.account_indexes[j] \in Nat
        <3>1. ix.program_id_index \in Byte /\ ix.account_indexes \in Seq(Byte)
            BY <2>1 DEF MultisigCompiledInstruction
        <3>2. \A j \in DOMAIN ix.account_indexes : ix.account_indexes[j] \in Byte
            BY <3>1
        <3>3. Byte \subseteq Nat
            BY DEF Byte
        <3> QED BY <3>1, <3>2, <3>3, Zenon
    <2>3. Indexes(ix) \subseteq 0..(n - 1)
             <=> /\ ix.program_id_index < n
                 /\ \A j \in DOMAIN ix.account_indexes : ix.account_indexes[j] < n
        BY <1>1, <2>2 DEF Indexes, Range
    <2>4. InstructionNamesKeys(message, tables, ix)
             <=> /\ ix.program_id_index < n
                 /\ \A j \in DOMAIN ix.account_indexes : ix.account_indexes[j] < n
        BY <1>1 DEF InstructionNamesKeys, NamesKey
    <2> QED BY <2>3, <2>4 DEF ix
<1> QED BY <1>2 DEF InBounds, MessageNamesKeys, Range

(***************************************************************************)
(* The reference list is what Squads makes of the message.                 *)
(***************************************************************************)
LEMMA ReferenceIs ==
    ASSUME DiffInv, Resolves, InBounds, NEW data
    PROVE  /\ Len(Reference(data)) = Len(message.instructions)
           /\ \A i \in DOMAIN message.instructions :
                 /\ SameButData(message, tables, message.instructions[i], Reference(data)[i])
                 /\ Reference(data)[i].data = data[i]
<1> DEFINE ixs == message.instructions
           n == Len(Layout)
<1>1. Len(ixs) \in Nat /\ DOMAIN ixs = 1..Len(ixs)
    BY JudgedTypes, StoredInstructions
<1>2. DOMAIN Reference(data) = DOMAIN ixs
    BY DEF Reference
<1>3. Len(Reference(data)) = Len(ixs)
    <2> HIDE DEF ixs
    <2> QED BY <1>1, <1>2
<1>4. ASSUME NEW i \in DOMAIN ixs
      PROVE  SameButData(message, tables, ixs[i], Reference(data)[i])
             /\ Reference(data)[i].data = data[i]
    <2> DEFINE ix == ixs[i]
    <2>1. n \in Nat /\ \A k \in 0..(n - 1) : Layout[k + 1] = ExpandedMeta(message, tables, k)
        BY LayoutExact DEF IsSequence
    <2>2. Indexes(ix) \subseteq 0..(n - 1)
        BY DEF InBounds, Range
    <2>3. /\ Reference(data)[i].program_id = Layout[ix.program_id_index + 1].pubkey
          /\ Reference(data)[i].accounts
                = [j \in DOMAIN ix.account_indexes |-> Layout[ix.account_indexes[j] + 1]]
          /\ Reference(data)[i].data = data[i]
        BY DEF Reference
    <2> HIDE DEF ix, n
    <2>4. Layout[ix.program_id_index + 1] = ExpandedMeta(message, tables, ix.program_id_index)
        <3>1. ix.program_id_index \in 0..(n - 1)
            BY <2>2 DEF Indexes
        <3> QED BY <2>1, <3>1, Zenon
    <2>5. \A j \in DOMAIN ix.account_indexes :
             Layout[ix.account_indexes[j] + 1] = ExpandedMeta(message, tables, ix.account_indexes[j])
        <3>1. \A j \in DOMAIN ix.account_indexes : ix.account_indexes[j] \in 0..(n - 1)
            BY <2>2 DEF Indexes, Range
        <3> QED BY <2>1, <3>1, Zenon
    <2>6. Reference(data)[i].program_id = ExpandedKeys(message, tables)[ix.program_id_index + 1]
        BY <2>3, <2>4 DEF ExpandedMeta
    <2>7. Reference(data)[i].accounts
             = [j \in DOMAIN ix.account_indexes |->
                   ExpandedMeta(message, tables, ix.account_indexes[j])]
        BY <2>3, <2>5
    <2> QED BY <2>3, <2>6, <2>7 DEF SameButData, ExpandedInstruction, ix
<1> QED BY <1>3, <1>4

\* With the stored data, the reference is what Squads makes of the message.
LEMMA ReferenceExpands ==
    ASSUME DiffInv, Resolves, InBounds
    PROVE  Reference(StoredBytes) = Expansion(message, tables)
<1> DEFINE ixs == message.instructions
           ref == Reference(StoredBytes)
<1>1. ASSUME NEW i \in DOMAIN ixs PROVE ref[i] = ExpandedInstruction(message, tables, ixs[i])
    <2>1. SameButData(message, tables, ixs[i], ref[i]) /\ ref[i].data = StoredBytes[i]
        BY ReferenceIs
    <2>2. StoredBytes[i] = ixs[i].data
        BY DEF StoredBytes
    <2>3. ref[i] = [program_id |-> ref[i].program_id, accounts |-> ref[i].accounts,
                    data |-> ref[i].data]
        BY DEF Reference
    <2> HIDE DEF ref, ixs
    <2> QED BY <2>1, <2>2, <2>3 DEF SameButData, ExpandedInstruction
<1>2. ref = [i \in DOMAIN ixs |-> ref[i]]
    BY DEF Reference
<1> HIDE DEF ref
<1>3. ref = [i \in DOMAIN ixs |-> ExpandedInstruction(message, tables, ixs[i])]
    BY <1>1, <1>2
<1> QED BY <1>3 DEF Expansion, ref

\* A list passes if, and only if, all resolves and it is what Squads makes of the message.
LEMMA JudgedOk ==
    ASSUME DiffInv, Judged
    PROVE  /\ verdict = Judgement
           /\ verdict = Ok <=> Resolves /\ InBounds /\ expected = Expansion(message, tables)
<1>1. verdict = Judgement
    BY DEF DiffInv, Judged
<1>2. Judgement = Ok
        <=> resolve(message, tables) = Ok
            /\ validate_instructions(message, AccountKeys(message, tables), expected) = Ok
    BY DEF Judgement, &&
<1>3. validate_instructions(message, AccountKeys(message, tables), expected) = Ok
        <=> MessageNamesKeys(message, tables) /\ expected = Expansion(message, tables)
    BY JudgedTypes, DiffExact
<1> QED BY <1>1, <1>2, <1>3, ResolveExact, BoundsExact

(***************************************************************************)
(* The diff is exact: whatever the message, its lookup tables and the list *)
(* shown for it, verify_proposal accepts the list if, and only if, it is   *)
(* the expansion of the message under the documented layout.               *)
(***************************************************************************)
THEOREM DiffIsExact == Spec => []AcceptsExactlyTheExpansion
<1>1. DiffInv => AcceptsExactlyTheExpansion
    BY JudgedOk, ReferenceExpands DEF AcceptsExactlyTheExpansion
<1> QED BY <1>1, DiffInvariant, PTL

(***************************************************************************)
(* A list that differs from the expansion in its data, and nothing else,   *)
(* is rejected as DataMismatch.                                            *)
(***************************************************************************)
THEOREM TamperingIsReported == Spec => []TamperedDataIsReported
<1>1. ASSUME DiffInv, Judged, Resolves, InBounds, Len(expected) = Len(message.instructions),
             expected = Reference(ExpectedBytes), ExpectedBytes # StoredBytes
      PROVE  verdict = "DataMismatch"
    <2> DEFINE ixs == message.instructions
    <2>1. \A i \in DOMAIN ixs : SameButData(message, tables, ixs[i], expected[i])
        BY <1>1, ReferenceIs
    <2>2. \E i \in DOMAIN ixs : expected[i].data # ixs[i].data
        BY <1>1 DEF ExpectedBytes, StoredBytes
    <2>3. validate_instructions(message, AccountKeys(message, tables), expected) = "DataMismatch"
        BY <1>1, <2>1, <2>2, JudgedTypes, BoundsExact, DataDiffers
    <2>4. resolve(message, tables) = Ok
        BY <1>1, ResolveExact
    <2>5. verdict = Judgement
        BY <1>1, JudgedOk
    <2> QED BY <2>3, <2>4, <2>5 DEF Judgement, &&, Ok
<1>2. DiffInv => TamperedDataIsReported
    BY <1>1 DEF TamperedDataIsReported
<1> QED BY <1>2, DiffInvariant, PTL

(***************************************************************************)
(* What the client shows for a message without lookups is the expansion.   *)
(***************************************************************************)
LEMMA NothingLoaded ==
    ASSUME NEW m, NEW list
    PROVE  LoadedThrough(m, << >>, list) = << >>
<1> DEFINE f == [l \in DOMAIN << >> |->
                    LET indexes == m.address_table_lookups[l][list]
                    IN  [k \in DOMAIN indexes |-> << >>[l][indexes[k] + 1]]]
<1>1. f = << >>
    OBVIOUS
<1> HIDE DEF f
<1>2. Len(f) = 0
    BY <1>1
<1>3. FlattenSeq(f) = f
    BY <1>2, Zenon DEF FlattenSeq
<1>4. LoadedThrough(m, << >>, list) = FlattenSeq(f)
    BY Zenon DEF LoadedThrough, f
<1> QED BY <1>1, <1>3, <1>4

\* The list of the client (buildExpected) is what Squads makes of such a message.
LEMMA ClientExpands ==
    ASSUME DiffInv, Resolves, InBounds, message.address_table_lookups = << >>
    PROVE  buildExpected(message) = Expansion(message, << >>)
<1> DEFINE ixs == message.instructions
           keys == message.account_keys
           z == Len(keys)
<1>1. tables = << >>
    BY JudgedTypes DEF Resolves, IsSequence
<1>2. LoadedThrough(message, << >>, "writable_indexes") = << >>
      /\ LoadedThrough(message, << >>, "readonly_indexes") = << >>
    BY NothingLoaded
<1>3. z \in Nat /\ IsSequence(keys)
    BY JudgedTypes DEF VaultTransactionMessage, IsSequence
<1>4. ExpandedKeys(message, << >>) = keys
    <2>1. keys \in Seq({keys[i] : i \in 1..z})
        BY <1>3, IsSequenceOf
    <2> HIDE DEF keys
    <2>2. keys \o << >> = keys
        BY <2>1
    <2> QED BY <1>2, <2>2, Zenon DEF ExpandedKeys, keys
<1>5. /\ message.num_signers \in Nat /\ message.num_writable_signers \in Nat
      /\ message.num_writable_non_signers \in Nat
      /\ message.num_writable_signers <= message.num_signers
    <2>1. Byte \subseteq Nat
        BY DEF Byte
    <2> QED BY <2>1, JudgedTypes DEF VaultTransactionMessage
<1>6. ASSUME NEW k \in Nat, k < z PROVE ClientMeta(message, k) = ExpandedMeta(message, << >>, k)
    <2>1. ExpandedMeta(message, << >>, k)
            = Meta(keys[k + 1], is_signer_index(message, k),
                   is_static_writable_index(message, k)
                   \/ (k >= z /\ k - z < Len(LoadedThrough(message, << >>, "writable_indexes"))))
        BY <1>4 DEF ExpandedMeta, Meta
    <2>2. (is_static_writable_index(message, k)
             \/ (k >= z /\ k - z < Len(LoadedThrough(message, << >>, "writable_indexes"))))
           = isWritable(message, k)
        <3>1. (k >= z /\ k - z < Len(LoadedThrough(message, << >>, "writable_indexes"))) = FALSE
            BY <1>3, <1>6
        <3>2. (k < z) = TRUE
            BY <1>6
        <3> QED BY <3>1, <3>2 DEF is_static_writable_index, isWritable
    <2> QED BY <2>1, <2>2 DEF ClientMeta, Meta, is_signer_index
<1>7. MessageNamesKeys(message, << >>)
    BY <1>1, BoundsExact
<1>8. ASSUME NEW i \in DOMAIN ixs
      PROVE  buildExpected(message)[i] = ExpandedInstruction(message, << >>, ixs[i])
    <2> DEFINE ix == ixs[i]
               indexes == ix.account_indexes
    <2>1. ix.program_id_index < z /\ \A j \in DOMAIN indexes : indexes[j] < z
        BY <1>4, <1>7 DEF MessageNamesKeys, InstructionNamesKeys, NamesKey
    <2>2. ix.program_id_index \in Byte /\ indexes \in Seq(Byte)
        BY JudgedTypes, StoredInstructions DEF MultisigCompiledInstruction
    <2>3. buildExpected(message)[i]
            = [program_id |-> keys[ix.program_id_index + 1],
               accounts |-> [j \in DOMAIN indexes |-> ClientMeta(message, indexes[j])],
               data |-> ix.data]
        BY DEF buildExpected
    <2> HIDE DEF ix
    <2>4. \A j \in DOMAIN indexes :
             ClientMeta(message, indexes[j]) = ExpandedMeta(message, << >>, indexes[j])
        <3>1. \A j \in DOMAIN indexes : indexes[j] \in Byte
            BY <2>2
        <3>2. Byte \subseteq Nat
            BY DEF Byte
        <3> QED BY <1>6, <2>1, <3>1, <3>2, Zenon
    <2> QED BY <1>4, <2>3, <2>4 DEF ExpandedInstruction, ix
<1> QED BY <1>8 DEF buildExpected, Expansion

(***************************************************************************)
(* What the client shows for a message it supports passes the diff.        *)
(***************************************************************************)
THEOREM ClientIsAccepted == Spec => []ClientPassesTheDiff
<1>1. ASSUME DiffInv, Resolves, InBounds, message.address_table_lookups = << >>
      PROVE  validate_instructions(message, AccountKeys(message, << >>), buildExpected(message)) = Ok
    <2>1. tables = << >>
        BY <1>1, JudgedTypes DEF Resolves, IsSequence
    <2>2. MessageNamesKeys(message, << >>)
        BY <1>1, <2>1, BoundsExact
    <2>3. ExpectedInstructions(Expansion(message, << >>))
        BY <1>1, JudgedTypes, ExpansionType
    <2> QED BY <1>1, <2>2, <2>3, JudgedTypes, ClientExpands, DiffExact
<1>2. DiffInv => ClientPassesTheDiff
    BY <1>1 DEF ClientPassesTheDiff
<1> QED BY <1>2, DiffInvariant, PTL
=============================================================================
