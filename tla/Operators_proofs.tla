-------------------------- MODULE Operators_proofs --------------------------
(***************************************************************************)
(* What the operators of the model return, for all their arguments: the    *)
(* verdict combinators, sequences and FlattenSeq, the diff of              *)
(* validation.rs, the hex of digests, and the votes of Squads. No state    *)
(* and no step: lemmas that the proofs about the specifications cite.      *)
(***************************************************************************)
EXTENDS Validation, SquadsRuntime, BufferHash, WellFoundedInduction,
        SequenceTheorems, TLAPS

(***************************************************************************)
(* A condition passes if it holds (its error being an error).              *)
(***************************************************************************)
LEMMA RequireOk ==
    ASSUME NEW condition \in BOOLEAN, NEW error, error # Ok
    PROVE  Require(condition, error) = Ok <=> condition
BY DEF Require

(***************************************************************************)
(* f && g passes if both do.                                               *)
(***************************************************************************)
LEMMA AndOk ==
    ASSUME NEW first, NEW second
    PROVE  (first && second) = Ok <=> first = Ok /\ second = Ok
BY DEF &&

\* A set of natural numbers has a least element.
LEMMA MinimumExists ==
    ASSUME NEW S \in SUBSET Nat, S # {}
    PROVE  \E i \in S : \A j \in S : i <= j
<1>1. IsWellFoundedOn(OpToRel(<, Nat), Nat)
    BY NatLessThanWellFounded
<1>2. PICK x \in S : \A y \in S : ~ (<<y, x>> \in OpToRel(<, Nat))
    <2> HIDE DEF OpToRel
    <2> QED BY <1>1, WFMin
<1>3. \A y \in S : ~(y < x)
    BY <1>2 DEF OpToRel
<1> QED BY <1>3

(***************************************************************************)
(* A loop passes if every iteration does: FirstError answers with the      *)
(* verdict of a failing iteration whenever there is one.                   *)
(***************************************************************************)
LEMMA FirstErrorOk ==
    ASSUME NEW verdicts, DOMAIN verdicts \subseteq Nat
    PROVE  FirstError(verdicts) = Ok <=> \A i \in DOMAIN verdicts : verdicts[i] = Ok
<1> DEFINE bad == {i \in DOMAIN verdicts : verdicts[i] # Ok}
<1>1. CASE bad = {}
    BY <1>1 DEF FirstError
<1>2. CASE bad # {}
    <2>1. \E i \in bad : \A j \in bad : i <= j
        BY <1>2, MinimumExists
    <2>2. (CHOOSE i \in bad : \A j \in bad : i <= j) \in bad
        BY <2>1
    <2> QED BY <2>2, <1>2 DEF FirstError
<1> QED BY <1>1, <1>2

(***************************************************************************)
(* If iterations fail, and all with the same error, the loop answers with  *)
(* that error.                                                             *)
(***************************************************************************)
LEMMA FirstErrorAmong ==
    ASSUME NEW verdicts, DOMAIN verdicts \subseteq Nat, NEW error,
           \A i \in DOMAIN verdicts : verdicts[i] \in {Ok, error},
           \E i \in DOMAIN verdicts : verdicts[i] # Ok
    PROVE  FirstError(verdicts) = error
<1> DEFINE bad == {i \in DOMAIN verdicts : verdicts[i] # Ok}
<1>1. bad # {}
    OBVIOUS
<1>2. \E i \in bad : \A j \in bad : i <= j
    BY <1>1, MinimumExists
<1>3. (CHOOSE i \in bad : \A j \in bad : i <= j) \in bad
    BY <1>2
<1> QED BY <1>1, <1>3 DEF FirstError

(***************************************************************************)
(* Induction over the natural numbers, for a set of them.                  *)
(***************************************************************************)
LEMMA NatInduct ==
    ASSUME NEW S, 0 \in S, \A n \in Nat : n \in S => n + 1 \in S
    PROVE  Nat \subseteq S
<1> DEFINE bad == Nat \ S
<1> SUFFICES ASSUME bad # {} PROVE FALSE
    OBVIOUS
<1>1. PICK m \in bad : \A k \in bad : m <= k
    BY MinimumExists
<1>2. m # 0 /\ m \in Nat
    OBVIOUS
<1>3. m - 1 \in Nat /\ m - 1 \in S
    BY <1>1, <1>2
<1> QED BY <1>1, <1>2, <1>3

(***************************************************************************)
(* The recursive function in FlattenSeq is the one its equation describes: *)
(* such a function exists, by induction on the number of sequences.        *)
(***************************************************************************)
LEMMA FlattenDef ==
    ASSUME NEW seqs, Len(seqs) \in Nat \ {0}
    PROVE  \E f : /\ f = [i \in 1..Len(seqs) |->
                            IF i = 1 THEN seqs[i] ELSE f[i - 1] \o seqs[i]]
                  /\ FlattenSeq(seqs) = f[Len(seqs)]
<1> DEFINE Sums(f, n) == f = [i \in 1..n |-> IF i = 1 THEN seqs[i] ELSE f[i - 1] \o seqs[i]]
           S == {n \in Nat : \E f : Sums(f, n)}
<1>1. 0 \in S
    <2>1. Sums([i \in 1..0 |-> {}], 0)
        OBVIOUS
    <2> QED BY <2>1, Zenon
<1>2. ASSUME NEW n \in Nat, n \in S PROVE n + 1 \in S
    <2>1. PICK f : Sums(f, n)
        BY <1>2
    <2> DEFINE g == [i \in 1..(n + 1) |-> IF i = 1 THEN seqs[i] ELSE f[i - 1] \o seqs[i]]
    <2>2. \A i \in 1..n : g[i] = f[i]
        <3> SUFFICES ASSUME NEW i \in 1..n PROVE g[i] = f[i]
            OBVIOUS
        <3> DEFINE ff == [j \in 1..n |-> IF j = 1 THEN seqs[j] ELSE f[j - 1] \o seqs[j]]
        <3>1. ff[i] = IF i = 1 THEN seqs[i] ELSE f[i - 1] \o seqs[i]
            OBVIOUS
        <3>2. f = ff
            BY <2>1, Zenon
        <3>3. g[i] = IF i = 1 THEN seqs[i] ELSE f[i - 1] \o seqs[i]
            OBVIOUS
        <3> HIDE DEF ff, g
        <3> QED BY <3>1, <3>2, <3>3, Zenon
    <2>3. \A i \in 1..(n + 1) : i # 1 => i - 1 \in 1..n
        OBVIOUS
    <2>4. \A i \in 1..(n + 1) : i # 1 => g[i] = g[i - 1] \o seqs[i]
        <3> SUFFICES ASSUME NEW i \in 1..(n + 1), i # 1 PROVE g[i] = g[i - 1] \o seqs[i]
            OBVIOUS
        <3>1. g[i - 1] = f[i - 1]
            BY <2>2, <2>3
        <3>2. g[i] = f[i - 1] \o seqs[i]
            OBVIOUS
        <3> QED BY <3>1, <3>2
    <2>5. Sums(g, n + 1)
        <3>1. g = [i \in 1..(n + 1) |-> g[i]]
            OBVIOUS
        <3>2. \A i \in 1..(n + 1) : g[i] = IF i = 1 THEN seqs[i] ELSE g[i - 1] \o seqs[i]
            BY <2>4
        <3> HIDE DEF g
        <3> QED BY <3>1, <3>2
    <2> HIDE DEF Sums, g
    <2> QED BY <2>5
<1>3. \E f : Sums(f, Len(seqs))
    <2> HIDE DEF Sums
    <2>1. Nat \subseteq S
        <3> HIDE DEF S
        <3> QED BY <1>1, <1>2, NatInduct
    <2> QED BY <2>1
<1>4. PICK f : f = CHOOSE h : Sums(h, Len(seqs))
    OBVIOUS
<1>5. Sums(f, Len(seqs))
    <2> HIDE DEF Sums
    <2> QED BY <1>3, <1>4, Zenon
<1>6. FlattenSeq(seqs) = f[Len(seqs)]
    BY <1>4, Zenon DEF FlattenSeq
<1> QED BY <1>5, <1>6, Zenon

(***************************************************************************)
(* What Len and indexing see of a sequence is the sequence.                *)
(***************************************************************************)
LEMMA IsSequenceOf ==
    ASSUME NEW s, IsSequence(s), NEW S, \A i \in 1..Len(s) : s[i] \in S
    PROVE  s \in Seq(S)
<1> DEFINE n == Len(s)
<1>1. n \in Nat /\ s = [i \in 1..n |-> s[i]]
    BY DEF IsSequence
<1> HIDE DEF n
<1>2. s \in [1..n -> S]
    BY <1>1 DEF n
<1> QED BY <1>1, <1>2, SeqDef

\* A sequence in the sense of Sequences is one in the sense of the model.
LEMMA SequenceIs ==
    ASSUME NEW S, NEW s \in Seq(S)
    PROVE  IsSequence(s)
BY DEF IsSequence

(***************************************************************************)
(* FlattenSeq concatenates: what it returns for sequences is a sequence, as *)
(* long as they are together. f holds its partial results.                 *)
(***************************************************************************)
LEMMA FlattenUnfold ==
    ASSUME NEW seqs, Len(seqs) \in Nat \ {0}
    PROVE  \E f : /\ FlattenSeq(seqs) = f[Len(seqs)]
                  /\ f[1] = seqs[1]
                  /\ \A i \in Nat \ {0} : i + 1 <= Len(seqs) => f[i + 1] = f[i] \o seqs[i + 1]
<1> DEFINE n == Len(seqs)
<1>1. PICK f : /\ f = [i \in 1..n |-> IF i = 1 THEN seqs[i] ELSE f[i - 1] \o seqs[i]]
               /\ FlattenSeq(seqs) = f[n]
    BY FlattenDef
<1> DEFINE ff == [i \in 1..n |-> IF i = 1 THEN seqs[i] ELSE f[i - 1] \o seqs[i]]
<1>2. f = ff
    BY <1>1, Zenon
<1>3. ff[1] = seqs[1]
    OBVIOUS
<1>4. ASSUME NEW i \in Nat \ {0}, i + 1 <= n
      PROVE  ff[i + 1] = f[i] \o seqs[i + 1]
    <2>1. i + 1 \in 1..n /\ i + 1 # 1 /\ (i + 1) - 1 = i
        BY <1>4
    <2> DEFINE j == i + 1
    <2>2. ff[j] = IF j = 1 THEN seqs[j] ELSE f[j - 1] \o seqs[j]
        BY <2>1
    <2> HIDE DEF ff
    <2> QED BY <2>1, <2>2
<1> HIDE DEF ff
<1>5. f[1] = seqs[1] /\ \A i \in Nat \ {0} : i + 1 <= n => f[i + 1] = f[i] \o seqs[i + 1]
    BY <1>2, <1>3, <1>4
<1> QED BY <1>1, <1>5

\* Sequences over S make a sequence over S.
LEMMA FlattenType ==
    ASSUME NEW S, NEW seqs, IsSequence(seqs), \A l \in 1..Len(seqs) : seqs[l] \in Seq(S)
    PROVE  FlattenSeq(seqs) \in Seq(S)
<1> DEFINE n == Len(seqs)
<1>1. n \in Nat
    BY DEF IsSequence
<1>2. seqs = [l \in 1..n |-> seqs[l]]
    BY DEF IsSequence
<1>3. CASE n = 0
    <2>1. FlattenSeq(seqs) = seqs
        BY <1>3, Zenon DEF FlattenSeq
    <2>2. seqs = << >>
        BY <1>2, <1>3
    <2> QED BY <2>1, <2>2
<1>4. CASE n # 0
    <2>1. PICK f : /\ FlattenSeq(seqs) = f[n]
                   /\ f[1] = seqs[1]
                   /\ \A i \in Nat \ {0} : i + 1 <= n => f[i + 1] = f[i] \o seqs[i + 1]
        BY <1>1, <1>4, FlattenUnfold
    <2> DEFINE T == {i \in Nat : i \in 1..n => f[i] \in Seq(S)}
    <2> HIDE DEF n
    <2>2. 0 \in T
        OBVIOUS
    <2>3. ASSUME NEW i \in Nat, i \in T PROVE i + 1 \in T
        <3>1. CASE i = 0
            BY <2>1, <3>1 DEF n
        <3>2. CASE i # 0 /\ i + 1 \in 1..n
            <4>1. f[i] \in Seq(S) /\ seqs[i + 1] \in Seq(S)
                BY <1>1, <2>3, <3>2 DEF n
            <4>2. i \in Nat \ {0} /\ i + 1 <= n
                BY <1>1, <3>2
            <4>3. f[i + 1] = f[i] \o seqs[i + 1]
                BY <2>1, <4>2, Zenon
            <4>4. f[i + 1] \in Seq(S)
                BY <4>1, <4>3
            <4> QED BY <4>4
        <3>3. CASE i + 1 \notin 1..n
            BY <3>3
        <3> QED BY <3>1, <3>2, <3>3
    <2>4. n \in T
        <3> HIDE DEF T
        <3> QED BY <1>1, <2>2, <2>3, NatInduct
    <2> QED BY <1>1, <1>4, <2>1, <2>4
<1> QED BY <1>3, <1>4

\* As many sequences, each as long as its counterpart, make a sequence as long.
LEMMA FlattenLen ==
    ASSUME NEW S, NEW seqs, IsSequence(seqs), \A l \in 1..Len(seqs) : seqs[l] \in Seq(S),
           NEW R, NEW others, IsSequence(others), \A l \in 1..Len(others) : others[l] \in Seq(R),
           Len(others) = Len(seqs), \A l \in 1..Len(seqs) : Len(others[l]) = Len(seqs[l])
    PROVE  Len(FlattenSeq(others)) = Len(FlattenSeq(seqs))
<1> DEFINE n == Len(seqs)
<1>1. n \in Nat /\ Len(others) = n
    BY DEF IsSequence
<1>2. seqs = [l \in 1..n |-> seqs[l]] /\ others = [l \in 1..n |-> others[l]]
    BY DEF IsSequence
<1>3. CASE n = 0
    <2>1. FlattenSeq(seqs) = seqs /\ FlattenSeq(others) = others
        BY <1>3, Zenon DEF FlattenSeq
    <2> QED BY <2>1
<1>4. CASE n # 0
    <2>1. PICK f : /\ FlattenSeq(seqs) = f[n]
                   /\ f[1] = seqs[1]
                   /\ \A i \in Nat \ {0} : i + 1 <= n => f[i + 1] = f[i] \o seqs[i + 1]
        BY <1>1, <1>4, FlattenUnfold
    <2>2. PICK g : /\ FlattenSeq(others) = g[n]
                   /\ g[1] = others[1]
                   /\ \A i \in Nat \ {0} : i + 1 <= n => g[i + 1] = g[i] \o others[i + 1]
        <3> HIDE DEF n
        <3>1. Len(others) = n /\ Len(others) \in Nat \ {0}
            BY <1>1, <1>4
        <3>2. \E g : /\ FlattenSeq(others) = g[Len(others)]
                     /\ g[1] = others[1]
                     /\ \A i \in Nat \ {0} :
                           i + 1 <= Len(others) => g[i + 1] = g[i] \o others[i + 1]
            BY <3>1, FlattenUnfold, Zenon
        <3> QED BY <3>1, <3>2
    <2> DEFINE T == {i \in Nat : i \in 1..n => /\ f[i] \in Seq(S) /\ g[i] \in Seq(R)
                                              /\ Len(g[i]) = Len(f[i])}
    <2> HIDE DEF n
    <2>3. 0 \in T
        OBVIOUS
    <2>4. ASSUME NEW i \in Nat, i \in T PROVE i + 1 \in T
        <3>1. CASE i = 0
            BY <2>1, <2>2, <3>1 DEF n
        <3>2. CASE i # 0 /\ i + 1 \in 1..n
            <4>1. f[i] \in Seq(S) /\ seqs[i + 1] \in Seq(S) /\ g[i] \in Seq(R)
                  /\ others[i + 1] \in Seq(R)
                  /\ Len(g[i]) = Len(f[i]) /\ Len(others[i + 1]) = Len(seqs[i + 1])
                BY <1>1, <2>4, <3>2 DEF n
            <4>2. i \in Nat \ {0} /\ i + 1 <= n
                BY <1>1, <3>2
            <4>3. f[i + 1] = f[i] \o seqs[i + 1] /\ g[i + 1] = g[i] \o others[i + 1]
                BY <2>1, <2>2, <4>2, Zenon
            <4>4. f[i + 1] \in Seq(S) /\ g[i + 1] \in Seq(R)
                BY <4>1, <4>3
            <4>5. Len(f[i + 1]) = Len(f[i]) + Len(seqs[i + 1])
                BY <4>1, <4>3, ConcatProperties
            <4>6. Len(g[i + 1]) = Len(g[i]) + Len(others[i + 1])
                <5>1. g[i] \in Seq(R) /\ others[i + 1] \in Seq(R) /\ g[i + 1] = g[i] \o others[i + 1]
                    BY <4>1, <4>3
                <5> QED BY <5>1, ConcatProperties
            <4>7. Len(g[i + 1]) = Len(f[i + 1])
                BY <4>1, <4>5, <4>6
            <4> QED BY <4>4, <4>7
        <3>3. CASE i + 1 \notin 1..n
            BY <3>3
        <3> QED BY <3>1, <3>2, <3>3
    <2>5. n \in T
        <3> HIDE DEF T
        <3> QED BY <1>1, <2>3, <2>4, NatInduct
    <2> QED BY <1>1, <1>4, <2>1, <2>2, <2>5
<1> QED BY <1>3, <1>4

(***************************************************************************)
(* The diff of validation.rs. The key table it resolves is the one Squads  *)
(* resolves, and the flags it derives are the flags Squads derives.        *)
(***************************************************************************)
LEMMA KeysAgree ==
    ASSUME NEW message, NEW tables
    PROVE  /\ AccountKeys(message, tables).keys = ExpandedKeys(message, tables)
           /\ AccountKeys(message, tables).num_loaded_writable
                  = Len(LoadedThrough(message, tables, "writable_indexes"))
<1>1. LoadedWritable(message, tables) = LoadedThrough(message, tables, "writable_indexes")
    BY DEF LoadedWritable, LoadedThrough, Loaded
<1>2. LoadedReadonly(message, tables) = LoadedThrough(message, tables, "readonly_indexes")
    BY DEF LoadedReadonly, LoadedThrough, Loaded
<1> QED BY <1>1, <1>2 DEF AccountKeys, ExpandedKeys

\* get, is_writable and is_signer (validation.rs) say of a key what Squads does.
LEMMA FlagsAgree ==
    ASSUME NEW message, VaultTransactionMessage(message), NEW tables, NEW index \in Byte
    PROVE  LET keys == AccountKeys(message, tables)
               meta == ExpandedMeta(message, tables, index)
           IN  /\ get(keys, index) = meta.pubkey
               /\ is_writable(keys, index) <=> meta.is_writable
               /\ is_signer(keys, index) <=> meta.is_signer
<1> DEFINE keys == AccountKeys(message, tables)
           loaded == LoadedThrough(message, tables, "writable_indexes")
           static == Len(message.account_keys)
<1>1. /\ keys.num_static = static
      /\ keys.num_signers = message.num_signers
      /\ keys.num_writable_signers = message.num_writable_signers
      /\ keys.num_writable_non_signers = message.num_writable_non_signers
    BY DEF AccountKeys
<1>2. keys.keys = ExpandedKeys(message, tables) /\ keys.num_loaded_writable = Len(loaded)
    BY KeysAgree
<1>3. static \in Nat /\ index \in Nat
      /\ message.num_signers \in Nat /\ message.num_writable_signers \in Nat
      /\ message.num_writable_non_signers \in Nat
    <2>1. IsSequence(message.account_keys)
        BY DEF VaultTransactionMessage
    <2>2. static \in Nat
        BY <2>1 DEF IsSequence
    <2>3. Byte \subseteq Nat
        BY DEF Byte
    <2>4. message.num_signers \in Byte /\ message.num_writable_signers \in Byte
          /\ message.num_writable_non_signers \in Byte
        BY DEF VaultTransactionMessage
    <2> QED BY <2>2, <2>3, <2>4
<1> HIDE DEF keys, loaded, static
<1>4. get(keys, index) = ExpandedKeys(message, tables)[index + 1]
    BY <1>2 DEF get
<1>5. is_signer(keys, index) <=> is_signer_index(message, index)
    BY <1>1 DEF is_signer, is_signer_index
<1>6. is_writable(keys, index) <=>
         is_static_writable_index(message, index) \/ (index >= static /\ index - static < Len(loaded))
    BY <1>1, <1>2, <1>3 DEF is_writable, is_static_writable_index, static
<1> QED BY <1>4, <1>5, <1>6 DEF ExpandedMeta, static, loaded, keys

(***************************************************************************)
(* An account passes if its index names a key, and what is shown of it is  *)
(* what Squads makes of it.                                                *)
(***************************************************************************)
NamesKey(message, tables, index) == index < Len(ExpandedKeys(message, tables))

\* CheckAccount accepts what Squads makes of an index in bounds, nothing else.
LEMMA AccountChecked ==
    ASSUME NEW message, VaultTransactionMessage(message), NEW tables,
           NEW index \in Byte, NEW meta, ExpectedAccountMeta(meta)
    PROVE  CheckAccount(AccountKeys(message, tables), index, meta) = Ok
               <=> NamesKey(message, tables, index) /\ meta = ExpandedMeta(message, tables, index)
<1> DEFINE keys == AccountKeys(message, tables)
           expanded == ExpandedMeta(message, tables, index)
<1>1. /\ get(keys, index) = expanded.pubkey
      /\ is_writable(keys, index) <=> expanded.is_writable
      /\ is_signer(keys, index) <=> expanded.is_signer
    BY FlagsAgree
<1>2. in_bounds(keys, index) = Ok <=> NamesKey(message, tables, index)
    BY KeysAgree DEF in_bounds, Require, Ok, NamesKey
<1>3. CheckAccount(keys, index, meta) = Ok
          <=> /\ in_bounds(keys, index) = Ok
              /\ get(keys, index) = meta.pubkey
              /\ is_writable(keys, index) <=> meta.is_writable
              /\ is_signer(keys, index) <=> meta.is_signer
    <2> HIDE DEF keys
    <2>1. CheckAccount(keys, index, meta) = Ok
              <=> /\ in_bounds(keys, index) = Ok
                  /\ get(keys, index) = meta.pubkey
                  /\ is_writable(keys, index) = meta.is_writable
                  /\ is_signer(keys, index) = meta.is_signer
        BY DEF CheckAccount, Require, &&, Ok
    <2>2. meta.is_writable \in BOOLEAN /\ meta.is_signer \in BOOLEAN
        BY DEF ExpectedAccountMeta
    <2>3. is_writable(keys, index) \in BOOLEAN
        <3>1. CASE index < keys.num_static
            BY <3>1 DEF is_writable
        <3>2. CASE ~(index < keys.num_static)
            BY <3>2 DEF is_writable
        <3> QED BY <3>1, <3>2
    <2>4. is_signer(keys, index) \in BOOLEAN
        BY DEF is_signer
    <2> QED BY <2>1, <2>2, <2>3, <2>4
<1>4. expanded = [pubkey |-> expanded.pubkey, is_signer |-> expanded.is_signer,
                  is_writable |-> expanded.is_writable]
      /\ expanded.is_signer \in BOOLEAN /\ expanded.is_writable \in BOOLEAN
    BY DEF ExpandedMeta, is_signer_index, is_static_writable_index
<1>5. meta = expanded <=> /\ expanded.pubkey = meta.pubkey
                          /\ expanded.is_writable <=> meta.is_writable
                          /\ expanded.is_signer <=> meta.is_signer
    <2> HIDE DEF expanded
    <2> QED BY <1>4 DEF ExpectedAccountMeta
<1> HIDE DEF keys, expanded
<1>6. CheckAccount(keys, index, meta) = Ok <=> NamesKey(message, tables, index) /\ meta = expanded
    BY <1>1, <1>2, <1>3, <1>5
<1> QED BY <1>6 DEF keys, expanded

(***************************************************************************)
(* An instruction passes if its indexes name keys, and all that is shown   *)
(* of it is what Squads makes of it; the data is looked at last.           *)
(***************************************************************************)
InstructionNamesKeys(message, tables, ix) ==
    /\ NamesKey(message, tables, ix.program_id_index)
    /\ \A j \in DOMAIN ix.account_indexes : NamesKey(message, tables, ix.account_indexes[j])

SameButData(message, tables, ix, exp) ==
    LET expanded == ExpandedInstruction(message, tables, ix)
    IN  exp.program_id = expanded.program_id /\ exp.accounts = expanded.accounts

\* So does the loop over the accounts of an instruction.
LEMMA AccountsChecked ==
    ASSUME NEW message, VaultTransactionMessage(message), NEW tables,
           NEW stored, MultisigCompiledInstruction(stored),
           NEW exp, ExpectedInstruction(exp)
    PROVE  LET keys == AccountKeys(message, tables)
               indexes == stored.account_indexes
           IN  (/\ Len(indexes) = Len(exp.accounts)
                /\ FirstError([j \in DOMAIN indexes |->
                      CheckAccount(keys, indexes[j], exp.accounts[j])]) = Ok)
               <=> /\ \A j \in DOMAIN indexes : NamesKey(message, tables, indexes[j])
                   /\ exp.accounts = [j \in DOMAIN indexes |->
                                         ExpandedMeta(message, tables, indexes[j])]
<1> DEFINE keys == AccountKeys(message, tables)
           indexes == stored.account_indexes
           expanded == [j \in DOMAIN indexes |-> ExpandedMeta(message, tables, indexes[j])]
           verdicts == [j \in DOMAIN indexes |-> CheckAccount(keys, indexes[j], exp.accounts[j])]
<1>1. indexes \in Seq(Byte) /\ IsSequence(exp.accounts)
    BY DEF MultisigCompiledInstruction, ExpectedInstruction
<1>2. DOMAIN indexes = 1..Len(indexes) /\ Len(indexes) \in Nat
      /\ DOMAIN exp.accounts = 1..Len(exp.accounts) /\ Len(exp.accounts) \in Nat
    BY <1>1 DEF IsSequence
<1>3. Len(indexes) = Len(exp.accounts) <=> DOMAIN exp.accounts = DOMAIN indexes
    BY <1>2
<1>4. ASSUME DOMAIN exp.accounts = DOMAIN indexes
      PROVE  FirstError(verdicts) = Ok
                 <=> \A j \in DOMAIN indexes :
                        /\ NamesKey(message, tables, indexes[j])
                        /\ exp.accounts[j] = ExpandedMeta(message, tables, indexes[j])
    <2>1. DOMAIN verdicts \subseteq Nat
        BY <1>2
    <2>2. FirstError(verdicts) = Ok <=> \A j \in DOMAIN verdicts : verdicts[j] = Ok
        <3> HIDE DEF verdicts
        <3> QED BY <2>1, FirstErrorOk
    <2>3. \A j \in DOMAIN indexes :
             CheckAccount(keys, indexes[j], exp.accounts[j]) = Ok
                 <=> /\ NamesKey(message, tables, indexes[j])
                     /\ exp.accounts[j] = ExpandedMeta(message, tables, indexes[j])
        <3> SUFFICES ASSUME NEW j \in DOMAIN indexes
                     PROVE  CheckAccount(keys, indexes[j], exp.accounts[j]) = Ok
                                <=> /\ NamesKey(message, tables, indexes[j])
                                    /\ exp.accounts[j] = ExpandedMeta(message, tables, indexes[j])
            OBVIOUS
        <3>1. indexes[j] \in Byte
            BY <1>1
        <3>2. ExpectedAccountMeta(exp.accounts[j])
            BY <1>4 DEF ExpectedInstruction
        <3> QED BY <3>1, <3>2, AccountChecked
    <2> HIDE DEF keys
    <2> QED BY <2>2, <2>3
<1>5. exp.accounts = expanded
          <=> /\ DOMAIN exp.accounts = DOMAIN indexes
              /\ \A j \in DOMAIN indexes : exp.accounts[j] = ExpandedMeta(message, tables, indexes[j])
    <2>1. exp.accounts = [j \in DOMAIN exp.accounts |-> exp.accounts[j]]
        BY <1>1, <1>2 DEF IsSequence
    <2> HIDE DEF indexes
    <2> QED BY <2>1
<1> HIDE DEF verdicts, expanded, keys, indexes
<1>6. Len(indexes) = Len(exp.accounts) /\ FirstError(verdicts) = Ok
          <=> (\A j \in DOMAIN indexes : NamesKey(message, tables, indexes[j])) /\ exp.accounts = expanded
    BY <1>3, <1>4, <1>5
<1> QED BY <1>6 DEF verdicts, expanded, keys, indexes

\* An instruction passes if it is what Squads makes of the stored one; if only its
\* data differ, that is what is reported.
LEMMA InstructionChecked ==
    ASSUME NEW message, VaultTransactionMessage(message), NEW tables,
           NEW stored, MultisigCompiledInstruction(stored),
           NEW exp, ExpectedInstruction(exp)
    PROVE  LET verdict == CheckInstruction(AccountKeys(message, tables), stored, exp)
               accounts == /\ InstructionNamesKeys(message, tables, stored)
                           /\ SameButData(message, tables, stored, exp)
           IN  /\ verdict = Ok <=> accounts /\ exp.data = stored.data
               /\ accounts /\ exp.data # stored.data => verdict = "DataMismatch"
<1> DEFINE keys == AccountKeys(message, tables)
           indexes == stored.account_indexes
           verdicts == [j \in DOMAIN indexes |-> CheckAccount(keys, indexes[j], exp.accounts[j])]
           expanded == [j \in DOMAIN indexes |-> ExpandedMeta(message, tables, indexes[j])]
           shown == /\ \A j \in DOMAIN indexes : NamesKey(message, tables, indexes[j])
                    /\ exp.accounts = expanded
           program == ExpandedKeys(message, tables)[stored.program_id_index + 1]
<1>1. Len(indexes) = Len(exp.accounts) /\ FirstError(verdicts) = Ok <=> shown
    BY AccountsChecked
<1>2. in_bounds(keys, stored.program_id_index) = Ok
          <=> NamesKey(message, tables, stored.program_id_index)
    BY KeysAgree DEF in_bounds, Require, Ok, NamesKey
<1>3. get(keys, stored.program_id_index) = program
    BY KeysAgree DEF get
<1>4. InstructionNamesKeys(message, tables, stored) /\ SameButData(message, tables, stored, exp)
          <=> /\ NamesKey(message, tables, stored.program_id_index) /\ exp.program_id = program
              /\ shown
    BY DEF InstructionNamesKeys, SameButData, ExpandedInstruction
<1> HIDE DEF keys, verdicts, shown, program
<1>5. CheckInstruction(keys, stored, exp)
          = (in_bounds(keys, stored.program_id_index)
             && Require(get(keys, stored.program_id_index) = exp.program_id, "ProgramIdMismatch")
             && Require(Len(indexes) = Len(exp.accounts), "AccountCountMismatch")
             && FirstError(verdicts)
             && Require(stored.data = exp.data, "DataMismatch"))
    BY DEF CheckInstruction, verdicts
<1>6. CheckInstruction(keys, stored, exp) = Ok
          <=> /\ in_bounds(keys, stored.program_id_index) = Ok
              /\ get(keys, stored.program_id_index) = exp.program_id
              /\ Len(indexes) = Len(exp.accounts) /\ FirstError(verdicts) = Ok
              /\ stored.data = exp.data
    BY <1>5 DEF Require, &&, Ok
<1>7. /\ in_bounds(keys, stored.program_id_index) = Ok
      /\ get(keys, stored.program_id_index) = exp.program_id
      /\ Len(indexes) = Len(exp.accounts) /\ FirstError(verdicts) = Ok
      /\ stored.data # exp.data
      => CheckInstruction(keys, stored, exp) = "DataMismatch"
    BY <1>5 DEF Require, &&, Ok
<1> HIDE DEF indexes
<1> QED BY <1>1, <1>2, <1>3, <1>4, <1>6, <1>7 DEF keys

(***************************************************************************)
(* The diff is exact: it accepts a list if, and only if, all indexes of    *)
(* the message name keys and the list is what Squads makes of the message. *)
(***************************************************************************)
MessageNamesKeys(message, tables) ==
    \A i \in DOMAIN message.instructions :
        InstructionNamesKeys(message, tables, message.instructions[i])

ExpectedInstructions(shown) ==
    IsSequence(shown) /\ \A i \in DOMAIN shown : ExpectedInstruction(shown[i])

\* The instructions of a stored message are a sequence of compiled instructions.
LEMMA StoredInstructions ==
    ASSUME NEW message, VaultTransactionMessage(message)
    PROVE  /\ Len(message.instructions) \in Nat
           /\ DOMAIN message.instructions = 1..Len(message.instructions)
           /\ \A i \in DOMAIN message.instructions :
                 MultisigCompiledInstruction(message.instructions[i])
<1>1. IsSequence(message.instructions)
    BY DEF VaultTransactionMessage
<1> QED BY <1>1 DEF IsSequence, VaultTransactionMessage

\* Each instruction of a list of the right length is judged that way.
LEMMA InstructionsChecked ==
    ASSUME NEW message, VaultTransactionMessage(message), NEW tables,
           NEW shown, ExpectedInstructions(shown), Len(shown) = Len(message.instructions)
    PROVE  \A i \in DOMAIN message.instructions :
               LET stored == message.instructions[i]
                   verdict == CheckInstruction(AccountKeys(message, tables), stored, shown[i])
                   accounts == /\ InstructionNamesKeys(message, tables, stored)
                               /\ SameButData(message, tables, stored, shown[i])
               IN  /\ verdict = Ok <=> accounts /\ shown[i].data = stored.data
                   /\ accounts /\ shown[i].data # stored.data => verdict = "DataMismatch"
<1> TAKE i \in DOMAIN message.instructions
<1>1. MultisigCompiledInstruction(message.instructions[i])
    BY StoredInstructions
<1>2. ExpectedInstruction(shown[i])
    BY StoredInstructions DEF ExpectedInstructions, IsSequence
<1> DEFINE ix == message.instructions[i]
           exp == shown[i]
<1> HIDE DEF ix, exp
<1>3. LET verdict == CheckInstruction(AccountKeys(message, tables), ix, exp)
          accounts == /\ InstructionNamesKeys(message, tables, ix)
                      /\ SameButData(message, tables, ix, exp)
      IN  /\ verdict = Ok <=> accounts /\ exp.data = ix.data
          /\ accounts /\ exp.data # ix.data => verdict = "DataMismatch"
    <2>1. MultisigCompiledInstruction(ix) /\ ExpectedInstruction(exp)
        BY <1>1, <1>2 DEF ix, exp
    <2> QED BY <2>1, InstructionChecked
<1> QED BY <1>3, Zenon DEF ix, exp

(***************************************************************************)
(* The diff (validation.rs:146-222) accepts a list exactly when it is what *)
(* Squads makes of the message, and every index of the message names a     *)
(* key: for any header, lookups, tables and expected list.                 *)
(***************************************************************************)
THEOREM DiffExact ==
    ASSUME NEW message, VaultTransactionMessage(message), NEW tables,
           NEW shown, ExpectedInstructions(shown)
    PROVE  validate_instructions(message, AccountKeys(message, tables), shown) = Ok
               <=> MessageNamesKeys(message, tables) /\ shown = Expansion(message, tables)
<1> DEFINE keys == AccountKeys(message, tables)
           stored == message.instructions
           verdicts == [i \in DOMAIN stored |-> CheckInstruction(keys, stored[i], shown[i])]
           expanded(i) == ExpandedInstruction(message, tables, stored[i])
<1>1. Len(stored) \in Nat /\ DOMAIN stored = 1..Len(stored)
    BY StoredInstructions
<1>2. shown = [i \in 1..Len(shown) |-> shown[i]] /\ Len(shown) \in Nat
    BY DEF ExpectedInstructions, IsSequence
<1>3. validate_instructions(message, keys, shown) = Ok
          <=> Len(stored) = Len(shown) /\ FirstError(verdicts) = Ok
    <2> HIDE DEF keys, verdicts
    <2>1. validate_instructions(message, keys, shown)
              = (Require(Len(stored) = Len(shown), "InstructionCountMismatch") && FirstError(verdicts))
        BY DEF validate_instructions, verdicts
    <2> QED BY <2>1 DEF Require, &&, Ok
<1>4. FirstError(verdicts) = Ok
          <=> \A i \in DOMAIN stored : CheckInstruction(keys, stored[i], shown[i]) = Ok
    <2>1. DOMAIN verdicts \subseteq Nat
        BY <1>1
    <2>2. FirstError(verdicts) = Ok <=> \A i \in DOMAIN verdicts : verdicts[i] = Ok
        <3> HIDE DEF verdicts
        <3> QED BY <2>1, FirstErrorOk
    <2> HIDE DEF keys
    <2> QED BY <2>2
<1>5. ASSUME Len(shown) = Len(stored), NEW i \in DOMAIN stored
      PROVE  CheckInstruction(keys, stored[i], shown[i]) = Ok
                 <=> InstructionNamesKeys(message, tables, stored[i]) /\ shown[i] = expanded(i)
    <2>1. CheckInstruction(keys, stored[i], shown[i]) = Ok
              <=> /\ InstructionNamesKeys(message, tables, stored[i])
                  /\ SameButData(message, tables, stored[i], shown[i])
                  /\ shown[i].data = stored[i].data
        BY <1>5, InstructionsChecked
    <2>2. ExpectedInstruction(shown[i])
        BY <1>1, <1>2, <1>5 DEF ExpectedInstructions
    <2>3. SameButData(message, tables, stored[i], shown[i]) /\ shown[i].data = stored[i].data
              <=> shown[i] = expanded(i)
        BY <2>2 DEF SameButData, ExpectedInstruction, ExpandedInstruction
    <2> HIDE DEF keys, stored, expanded
    <2> QED BY <2>1, <2>3
<1>6. Expansion(message, tables) = [i \in DOMAIN stored |-> expanded(i)]
    BY DEF Expansion
<1> HIDE DEF keys, stored, expanded, verdicts
<1>7. ASSUME Len(shown) = Len(stored)
      PROVE  shown = Expansion(message, tables) <=> \A i \in DOMAIN stored : shown[i] = expanded(i)
    <2>1. shown = [i \in DOMAIN stored |-> shown[i]]
        BY <1>1, <1>2, <1>7
    <2> QED BY <1>6, <2>1
<1>8. shown = Expansion(message, tables) => Len(shown) = Len(stored)
    <2> SUFFICES ASSUME shown = Expansion(message, tables) PROVE Len(shown) = Len(stored)
        OBVIOUS
    <2>1. DOMAIN shown = 1..Len(stored)
        BY <1>1, <1>6
    <2>2. DOMAIN shown = 1..Len(shown)
        BY <1>2
    <2>3. \A k \in Nat : k \in 1..Len(stored) <=> k \in 1..Len(shown)
        BY <2>1, <2>2
    <2> DEFINE n == Len(stored)
               k == Len(shown)
    <2> HIDE DEF n, k
    <2>4. ASSUME n \in Nat, k \in Nat, \A j \in Nat : j \in 1..n <=> j \in 1..k
          PROVE  n = k
        <3>1. n \in 1..n <=> n \in 1..k
            BY <2>4
        <3>2. k \in 1..n <=> k \in 1..k
            BY <2>4
        <3> QED BY <2>4, <3>1, <3>2
    <2> QED BY <1>1, <1>2, <2>3, <2>4 DEF n, k
<1>9. MessageNamesKeys(message, tables)
          <=> \A i \in DOMAIN stored : InstructionNamesKeys(message, tables, stored[i])
    BY DEF MessageNamesKeys, stored
<1> QED
    <2>1. CASE Len(shown) = Len(stored)
        BY <1>3, <1>4, <1>5, <1>7, <1>9, <2>1 DEF keys
    <2>2. CASE Len(shown) # Len(stored)
        BY <1>3, <1>8, <2>2 DEF keys
    <2> QED BY <2>1, <2>2

(***************************************************************************)
(* A list that differs from what Squads makes of the message in the data   *)
(* of some instructions, and in nothing else, is refused for its data.     *)
(***************************************************************************)
LEMMA DataDiffers ==
    ASSUME NEW message, VaultTransactionMessage(message), NEW tables,
           NEW shown, ExpectedInstructions(shown), Len(shown) = Len(message.instructions),
           MessageNamesKeys(message, tables),
           \A i \in DOMAIN message.instructions :
               SameButData(message, tables, message.instructions[i], shown[i]),
           \E i \in DOMAIN message.instructions :
               shown[i].data # message.instructions[i].data
    PROVE  validate_instructions(message, AccountKeys(message, tables), shown) = "DataMismatch"
<1> DEFINE keys == AccountKeys(message, tables)
           stored == message.instructions
           verdicts == [i \in DOMAIN stored |-> CheckInstruction(keys, stored[i], shown[i])]
<1>1. \A i \in DOMAIN stored :
         /\ shown[i].data = stored[i].data => CheckInstruction(keys, stored[i], shown[i]) = Ok
         /\ shown[i].data # stored[i].data =>
               CheckInstruction(keys, stored[i], shown[i]) = "DataMismatch"
    BY InstructionsChecked DEF MessageNamesKeys
<1>2. DOMAIN verdicts \subseteq Nat
    BY StoredInstructions
<1>3. \A i \in DOMAIN verdicts : verdicts[i] \in {Ok, "DataMismatch"}
    <2> HIDE DEF keys
    <2> QED BY <1>1
<1>4. \E i \in DOMAIN verdicts : verdicts[i] # Ok
    <2>1. PICK i \in DOMAIN stored : shown[i].data # stored[i].data
        OBVIOUS
    <2>2. verdicts[i] = "DataMismatch"
        <3> HIDE DEF keys
        <3> QED BY <1>1, <2>1
    <2> QED BY <2>1, <2>2 DEF Ok
<1>5. FirstError(verdicts) = "DataMismatch"
    <2> HIDE DEF verdicts
    <2> QED BY <1>2, <1>3, <1>4, FirstErrorAmong
<1> HIDE DEF keys, verdicts
<1>6. validate_instructions(message, keys, shown)
          = (Require(Len(stored) = Len(shown), "InstructionCountMismatch") && FirstError(verdicts))
    BY DEF validate_instructions, verdicts
<1> QED BY <1>5, <1>6 DEF keys, Require, &&, Ok

(***************************************************************************)
(* What a message loads through a list is as long as the list: the keys of *)
(* a message are counted without looking at its tables.                    *)
(***************************************************************************)
LoadLists == {"writable_indexes", "readonly_indexes"}

\* What is loaded through a list of indexes is a sequence as long as those lists.
LEMMA LoadedType ==
    ASSUME NEW message, VaultTransactionMessage(message), NEW tables, IsSequence(tables),
           Len(tables) = Len(message.address_table_lookups), NEW list \in LoadLists
    PROVE  /\ IsSequence(LoadedThrough(message, tables, list))
           /\ Len(LoadedThrough(message, tables, list)) = NumLoaded(message, list)
<1> DEFINE n == Len(tables)
           lookups == message.address_table_lookups
           loaded(l) == [k \in DOMAIN lookups[l][list] |-> tables[l][lookups[l][list][k] + 1]]
           seqs == [l \in 1..n |-> loaded(l)]
           indexes == [l \in 1..n |-> lookups[l][list]]
           S == {tables[x[1]][lookups[x[1]][list][x[2]] + 1] : x \in (1..n) \X Nat}
<1>1. n \in Nat /\ DOMAIN tables = 1..n
    BY DEF IsSequence
<1>2. IsSequence(lookups)
    BY DEF VaultTransactionMessage
<1>3. DOMAIN lookups = 1..n
    BY <1>2 DEF IsSequence
<1>4. \A l \in 1..n : lookups[l][list] \in Seq(Byte)
    <2> SUFFICES ASSUME NEW l \in 1..n PROVE lookups[l][list] \in Seq(Byte)
        OBVIOUS
    <2>1. MultisigMessageAddressTableLookup(lookups[l])
        BY <1>3 DEF VaultTransactionMessage
    <2> QED BY <2>1 DEF MultisigMessageAddressTableLookup, LoadLists
<1>5. \A l \in 1..n : loaded(l) \in Seq(S) /\ Len(loaded(l)) = Len(lookups[l][list])
    <2> SUFFICES ASSUME NEW l \in 1..n
                 PROVE  loaded(l) \in Seq(S) /\ Len(loaded(l)) = Len(lookups[l][list])
        OBVIOUS
    <2> DEFINE m == Len(lookups[l][list])
    <2>1. m \in Nat /\ DOMAIN lookups[l][list] = 1..m
        BY <1>4
    <2>2. \A k \in 1..m : tables[l][lookups[l][list][k] + 1] \in S
        <3> SUFFICES ASSUME NEW k \in 1..m PROVE tables[l][lookups[l][list][k] + 1] \in S
            OBVIOUS
        <3>1. <<l, k>> \in (1..n) \X Nat
            BY <2>1
        <3> DEFINE x == <<l, k>>
        <3>2. x[1] = l /\ x[2] = k /\ x \in (1..n) \X Nat
            BY <3>1
        <3> HIDE DEF x, n, lookups
        <3> QED BY <3>2
    <2> HIDE DEF S
    <2>3. loaded(l) \in [1..m -> S]
        BY <2>1, <2>2
    <2> HIDE DEF loaded, m
    <2>4. loaded(l) \in Seq(S)
        BY <2>1, <2>3, SeqDef
    <2>5. Len(loaded(l)) = m
        BY <2>1, <2>3, <2>4
    <2> QED BY <2>4, <2>5 DEF m
<1> HIDE DEF loaded, S
<1>6. IsSequence(seqs) /\ Len(seqs) = n /\ \A l \in 1..Len(seqs) : seqs[l] \in Seq(S)
    BY <1>1, <1>5 DEF IsSequence
<1>7. IsSequence(indexes) /\ Len(indexes) = n /\ \A l \in 1..Len(indexes) : indexes[l] \in Seq(Byte)
    BY <1>1, <1>4 DEF IsSequence
<1>8. \A l \in 1..Len(seqs) : Len(indexes[l]) = Len(seqs[l])
    BY <1>5, <1>6
<1>9. LoadedThrough(message, tables, list) = FlattenSeq(seqs)
    BY <1>1 DEF LoadedThrough, loaded
<1>10. NumLoaded(message, list) = Len(FlattenSeq(indexes))
    BY <1>3 DEF NumLoaded
<1> HIDE DEF seqs, indexes
<1>11. FlattenSeq(seqs) \in Seq(S)
    BY <1>6, FlattenType
<1>12. Len(FlattenSeq(indexes)) = Len(FlattenSeq(seqs))
    BY <1>6, <1>7, <1>8, FlattenLen
<1> QED BY <1>9, <1>10, <1>11, <1>12, SequenceIs

(***************************************************************************)
(* Concatenation, for sequences of anything.                               *)
(***************************************************************************)
LEMMA ConcatIs ==
    ASSUME NEW s, IsSequence(s), NEW t, IsSequence(t)
    PROVE  /\ IsSequence(s \o t) /\ Len(s \o t) = Len(s) + Len(t)
           /\ \A i \in 1..(Len(s) + Len(t)) :
                 (s \o t)[i] = IF i <= Len(s) THEN s[i] ELSE t[i - Len(s)]
<1> DEFINE S == {s[i] : i \in 1..Len(s)} \cup {t[i] : i \in 1..Len(t)}
<1>1. \A i \in 1..Len(s) : s[i] \in S
    OBVIOUS
<1>2. \A i \in 1..Len(t) : t[i] \in S
    OBVIOUS
<1> HIDE DEF S
<1>3. s \in Seq(S) /\ t \in Seq(S)
    BY <1>1, <1>2, IsSequenceOf
<1>4. s \o t \in Seq(S) /\ Len(s \o t) = Len(s) + Len(t)
      /\ \A i \in 1..(Len(s) + Len(t)) :
            (s \o t)[i] = IF i <= Len(s) THEN s[i] ELSE t[i - Len(s)]
    BY <1>3, ConcatProperties
<1> QED BY <1>4, SequenceIs

(***************************************************************************)
(* A part of a sequence, and when two sequences are one.                   *)
(***************************************************************************)
LEMMA SubSeqIs ==
    ASSUME NEW s, IsSequence(s), NEW m \in Nat, NEW n \in Nat, m <= n, n <= Len(s)
    PROVE  /\ IsSequence(SubSeq(s, m + 1, n)) /\ Len(SubSeq(s, m + 1, n)) = n - m
           /\ \A k \in 1..(n - m) : SubSeq(s, m + 1, n)[k] = s[m + k]
<1> DEFINE S == {s[i] : i \in 1..Len(s)}
<1>1. Len(s) \in Nat
    BY DEF IsSequence
<1>2. \A i \in (m + 1)..n : s[i] \in S
    BY <1>1
<1> HIDE DEF S
<1>3. /\ SubSeq(s, m + 1, n) \in Seq(S)
      /\ Len(SubSeq(s, m + 1, n)) = IF m + 1 <= n THEN n - (m + 1) + 1 ELSE 0
      /\ \A k \in 1..(n - (m + 1) + 1) : SubSeq(s, m + 1, n)[k] = s[(m + 1) + k - 1]
    BY <1>2, SubSeqProperties
<1>4. \A k \in 1..(n - m) : SubSeq(s, m + 1, n)[k] = s[m + k]
    <2> SUFFICES ASSUME NEW k \in 1..(n - m) PROVE SubSeq(s, m + 1, n)[k] = s[m + k]
        OBVIOUS
    <2>1. k \in 1..(n - (m + 1) + 1) /\ (m + 1) + k - 1 = m + k
        OBVIOUS
    <2>2. SubSeq(s, m + 1, n)[k] = s[(m + 1) + k - 1]
        BY <1>3, <2>1
    <2> QED BY <2>1, <2>2
<1>5. Len(SubSeq(s, m + 1, n)) = n - m
    BY <1>3
<1>6. IsSequence(SubSeq(s, m + 1, n))
    BY <1>3, SequenceIs
<1> QED BY <1>4, <1>5, <1>6

\* Sequences of one length with the same elements are equal.
LEMMA SequencesEqual ==
    ASSUME NEW s, IsSequence(s), NEW t, IsSequence(t), Len(s) = Len(t),
           \A i \in 1..Len(s) : s[i] = t[i]
    PROVE  s = t
<1> DEFINE n == Len(s)
<1>1. s = [i \in 1..n |-> s[i]] /\ t = [i \in 1..n |-> t[i]]
    BY DEF IsSequence
<1>2. \A i \in 1..n : s[i] = t[i]
    OBVIOUS
<1> HIDE DEF n
<1> QED BY <1>1, <1>2

\* The keys of a message are as many as it counts before its tables are read.
LEMMA KeyCount ==
    ASSUME NEW message, VaultTransactionMessage(message), NEW tables, IsSequence(tables),
           Len(tables) = Len(message.address_table_lookups)
    PROVE  Len(ExpandedKeys(message, tables)) = NumKeys(message)
<1> DEFINE writable == LoadedThrough(message, tables, "writable_indexes")
           readonly == LoadedThrough(message, tables, "readonly_indexes")
           keys == message.account_keys
<1>1. /\ IsSequence(writable) /\ Len(writable) = NumLoaded(message, "writable_indexes")
      /\ IsSequence(readonly) /\ Len(readonly) = NumLoaded(message, "readonly_indexes")
    BY LoadedType DEF LoadLists
<1>2. IsSequence(keys)
    BY DEF VaultTransactionMessage
<1> HIDE DEF writable, readonly, keys
<1>3. IsSequence(keys \o writable) /\ Len(keys \o writable) = Len(keys) + Len(writable)
    BY <1>1, <1>2, ConcatIs
<1>4. Len(keys \o writable \o readonly) = Len(keys) + Len(writable) + Len(readonly)
    BY <1>1, <1>3, ConcatIs
<1> QED BY <1>1, <1>4 DEF ExpandedKeys, NumKeys, writable, readonly, keys

(***************************************************************************)
(* A message that refers to its own keys names keys, whatever its tables.  *)
(***************************************************************************)
LEMMA RefersNames ==
    ASSUME NEW message, VaultTransactionMessage(message), RefersToItsKeys(message),
           NEW tables, IsSequence(tables), Len(tables) = Len(message.address_table_lookups)
    PROVE  MessageNamesKeys(message, tables)
BY KeyCount DEF RefersToItsKeys, MessageNamesKeys, InstructionNamesKeys, NamesKey

(***************************************************************************)
(* What Squads makes of a message can be shown.                            *)
(***************************************************************************)
LEMMA ExpansionType ==
    ASSUME NEW message, VaultTransactionMessage(message), NEW tables
    PROVE  ExpectedInstructions(Expansion(message, tables))
<1> DEFINE run == Expansion(message, tables)
           ixs == message.instructions
           n == Len(ixs)
<1>1. n \in Nat /\ DOMAIN ixs = 1..n
    BY StoredInstructions
<1>2. run = [i \in 1..n |-> ExpandedInstruction(message, tables, ixs[i])]
    BY <1>1 DEF Expansion
<1>3. IsSequence(run) /\ DOMAIN run = 1..n
    BY <1>1, <1>2 DEF IsSequence
<1>4. ASSUME NEW i \in 1..n PROVE ExpectedInstruction(run[i])
    <2> DEFINE ix == ixs[i]
               indexes == ix.account_indexes
               exp == ExpandedInstruction(message, tables, ix)
               m == Len(indexes)
    <2>1. MultisigCompiledInstruction(ix)
        BY <1>1, StoredInstructions
    <2>2. m \in Nat /\ DOMAIN indexes = 1..m
        BY <2>1 DEF MultisigCompiledInstruction
    <2> HIDE DEF indexes, ix
    <2>3. exp = [program_id |-> exp.program_id, accounts |-> exp.accounts, data |-> exp.data]
          /\ exp.accounts = [j \in DOMAIN indexes |-> ExpandedMeta(message, tables, indexes[j])]
        BY DEF ExpandedInstruction, indexes
    <2> HIDE DEF exp
    <2>4. exp.accounts = [j \in 1..m |-> ExpandedMeta(message, tables, indexes[j])]
        BY <2>2, <2>3
    <2> HIDE DEF m
    <2>5. IsSequence(exp.accounts) /\ DOMAIN exp.accounts = 1..m
        BY <2>2, <2>4 DEF IsSequence
    <2>6. \A j \in 1..m : ExpectedAccountMeta(exp.accounts[j])
        <3> SUFFICES ASSUME NEW j \in 1..m
                     PROVE  ExpectedAccountMeta(ExpandedMeta(message, tables, indexes[j]))
            BY <2>4
        <3> QED BY DEF ExpectedAccountMeta, ExpandedMeta, is_signer_index, is_static_writable_index
    <2>7. ExpectedInstruction(exp)
        BY <2>3, <2>5, <2>6 DEF ExpectedInstruction
    <2> HIDE DEF run
    <2> QED BY <1>2, <2>7 DEF exp, ix
<1> HIDE DEF run
<1>5. ExpectedInstructions(run)
    BY <1>3, <1>4 DEF ExpectedInstructions
<1> QED BY <1>5 DEF run

(***************************************************************************)
(* The hex that a digest travels in (validation.rs:229-249): a text that   *)
(* is read as a digest is the text that prints it.                         *)
(***************************************************************************)
LEMMA NibbleRead ==
    ASSUME NEW c, IsNibble(c)
    PROVE  hex_nibble(c) \in 0..15 /\ HEX[hex_nibble(c)] = c
<1>1. CASE c \in 48..57
    BY <1>1 DEF hex_nibble, HEX
<1>2. CASE c \in 97..102
    BY <1>2 DEF hex_nibble, HEX
<1> QED BY <1>1, <1>2 DEF IsNibble

\* A byte is its two nibbles.
LEMMA NibblesOfByte ==
    ASSUME NEW high \in 0..15, NEW low \in 0..15
    PROVE  (16 * high + low) \div 16 = high /\ (16 * high + low) % 16 = low
OBVIOUS

(***************************************************************************)
(* One text for each digest (validation.rs:255-283): a text that           *)
(* hex_to_hash reads is the one hash_to_hex prints for what was read. So   *)
(* upper case, or any other spelling, is refused.                          *)
(***************************************************************************)
THEOREM DigestPrinted ==
    ASSUME NEW s, IsSequence(s), hex_to_hash(s) = Ok
    PROVE  hash_to_hex(HexValue(s)) = s
<1>1. Len(s) = 2 * DigestLen /\ \A k \in DOMAIN s : IsNibble(s[k])
    BY DEF hex_to_hash, Require, &&, Ok
<1>2. s = [k \in 1..(2 * DigestLen) |-> s[k]]
    BY <1>1 DEF IsSequence
<1>3. DigestLen \in Nat
    BY DigestLenAssumption
<1>4. \A k \in 1..(2 * DigestLen) : IsNibble(s[k])
    BY <1>1, <1>2
<1> DEFINE high(i) == hex_nibble(s[2 * i - 1])
           low(i)  == hex_nibble(s[2 * i])
<1>5. \A i \in 1..DigestLen :
         /\ high(i) \in 0..15 /\ HEX[high(i)] = s[2 * i - 1]
         /\ low(i) \in 0..15 /\ HEX[low(i)] = s[2 * i]
    <2> SUFFICES ASSUME NEW i \in 1..DigestLen
                 PROVE  /\ high(i) \in 0..15 /\ HEX[high(i)] = s[2 * i - 1]
                        /\ low(i) \in 0..15 /\ HEX[low(i)] = s[2 * i]
        OBVIOUS
    <2>1. 2 * i - 1 \in 1..(2 * DigestLen) /\ 2 * i \in 1..(2 * DigestLen)
        BY <1>3
    <2> QED BY <1>4, <2>1, NibbleRead
<1>6. HexValue(s) = [i \in 1..DigestLen |-> 16 * high(i) + low(i)]
    BY DEF HexValue
<1> HIDE DEF high, low
<1>7. HexValue(s) \in [1..DigestLen -> Nat]
    <2>1. \A i \in 1..DigestLen : 16 * high(i) + low(i) \in Nat
        BY <1>5
    <2> QED BY <1>6, <2>1
<1>8. Len(HexValue(s)) = DigestLen
    BY <1>3, <1>7, LenProperties
<1> DEFINE digit(k) == IF k % 2 = 1 THEN HEX[HexValue(s)[(k + 1) \div 2] \div 16]
                                    ELSE HEX[HexValue(s)[k \div 2] % 16]
<1>9. \A k \in 1..(2 * DigestLen) : digit(k) = s[k]
    <2> SUFFICES ASSUME NEW k \in 1..(2 * DigestLen)
                 PROVE  digit(k) = s[k]
        OBVIOUS
    <2>1. CASE k % 2 = 1
        <3> DEFINE i == (k + 1) \div 2
        <3>1. i \in 1..DigestLen /\ k = 2 * i - 1
            BY <1>3, <2>1
        <3> HIDE DEF i
        <3>2. HexValue(s)[i] \div 16 = high(i)
            <4>1. HexValue(s)[i] = 16 * high(i) + low(i)
                BY <1>6, <3>1
            <4>2. high(i) \in 0..15 /\ low(i) \in 0..15
                BY <1>5, <3>1
            <4> QED BY <4>1, <4>2, NibblesOfByte, Zenon
        <3> QED BY <1>5, <2>1, <3>1, <3>2 DEF i
    <2>2. CASE k % 2 # 1
        <3> DEFINE i == k \div 2
        <3>1. i \in 1..DigestLen /\ k = 2 * i
            BY <1>3, <2>2
        <3> HIDE DEF i
        <3>2. HexValue(s)[i] % 16 = low(i)
            <4>1. HexValue(s)[i] = 16 * high(i) + low(i)
                BY <1>6, <3>1
            <4>2. high(i) \in 0..15 /\ low(i) \in 0..15
                BY <1>5, <3>1
            <4> QED BY <4>1, <4>2, NibblesOfByte, Zenon
        <3> QED BY <1>5, <2>2, <3>1, <3>2 DEF i
    <2> QED BY <2>1, <2>2
<1>10. hash_to_hex(HexValue(s)) = [k \in 1..(2 * DigestLen) |-> digit(k)]
    BY <1>8 DEF hash_to_hex
<1> HIDE DEF digit
<1> QED BY <1>2, <1>9, <1>10

(***************************************************************************)
(* Votes.                                                                  *)
(***************************************************************************)
LEMMA VotedProposal ==
    ASSUME NEW p \in Proposal, NEW member \in Members, NEW action
    PROVE  Voted(p, member, action) \in Proposal
<1>1. Approved(p, member) \in Proposal
    BY DEF Approved, Proposal, ProposalStatus
<1>2. Rejected(p, member) \in Proposal
    BY DEF Rejected, Proposal, ProposalStatus
<1>3. Cancelled(p, member) \in Proposal
    BY DEF Cancelled, Proposal, ProposalStatus
<1> QED BY <1>1, <1>2, <1>3 DEF Voted

(***************************************************************************)
(* A vote adds its member to the list of its action and to no other.       *)
(***************************************************************************)
LEMMA VotedCounts ==
    ASSUME NEW p \in Proposal, NEW member, NEW action \in ProposalAction
    PROVE  /\ Voted(p, member, action).approved \subseteq
                  p.approved \cup {m \in {member} : action = "Approve"}
           /\ Voted(p, member, action).rejected \subseteq
                  p.rejected \cup {m \in {member} : action = "Reject"}
           /\ Voted(p, member, action).cancelled \subseteq
                  p.cancelled \cup {m \in {member} : action \in {"Cancel", "CancelV2"}}
<1>1. CASE action = "Approve"
    <2>1. Voted(p, member, action) = Approved(p, member)
        BY <1>1 DEF Voted
    <2> QED BY <2>1, <1>1 DEF Approved, Proposal
<1>2. CASE action = "Reject"
    <2>1. Voted(p, member, action) = Rejected(p, member)
        BY <1>2 DEF Voted
    <2> QED BY <2>1, <1>2 DEF Rejected, Proposal
<1>3. CASE action \in {"Cancel", "CancelV2"}
    <2>1. Voted(p, member, action) = Cancelled(p, member)
        BY <1>3 DEF Voted
    <2> QED BY <2>1, <1>3 DEF Cancelled, Proposal
<1> QED BY <1>1, <1>2, <1>3 DEF ProposalAction

(***************************************************************************)
(* An approval is counted, and a vote takes nobody else's approval away.   *)
(***************************************************************************)
LEMMA ApprovalCounted ==
    ASSUME NEW p \in Proposal, NEW member
    PROVE  member \in Voted(p, member, "Approve").approved
<1>1. Voted(p, member, "Approve") = Approved(p, member)
    BY DEF Voted
<1> QED BY <1>1 DEF Approved, Proposal

\* A vote takes no approval of another member away.
LEMMA ApprovalStays ==
    ASSUME NEW p \in Proposal, NEW member, NEW action,
           NEW other \in p.approved, other # member
    PROVE  other \in Voted(p, member, action).approved
<1>1. Voted(p, member, action) \in
          {Approved(p, member), Rejected(p, member), Cancelled(p, member)}
    BY DEF Voted
<1> QED BY <1>1 DEF Approved, Rejected, Cancelled, Proposal

\* Proposals that do not exist, and new ones, are proposals.
LEMMA NoProposalType == NoProposal \in Proposal /\ NewProposal \in Proposal
BY DEF NoProposal, NewProposal, Proposal, ProposalStatus

=============================================================================
