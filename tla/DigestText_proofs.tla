-------------------------- MODULE DigestText_proofs --------------------------
(***************************************************************************)
(* Digests and their texts, for byte strings and texts of every length:    *)
(* what trimming keeps, and that program and client trim alike.            *)
(***************************************************************************)
EXTENDS DigestText, Operators_proofs

(***************************************************************************)
(* Where a byte string ends when its trailing zeros are dropped.           *)
(***************************************************************************)
EndsAt(s, n, e) ==
    /\ e \in 0..n
    /\ e = 0 \/ s[e] # 0
    /\ \A i \in (e + 1)..n : s[i] = 0

\* A string ends at one place only.
LEMMA EndUnique ==
    ASSUME NEW s, NEW n \in Nat, NEW d, EndsAt(s, n, d), NEW e, EndsAt(s, n, e)
    PROVE  d = e
<1>1. d \in 0..n /\ e \in 0..n
    BY DEF EndsAt
<1>2. ~(d < e)
    <2> SUFFICES ASSUME d < e PROVE FALSE
        OBVIOUS
    <2>1. e \in (d + 1)..n /\ e # 0
        BY <1>1
    <2> QED BY <2>1 DEF EndsAt
<1>3. ~(e < d)
    <2> SUFFICES ASSUME e < d PROVE FALSE
        OBVIOUS
    <2>1. d \in (e + 1)..n /\ d # 0
        BY <1>1
    <2> QED BY <2>1 DEF EndsAt
<1> QED BY <1>1, <1>2, <1>3

\* A set of numbers up to n that has elements has a greatest one.
LEMMA MaximumExists ==
    ASSUME NEW n \in Nat, NEW S \in SUBSET (1..n), S # {}
    PROVE  Max(S) \in S /\ \A y \in S : y <= Max(S)
<1> DEFINE T == {n - x : x \in S}
<1>1. T \in SUBSET Nat /\ T # {}
    <2>1. \A x \in S : x \in 1..n
        OBVIOUS
    <2>2. \A x \in S : n - x \in Nat
        BY <2>1
    <2> QED BY <2>2
<1>2. PICK m \in T : \A k \in T : m <= k
    BY <1>1, MinimumExists
<1>3. PICK x \in S : m = n - x
    BY <1>2
<1>4. \A y \in S : x >= y
    <2> SUFFICES ASSUME NEW y \in S PROVE x >= y
        OBVIOUS
    <2>1. m <= n - y
        BY <1>2
    <2> QED BY <1>3, <2>1
<1>5. \E z \in S : \A y \in S : z >= y
    BY <1>4
<1>6. Max(S) \in S /\ \A y \in S : Max(S) >= y
    BY <1>5 DEF Max
<1> QED BY <1>6

\* The program (validation.rs, trim_trailing_zeros) cuts a string where it ends.
LEMMA TrimEnds ==
    ASSUME NEW s, IsSequence(s)
    PROVE  \E e : EndsAt(s, Len(s), e) /\ trim_trailing_zeros(s) = SubSeq(s, 1, e)
<1> DEFINE n == Len(s)
           nonzero == {i \in DOMAIN s : s[i] # 0}
           e == IF nonzero = {} THEN 0 ELSE Max(nonzero)
<1>1. n \in Nat /\ DOMAIN s = 1..n
    BY DEF IsSequence
<1>2. trim_trailing_zeros(s) = SubSeq(s, 1, e)
    BY DEF trim_trailing_zeros
<1> HIDE DEF n
<1>3. CASE nonzero = {}
    <2>1. \A i \in 1..n : s[i] = 0
        BY <1>1, <1>3
    <2>2. EndsAt(s, n, e)
        BY <1>1, <1>3, <2>1 DEF EndsAt
    <2> HIDE DEF e
    <2> QED BY <1>2, <2>2 DEF n
<1>4. CASE nonzero # {}
    <2>1. nonzero \in SUBSET (1..n)
        BY <1>1
    <2>2. e = Max(nonzero)
        BY <1>4
    <2> HIDE DEF e
    <2>3. e \in nonzero /\ \A y \in nonzero : y <= e
        <3> HIDE DEF nonzero
        <3> QED BY <1>1, <1>4, <2>1, <2>2, MaximumExists
    <2>4. e \in 1..n /\ s[e] # 0
        BY <2>1, <2>3
    <2>5. \A i \in (e + 1)..n : s[i] = 0
        <3> SUFFICES ASSUME NEW i \in (e + 1)..n, s[i] # 0 PROVE FALSE
            OBVIOUS
        <3>1. i \in 1..n
            BY <1>1, <2>4
        <3>2. i <= e
            BY <1>1, <2>3, <3>1
        <3> QED BY <1>1, <2>4, <3>2
    <2>6. EndsAt(s, n, e)
        BY <1>1, <2>4, <2>5 DEF EndsAt
    <2> QED BY <1>2, <2>6 DEF n
<1> QED BY <1>3, <1>4

(***************************************************************************)
(* The loop of the client stops at the same place. It is a recursive       *)
(* function: it exists because the ends of the prefixes satisfy its        *)
(* equation, and it is those ends by induction on the prefix.              *)
(***************************************************************************)
Stops(s, n, f) ==
    f = [end \in 0..n |-> IF end > 0 /\ s[end] = 0 THEN f[end - 1] ELSE end]

\* Whatever satisfies the equation of the loop stops where the string ends.
LEMMA StopsEnds ==
    ASSUME NEW s, NEW n \in Nat, NEW f, Stops(s, n, f)
    PROVE  \A end \in 0..n : EndsAt(s, end, f[end])
<1> DEFINE S == {k \in Nat : k <= n => EndsAt(s, k, f[k])}
           g == [end \in 0..n |-> IF end > 0 /\ s[end] = 0 THEN f[end - 1] ELSE end]
<1>1. f = g
    BY DEF Stops
<1>2. \A k \in 0..n : g[k] = IF k > 0 /\ s[k] = 0 THEN f[k - 1] ELSE k
    OBVIOUS
<1> HIDE DEF g
<1>3. \A k \in 0..n : f[k] = IF k > 0 /\ s[k] = 0 THEN f[k - 1] ELSE k
    BY <1>1, <1>2
<1>4. 0 \in S
    <2>1. f[0] = 0
        BY <1>3
    <2> QED BY <2>1 DEF EndsAt
<1>5. ASSUME NEW k \in Nat, k \in S PROVE k + 1 \in S
    <2> SUFFICES ASSUME k + 1 <= n PROVE EndsAt(s, k + 1, f[k + 1])
        OBVIOUS
    <2>1. EndsAt(s, k, f[k])
        BY <1>5
    <2>2. k + 1 \in 0..n /\ (k + 1) - 1 = k
        OBVIOUS
    <2>3. CASE s[k + 1] = 0
        <3>1. f[k + 1] = f[k]
            BY <1>3, <2>2, <2>3
        <3> DEFINE e == f[k]
        <3> HIDE DEF e
        <3>2. EndsAt(s, k, e)
            BY <2>1 DEF e
        <3>3. \A i \in (e + 1)..(k + 1) : s[i] = 0
            <4> SUFFICES ASSUME NEW i \in (e + 1)..(k + 1) PROVE s[i] = 0
                OBVIOUS
            <4>1. i = k + 1 \/ i \in (e + 1)..k
                BY <3>2 DEF EndsAt
            <4> QED BY <2>3, <3>2, <4>1 DEF EndsAt
        <3>4. EndsAt(s, k + 1, e)
            BY <3>2, <3>3 DEF EndsAt
        <3> QED BY <3>1, <3>4 DEF e
    <2>4. CASE s[k + 1] # 0
        <3>1. f[k + 1] = k + 1
            BY <1>3, <2>2, <2>4
        <3>2. EndsAt(s, k + 1, k + 1)
            BY <2>4 DEF EndsAt
        <3> QED BY <3>1, <3>2
    <2> QED BY <2>3, <2>4
<1>6. Nat \subseteq S
    <2> HIDE DEF S
    <2> QED BY <1>4, <1>5, NatInduct
<1> QED BY <1>6

\* The equation of the loop has a solution.
LEMMA StopsExists ==
    ASSUME NEW s, NEW n \in Nat
    PROVE  \E f : Stops(s, n, f)
<1> DEFINE prefix(end) == {i \in 1..end : s[i] # 0}
           f == [end \in 0..n |-> IF prefix(end) = {} THEN 0 ELSE Max(prefix(end))]
<1>1. ASSUME NEW end \in 0..n
      PROVE  f[end] = IF end > 0 /\ s[end] = 0 THEN f[end - 1] ELSE end
    <2>1. f[end] = IF prefix(end) = {} THEN 0 ELSE Max(prefix(end))
        OBVIOUS
    <2>2. CASE end > 0 /\ s[end] = 0
        <3>1. prefix(end - 1) = prefix(end)
            BY <2>2
        <3>2. end - 1 \in 0..n
            BY <2>2
        <3>3. f[end - 1] = IF prefix(end - 1) = {} THEN 0 ELSE Max(prefix(end - 1))
            BY <3>2
        <3> HIDE DEF f, prefix
        <3> QED BY <2>1, <2>2, <3>1, <3>3
    <2>3. CASE end = 0
        <3>1. prefix(end) = {}
            BY <2>3
        <3> HIDE DEF f, prefix
        <3> QED BY <2>1, <2>3, <3>1
    <2>4. CASE end > 0 /\ s[end] # 0
        <3>1. end \in prefix(end) /\ prefix(end) \in SUBSET (1..end) /\ end \in Nat
            BY <2>4
        <3> HIDE DEF f, prefix
        <3>2. Max(prefix(end)) \in prefix(end) /\ \A y \in prefix(end) : y <= Max(prefix(end))
            BY <3>1, MaximumExists
        <3>3. Max(prefix(end)) = end
            BY <3>1, <3>2
        <3> QED BY <2>1, <2>4, <3>1, <3>3
    <2> QED BY <2>2, <2>3, <2>4
<1>2. f = [end \in 0..n |-> f[end]]
    OBVIOUS
<1> HIDE DEF f
<1>3. Stops(s, n, f)
    BY <1>1, <1>2 DEF Stops
<1> QED BY <1>3

\* The client (trim) cuts a string where it ends.
LEMMA ClientTrimEnds ==
    ASSUME NEW s, IsSequence(s)
    PROVE  \E e : EndsAt(s, Len(s), e) /\ trim(s) = SubSeq(s, 1, e)
<1> DEFINE n == Len(s)
<1>1. n \in Nat
    BY DEF IsSequence
<1>2. PICK f : f = CHOOSE g : Stops(s, n, g)
    OBVIOUS
<1>3. Stops(s, n, f)
    <2> HIDE DEF n
    <2> QED BY <1>1, <1>2, StopsExists, Zenon
<1>4. trim(s) = SubSeq(s, 1, f[n])
    BY <1>2, Zenon DEF trim, Stops
<1>5. EndsAt(s, n, f[n])
    <2> HIDE DEF n
    <2> QED BY <1>1, <1>3, StopsEnds
<1> QED BY <1>4, <1>5

\* So both make the same of every string.
LEMMA TrimsAlike ==
    ASSUME NEW s, IsSequence(s)
    PROVE  trim(s) = trim_trailing_zeros(s)
<1>1. Len(s) \in Nat
    BY DEF IsSequence
<1>2. PICK d : EndsAt(s, Len(s), d) /\ trim(s) = SubSeq(s, 1, d)
    BY ClientTrimEnds
<1>3. PICK e : EndsAt(s, Len(s), e) /\ trim_trailing_zeros(s) = SubSeq(s, 1, e)
    BY TrimEnds
<1> QED BY <1>1, <1>2, <1>3, EndUnique

(***************************************************************************)
(* Trimming forgets the padding and nothing else.                          *)
(***************************************************************************)
LEMMA PrefixIs ==
    ASSUME NEW s, IsSequence(s), NEW e \in 0..Len(s)
    PROVE  /\ IsSequence(SubSeq(s, 1, e)) /\ Len(SubSeq(s, 1, e)) = e
           /\ \A k \in 1..e : SubSeq(s, 1, e)[k] = s[k]
<1> DEFINE part == SubSeq(s, 0 + 1, e)
<1>1. e \in Nat /\ 0 <= e /\ e <= Len(s)
    BY DEF IsSequence
<1>2. IsSequence(part) /\ Len(part) = e - 0 /\ \A k \in 1..(e - 0) : part[k] = s[0 + k]
    BY <1>1, SubSeqIs
<1>3. part = SubSeq(s, 1, e)
    OBVIOUS
<1> HIDE DEF part
<1>4. \A k \in 1..e : part[k] = s[k]
    <2> SUFFICES ASSUME NEW k \in 1..e PROVE part[k] = s[k]
        OBVIOUS
    <2>1. k \in 1..(e - 0) /\ 0 + k = k
        BY <1>1
    <2> QED BY <1>2, <2>1, Zenon
<1>5. Len(part) = e
    BY <1>1, <1>2
<1> QED BY <1>2, <1>3, <1>4, <1>5

\* Padding is a sequence of zeros.
LEMMA ZerosAre ==
    ASSUME NEW n \in Nat
    PROVE  IsSequence(Zeros(n)) /\ Len(Zeros(n)) = n /\ \A i \in 1..n : Zeros(n)[i] = 0
BY DEF Zeros, IsSequence

\* Padding does not change what trimming leaves.
LEMMA PaddedTrims ==
    ASSUME NEW s, IsSequence(s), NEW n \in Nat
    PROVE  trim_trailing_zeros(s \o Zeros(n)) = trim_trailing_zeros(s)
<1> DEFINE t == s \o Zeros(n)
           z == Len(s)
<1>1. z \in Nat
    BY DEF IsSequence
<1>2. /\ IsSequence(t) /\ Len(t) = z + n
      /\ \A i \in 1..(z + n) : t[i] = IF i <= z THEN s[i] ELSE 0
    <2>1. /\ IsSequence(t) /\ Len(t) = z + n
          /\ \A i \in 1..(z + n) : t[i] = IF i <= z THEN s[i] ELSE Zeros(n)[i - z]
        BY ZerosAre, ConcatIs
    <2> HIDE DEF t, z
    <2>2. \A i \in 1..(z + n) : i <= z \/ i - z \in 1..n
        BY <1>1
    <2> QED BY <2>1, <2>2, ZerosAre
<1>3. PICK e : EndsAt(s, z, e) /\ trim_trailing_zeros(s) = SubSeq(s, 1, e)
    BY TrimEnds
<1>4. PICK d : EndsAt(t, Len(t), d) /\ trim_trailing_zeros(t) = SubSeq(t, 1, d)
    <2> HIDE DEF t
    <2> QED BY <1>2, TrimEnds
<1> HIDE DEF t
<1>5. e \in 0..z
    BY <1>3 DEF EndsAt
<1>6. EndsAt(t, Len(t), e)
    <2> HIDE DEF z
    <2>1. e = 0 \/ t[e] # 0
        BY <1>1, <1>2, <1>3, <1>5 DEF EndsAt
    <2>2. \A i \in (e + 1)..(z + n) : t[i] = 0
        BY <1>1, <1>2, <1>3, <1>5 DEF EndsAt
    <2> QED BY <1>1, <1>2, <1>5, <2>1, <2>2 DEF EndsAt
<1>7. d = e
    <2>1. Len(t) \in Nat
        BY <1>1, <1>2
    <2> QED BY <1>4, <1>6, <2>1, EndUnique
<1>8. /\ IsSequence(SubSeq(s, 1, e)) /\ Len(SubSeq(s, 1, e)) = e
      /\ \A k \in 1..e : SubSeq(s, 1, e)[k] = s[k]
    BY <1>5, PrefixIs
<1>9. /\ IsSequence(SubSeq(t, 1, e)) /\ Len(SubSeq(t, 1, e)) = e
      /\ \A k \in 1..e : SubSeq(t, 1, e)[k] = t[k]
    <2>1. e \in 0..Len(t)
        BY <1>1, <1>2, <1>5
    <2> QED BY <1>2, <2>1, PrefixIs
<1>10. \A k \in 1..e : s[k] = t[k]
    <2> HIDE DEF z
    <2> QED BY <1>1, <1>2, <1>5
<1>11. SubSeq(t, 1, e) = SubSeq(s, 1, e)
    BY <1>8, <1>9, <1>10, SequencesEqual
<1> QED BY <1>3, <1>4, <1>7, <1>11 DEF t

\* Of two strings that trimming makes the same, the longer is the shorter, padded.
LEMMA TrimmedPads ==
    ASSUME NEW s, IsSequence(s), NEW t, IsSequence(t), Len(s) <= Len(t),
           trim_trailing_zeros(s) = trim_trailing_zeros(t)
    PROVE  t = s \o Zeros(Len(t) - Len(s))
<1> DEFINE z == Len(s)
           n == Len(t) - z
           padded == s \o Zeros(n)
<1>1. z \in Nat /\ n \in Nat /\ Len(t) = z + n
    BY DEF IsSequence
<1>2. PICK e : EndsAt(s, z, e) /\ trim_trailing_zeros(s) = SubSeq(s, 1, e)
    BY TrimEnds
<1>3. PICK d : EndsAt(t, Len(t), d) /\ trim_trailing_zeros(t) = SubSeq(t, 1, d)
    BY TrimEnds
<1>4. e \in 0..z /\ d \in 0..Len(t)
    BY <1>2, <1>3 DEF EndsAt
<1>5. /\ Len(SubSeq(s, 1, e)) = e /\ \A k \in 1..e : SubSeq(s, 1, e)[k] = s[k]
      /\ Len(SubSeq(t, 1, d)) = d /\ \A k \in 1..d : SubSeq(t, 1, d)[k] = t[k]
    BY <1>4, PrefixIs
<1>6. d = e /\ \A k \in 1..e : s[k] = t[k]
    <2>1. SubSeq(s, 1, e) = SubSeq(t, 1, d)
        BY <1>2, <1>3
    <2>2. d = e
        BY <1>5, <2>1, Zenon
    <2> QED BY <1>5, <2>1, <2>2, Zenon
<1>7. /\ IsSequence(padded) /\ Len(padded) = z + n
      /\ \A i \in 1..(z + n) : padded[i] = IF i <= z THEN s[i] ELSE 0
    <2>1. IsSequence(Zeros(n)) /\ Len(Zeros(n)) = n /\ \A i \in 1..n : Zeros(n)[i] = 0
        <3> HIDE DEF n
        <3> QED BY <1>1, ZerosAre
    <2>2. /\ IsSequence(padded) /\ Len(padded) = z + n
          /\ \A i \in 1..(z + n) : padded[i] = IF i <= z THEN s[i] ELSE Zeros(n)[i - z]
        <3> HIDE DEF n
        <3> QED BY <2>1, ConcatIs
    <2> HIDE DEF padded, z, n
    <2>3. \A i \in 1..(z + n) : i <= z \/ i - z \in 1..n
        BY <1>1
    <2> QED BY <2>1, <2>2, <2>3
<1> HIDE DEF padded, z, n
<1>8. ASSUME NEW i \in 1..(z + n) PROVE padded[i] = t[i]
    <2>1. CASE i <= e
        BY <1>1, <1>4, <1>6, <1>7, <2>1
    <2>2. CASE i > e
        <3>1. i \in (e + 1)..(z + n)
            BY <1>1, <1>4, <2>2
        <3>2. t[i] = 0
            BY <1>1, <1>3, <1>6, <3>1 DEF EndsAt
        <3>3. i <= z => s[i] = 0
            BY <1>1, <1>2, <1>4, <3>1 DEF EndsAt
        <3> QED BY <1>7, <3>2, <3>3
    <2> QED BY <1>1, <1>4, <2>1, <2>2
<1>9. padded = t
    BY <1>1, <1>7, <1>8, SequencesEqual
<1> QED BY <1>9 DEF padded, n, z

-----------------------------------------------------------------------------
(***************************************************************************)
(* The inductive invariant: what has been written.                         *)
(***************************************************************************)
Written ==
    /\ bytes \in Seq(ByteValues) /\ Len(bytes) <= MaxBytes
    /\ text \in Seq(Characters)

\* The strings of every state are of their types, and bounded.
LEMMA WrittenInvariant == Spec => []Written
<1>1. Init => Written
    BY MaxBytesAssumption DEF Init, Written
<1>2. Written /\ [Next]_vars => Written'
    <2> SUFFICES ASSUME Written, [Next]_vars PROVE Written'
        OBVIOUS
    <2>1. ASSUME NEW b \in ByteValues, WriteByte(b) PROVE Written'
        BY <2>1, MaxBytesAssumption DEF Written, WriteByte
    <2>2. ASSUME NEW c \in Characters, TypeCharacter(c) PROVE Written'
        BY <2>2 DEF Written, TypeCharacter
    <2>3. CASE UNCHANGED vars
        BY <2>3 DEF Written, vars
    <2> QED BY <2>1, <2>2, <2>3 DEF Next
<1> QED BY <1>1, <1>2, PTL DEF Spec

(***************************************************************************)
(* The client scripts and the program trim alike, byte strings of every    *)
(* length: a digest made from a local file is made of the bytes that are   *)
(* hashed on chain.                                                        *)
(***************************************************************************)
THEOREM ProgramAndClientTrimAlike == Spec => []ClientTrimsAlike
<1>1. Written => ClientTrimsAlike
    BY SequenceIs, TrimsAlike DEF Written, ClientTrimsAlike
<1> QED BY <1>1, WrittenInvariant, PTL

(***************************************************************************)
(* Two strings have one digest if, and only if, they differ in padding or  *)
(* what is left of them without it collides.                               *)
(***************************************************************************)
LEMMA PaddingOnly ==
    ASSUME NEW s, IsSequence(s), Len(s) <= MaxBytes,
           NEW t, IsSequence(t), Len(t) <= MaxBytes
    PROVE  compute_program_hash(s) = compute_program_hash(t)
               <=> \/ Padded(s, t)
                   \/ Collide(trim_trailing_zeros(s), trim_trailing_zeros(t))
<1>1. Len(s) \in Nat /\ Len(t) \in Nat
    BY DEF IsSequence
<1>2. ASSUME Padded(s, t) PROVE compute_program_hash(s) = compute_program_hash(t)
    <2>1. PICK n \in 0..MaxBytes : s = t \o Zeros(n) \/ t = s \o Zeros(n)
        BY <1>2 DEF Padded
    <2>2. n \in Nat
        OBVIOUS
    <2>3. trim_trailing_zeros(s) = trim_trailing_zeros(t)
        BY <2>1, <2>2, PaddedTrims, Zenon
    <2> QED BY <2>3 DEF compute_program_hash
<1>3. Collide(trim_trailing_zeros(s), trim_trailing_zeros(t))
          => compute_program_hash(s) = compute_program_hash(t)
    BY Zenon DEF Collide, compute_program_hash
<1>4. ASSUME compute_program_hash(s) = compute_program_hash(t),
             ~ Collide(trim_trailing_zeros(s), trim_trailing_zeros(t))
      PROVE  Padded(s, t)
    <2>1. trim_trailing_zeros(s) = trim_trailing_zeros(t)
        BY <1>4, Zenon DEF Collide, compute_program_hash
    <2>2. CASE Len(s) <= Len(t)
        <3>1. t = s \o Zeros(Len(t) - Len(s))
            BY <2>1, <2>2, TrimmedPads
        <3>2. Len(t) - Len(s) \in 0..MaxBytes
            BY <1>1, <2>2, MaxBytesAssumption
        <3> QED BY <3>1, <3>2, Zenon DEF Padded
    <2>3. CASE Len(t) <= Len(s)
        <3>1. s = t \o Zeros(Len(s) - Len(t))
            BY <2>1, <2>3, TrimmedPads
        <3>2. Len(s) - Len(t) \in 0..MaxBytes
            BY <1>1, <2>3, MaxBytesAssumption
        <3> QED BY <3>1, <3>2, Zenon DEF Padded
    <2> QED BY <1>1, <2>2, <2>3
<1> QED BY <1>2, <1>3, <1>4

(***************************************************************************)
(* What the digest ignores (validation.rs, compute_program_hash): of any   *)
(* two programs it makes one only if they differ in trailing zeros, or     *)
(* SHA-256 collides on the two programs without them.                      *)
(***************************************************************************)
THEOREM OnlyPaddingIsIgnored == Spec => []DigestIgnoresPaddingOnly
<1>1. ASSUME Written, NEW other \in SeqOf(ByteValues, MaxBytes)
      PROVE  compute_program_hash(bytes) = compute_program_hash(other)
                 <=> \/ Padded(bytes, other)
                     \/ Collide(trim_trailing_zeros(bytes), trim_trailing_zeros(other))
    <2>1. IsSequence(bytes) /\ Len(bytes) <= MaxBytes
        BY <1>1, SequenceIs DEF Written
    <2>2. PICK n \in 0..MaxBytes : other \in [1..n -> ByteValues]
        BY MaxBytesAssumption DEF SeqOf
    <2>3. IsSequence(other) /\ Len(other) <= MaxBytes
        BY <2>2, MaxBytesAssumption DEF IsSequence
    <2> QED BY <2>1, <2>3, PaddingOnly
<1>2. Written => DigestIgnoresPaddingOnly
    BY <1>1, Zenon DEF DigestIgnoresPaddingOnly
<1> QED BY <1>2, WrittenInvariant, PTL

(***************************************************************************)
(* What is read as a digest is one.                                        *)
(***************************************************************************)
LEMMA ReadDigest ==
    ASSUME NEW s, IsSequence(s), hex_to_hash(s) = Ok
    PROVE  HexValue(s) \in Digests
<1>1. Len(s) = 2 * DigestLen /\ \A k \in DOMAIN s : IsNibble(s[k])
    BY DEF hex_to_hash, Require, &&, Ok
<1>2. \A k \in 1..(2 * DigestLen) : IsNibble(s[k])
    BY <1>1 DEF IsSequence
<1>3. ASSUME NEW i \in 1..DigestLen
      PROVE  16 * hex_nibble(s[2 * i - 1]) + hex_nibble(s[2 * i]) \in 0..255
    <2>1. 2 * i - 1 \in 1..(2 * DigestLen) /\ 2 * i \in 1..(2 * DigestLen)
        BY DigestLenAssumption
    <2>2. hex_nibble(s[2 * i - 1]) \in 0..15 /\ hex_nibble(s[2 * i]) \in 0..15
        BY <1>2, <2>1, NibbleRead
    <2> QED BY <2>2
<1> QED BY <1>3 DEF HexValue, Digests

\* The text that a digest prints as is read.
LEMMA PrintedIsRead ==
    ASSUME NEW digest \in Digests
    PROVE  hex_to_hash(hash_to_hex(digest)) = Ok
<1> DEFINE digit(k) == IF k % 2 = 1 THEN HEX[digest[(k + 1) \div 2] \div 16]
                                    ELSE HEX[digest[k \div 2] % 16]
           s == [k \in 1..(2 * DigestLen) |-> digit(k)]
<1>1. Len(digest) = DigestLen
    BY DigestLenAssumption DEF Digests
<1>2. hash_to_hex(digest) = s
    BY <1>1 DEF hash_to_hex
<1>3. \A n \in 0..15 : IsNibble(HEX[n])
    BY DEF IsNibble, HEX
<1>4. ASSUME NEW k \in 1..(2 * DigestLen) PROVE IsNibble(digit(k))
    <2>1. CASE k % 2 = 1
        <3>1. (k + 1) \div 2 \in 1..DigestLen
            BY <2>1, DigestLenAssumption
        <3>2. digest[(k + 1) \div 2] \in 0..255
            BY <3>1 DEF Digests
        <3>3. digest[(k + 1) \div 2] \div 16 \in 0..15
            BY <3>2
        <3> QED BY <1>3, <2>1, <3>3
    <2>2. CASE k % 2 # 1
        <3>1. k \div 2 \in 1..DigestLen
            BY <2>2, DigestLenAssumption
        <3>2. digest[k \div 2] \in 0..255
            BY <3>1 DEF Digests
        <3>3. digest[k \div 2] % 16 \in 0..15
            BY <3>2
        <3> QED BY <1>3, <2>2, <3>3
    <2> QED BY <2>1, <2>2
<1> HIDE DEF digit
<1>5. Len(s) = 2 * DigestLen /\ DOMAIN s = 1..(2 * DigestLen)
    BY DigestLenAssumption
<1>6. \A k \in DOMAIN s : IsNibble(s[k])
    BY <1>4
<1> HIDE DEF s
<1>7. hex_to_hash(s) = Ok
    BY <1>5, <1>6 DEF hex_to_hash, Require, &&, Ok
<1> QED BY <1>2, <1>7

(***************************************************************************)
(* One text for each digest (validation.rs:255-283): hex_to_hash reads a   *)
(* text exactly when it is what hash_to_hex prints for the digest read.    *)
(***************************************************************************)
THEOREM OneTextForEachDigest == Spec => []OneTextPerDigest
<1>1. ASSUME Written PROVE OneTextPerDigest
    <2>1. IsSequence(text)
        BY <1>1, SequenceIs DEF Written
    <2>2. hex_to_hash(text) = Ok
             => HexValue(text) \in Digests /\ text = hash_to_hex(HexValue(text))
        BY <2>1, ReadDigest, DigestPrinted
    <2>3. \A digest \in Digests : text = hash_to_hex(digest) => hex_to_hash(text) = Ok
        BY PrintedIsRead
    <2> QED BY <2>2, <2>3 DEF OneTextPerDigest
<1> QED BY <1>1, WrittenInvariant, PTL
=============================================================================
