----------------------------- MODULE BufferHash -----------------------------
(***************************************************************************)
(* validation.rs: the program bytes of a loader buffer, their digest with  *)
(* trailing zeros trimmed, and the lowercase hex the digest travels in.    *)
(* Bytes are sequences of 0..255, strings sequences of ASCII codes.        *)
(***************************************************************************)
EXTENDS Verdicts, SequencesExt

CONSTANTS
    BPF_LOADER_UPGRADEABLE_ID,
    DigestLen,      \* bytes of a digest: 32 in the program
    Sha256(_)       \* the sol_sha256 syscall

ASSUME DigestLenAssumption == DigestLen \in Nat \ {0}

BUFFER_STATE_TAG == 1

(***************************************************************************)
(* extract_buffer_program_bytes: has_meta says that the 37 bytes of        *)
(* metadata are there, tag is the enum tag, bytes what follows them.       *)
(***************************************************************************)
extract_buffer(data) ==
    Require(data.has_meta, "NotABuffer")
    && Require(data.tag = BUFFER_STATE_TAG, "NotABuffer")

extract_buffer_program_bytes(data) == data.bytes

trim_trailing_zeros(bytes) ==
    LET nonzero == {i \in DOMAIN bytes : bytes[i] # 0}
        end     == IF nonzero = {} THEN 0 ELSE Max(nonzero)
    IN  SubSeq(bytes, 1, end)

\* Mutant: the padding is hashed.
compute_program_hash_Untrimmed(program_bytes) == Sha256(program_bytes)

compute_program_hash(program_bytes) == Sha256(trim_trailing_zeros(program_bytes))

(***************************************************************************)
(* hex_nibble and hex_to_hash: verdict, then value.                        *)
(***************************************************************************)
\* Mutant: upper case is accepted.
IsNibble_AnyCase(c) == c \in 48..57 \/ c \in 97..102 \/ c \in 65..70

IsNibble(c) == c \in 48..57 \/ c \in 97..102

hex_nibble(c) == IF c \in 48..57 THEN c - 48 ELSE c - 97 + 10

hex_to_hash(s) ==
    Require(Len(s) = 2 * DigestLen, "BufferHashMismatch")
    && Require(\A k \in DOMAIN s : IsNibble(s[k]), "BufferHashMismatch")

HexValue(s) ==
    [i \in 1..DigestLen |-> 16 * hex_nibble(s[2 * i - 1]) + hex_nibble(s[2 * i])]

HEX == [n \in 0..15 |-> IF n < 10 THEN 48 + n ELSE 97 + n - 10]

hash_to_hex(hash) ==
    [k \in 1..(2 * Len(hash)) |->
        IF k % 2 = 1 THEN HEX[hash[(k + 1) \div 2] \div 16]
                     ELSE HEX[hash[k \div 2] % 16]]

(***************************************************************************)
(* The loop `trim` of the client scripts, which a reviewer's digest is     *)
(* computed with: TrimEnd[end] is where it stops when it has reached end.  *)
(***************************************************************************)
\* Mutant: the first byte is never dropped.
trim_KeepsFirst(bytes) ==
    LET TrimEnd[end \in 0..Len(bytes)] ==
            IF end > 1 /\ bytes[end] = 0 THEN TrimEnd[end - 1] ELSE end
    IN  SubSeq(bytes, 1, TrimEnd[Len(bytes)])

trim(bytes) ==
    LET TrimEnd[end \in 0..Len(bytes)] ==
            IF end > 0 /\ bytes[end] = 0 THEN TrimEnd[end - 1] ELSE end
    IN  SubSeq(bytes, 1, TrimEnd[Len(bytes)])
=============================================================================
