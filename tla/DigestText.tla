----------------------------- MODULE DigestText -----------------------------
(***************************************************************************)
(* The digest of a build as a reviewer handles it: program bytes written   *)
(* byte by byte, or a digest text typed character by character, each read  *)
(* the way validation.rs does.                                             *)
(***************************************************************************)
EXTENDS BufferHash

CONSTANTS ByteValues, MaxBytes, Characters, MaxText

ASSUME MaxBytesAssumption == MaxBytes \in Nat

VARIABLES bytes, text

vars == <<bytes, text>>

Init == bytes = <<>> /\ text = <<>>

WriteByte(b) ==
    /\ text = <<>> /\ Len(bytes) < MaxBytes
    /\ bytes' = Append(bytes, b) /\ UNCHANGED text

TypeCharacter(c) ==
    /\ bytes = <<>> /\ Len(text) < MaxText
    /\ text' = Append(text, c) /\ UNCHANGED bytes

Next ==
    \/ \E b \in ByteValues : WriteByte(b)
    \/ \E c \in Characters : TypeCharacter(c)

Spec == Init /\ [][Next]_vars

-----------------------------------------------------------------------------
Zeros(n) == [i \in 1..n |-> 0]

Digests == [1..DigestLen -> 0..255]

Padded(s, t) == \E n \in 0..MaxBytes : s = t \o Zeros(n) \/ t = s \o Zeros(n)

\* SHA-256 itself does not tell the two byte strings apart.
Collide(s, t) == s # t /\ Sha256(s) = Sha256(t)

(***************************************************************************)
(* Padding does not matter, and nothing else is forgiven (validation.rs:   *)
(* 224-226): two byte strings have one digest exactly when they differ in  *)
(* trailing zeros only, or SHA-256 collides on what is left without them.  *)
(***************************************************************************)
DigestIgnoresPaddingOnly ==
    \A other \in SeqOf(ByteValues, MaxBytes) :
        compute_program_hash(bytes) = compute_program_hash(other)
            <=> \/ Padded(bytes, other)
                \/ Collide(trim_trailing_zeros(bytes), trim_trailing_zeros(other))

(***************************************************************************)
(* The client scripts and the program trim alike, so that a digest made    *)
(* from a local file can match the digest made on chain.                   *)
(***************************************************************************)
ClientTrimsAlike == trim(bytes) = trim_trailing_zeros(bytes)

(***************************************************************************)
(* One text for each digest (lib.rs:235-239): the only text that is read   *)
(* as a digest is the one hash_to_hex prints for it, upper case, other     *)
(* characters and other lengths being refused.                             *)
(***************************************************************************)
OneTextPerDigest ==
    hex_to_hash(text) = Ok
        <=> \E digest \in Digests : text = hash_to_hex(digest) /\ HexValue(text) = digest
=============================================================================
