---------------------------- MODULE MCDigestText ----------------------------
(***************************************************************************)
(* Digests of one byte; texts over the characters at, and just outside,    *)
(* the ends of the ranges that hex_nibble accepts, and upper case.         *)
(***************************************************************************)
EXTENDS DigestText

\* No two byte strings of this instance collide.
MCSha256(s) == <<FoldSeq(LAMBDA b, acc : 3 * acc + b, 1, s)>>

ASSUME NoCollision ==
    \A s, t \in SeqOf(ByteValues, MaxBytes) : Sha256(s) = Sha256(t) => s = t

MCCharacters == {47, 48, 49, 57, 58, 65, 70, 96, 97, 98, 102, 103}
=============================================================================
