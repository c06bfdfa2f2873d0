------------------------------- MODULE Base64 -------------------------------
(***************************************************************************)
(* The encoder the example programs share (examples/cbindings/base64.c).   *)
(* A character of the output is its position in b64chars, 0 to 63, or Pad  *)
(* for '='.  Reading a group of three bytes is arithmetic on at most 24    *)
(* bits, so the width of size_t plays no part.                             *)
(***************************************************************************)
EXTENDS Integers, Sequences

Byte == 0..255
Pad == 64
Character == 0..Pad

EncodedSize(inlen) ==
  LET ret == IF inlen % 3 # 0 THEN inlen + (3 - (inlen % 3)) ELSE inlen
  IN  (ret \div 3) * 4

\* The byte at i, or zero bits past the end.
ByteAt(in, i) == IF i <= Len(in) THEN in[i] ELSE 0

\* The 24 bits of the group that begins at byte i.
Group(in, i) == ByteAt(in, i) * 65536 + ByteAt(in, i + 1) * 256 + ByteAt(in, i + 2)

\* The character with number k of its group: six bits of v, or padding for
\* bytes the input does not have.
EncodedChar(in, i, k) ==
  LET v == Group(in, i)
  IN  CASE k = 0 -> v \div 262144
        [] k = 1 -> (v \div 4096) % 64
        [] k = 2 -> IF i + 1 <= Len(in) THEN (v \div 64) % 64 ELSE Pad
        [] k = 3 -> IF i + 2 <= Len(in) THEN v % 64 ELSE Pad

\* The loop of b64_encode, by position of the output.
Encode(in) ==
  [j \in 1..EncodedSize(Len(in)) |->
     EncodedChar(in, 3 * ((j - 1) \div 4) + 1, (j - 1) % 4)]

-----------------------------------------------------------------------------
(* What a receiver makes of it: the decoder of RFC 4648.                   *)

Bits(out, j) == IF out[j] = Pad THEN 0 ELSE out[j]

DecodedGroup(out, j) ==
  Bits(out, j) * 262144 + Bits(out, j + 1) * 4096 + Bits(out, j + 2) * 64 + Bits(out, j + 3)

DecodedSize(out) ==
  LET n == Len(out)
  IN  (n \div 4) * 3
        - (IF n > 0 /\ out[n] = Pad THEN 1 ELSE 0)
        - (IF n > 0 /\ out[n - 1] = Pad THEN 1 ELSE 0)

Decode(out) ==
  [i \in 1..DecodedSize(out) |->
     LET v == DecodedGroup(out, 4 * ((i - 1) \div 3) + 1)
     IN  CASE (i - 1) % 3 = 0 -> v \div 65536
           [] (i - 1) % 3 = 1 -> (v \div 256) % 256
           [] (i - 1) % 3 = 2 -> v % 256]
=============================================================================
