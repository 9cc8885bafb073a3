------------------------------ MODULE JsonWords ------------------------------
(***************************************************************************)
(* The 64-bit numbers of basic_json (json/json.hpp): words, sequences of   *)
(* eight bytes with the most significant first, so that their width is     *)
(* exact, and the casts of the binary formats.                             *)
(***************************************************************************)
EXTENDS JsonTypes

\* Words.  Low(w, n) are the n bytes a cast to an n-byte type keeps.
Low(w, n) == SubSeq(w, Len(w) - n + 1, Len(w))
Fill(b, n) == [i \in 1 .. n |-> b]
ZeroExtend(bs) == Fill(0, 8 - Len(bs)) \o bs
SignExtend(bs) == Fill(IF bs[1] < 128 THEN 0 ELSE 255, 8 - Len(bs)) \o bs

\* The word of a number below 2^24, and back.
Word(n) == ZeroExtend(<<n \div 65536, (n \div 256) % 256, n % 256>>)
IsSmall(w) == \A i \in 1 .. 5 : w[i] = 0
Number(w) == (w[6] * 256 + w[7]) * 256 + w[8]

\* w <= the largest value of an unsigned, or of a signed, type of n bytes, for an
\* unsigned w; w in the range of a signed type of n bytes, for a signed w: the
\* bytes above are copies of its sign.
FitsUnsigned(w, n) == \A i \in 1 .. 8 - n : w[i] = 0
FitsPositive(w, n) == FitsUnsigned(w, n) /\ w[9 - n] < 128
FitsSigned(w, n) == \A i \in 1 .. 8 - n : w[i] = IF w[9 - n] < 128 THEN 0 ELSE 255

IsNegative(w) == w[1] >= 128
MinusOneMinus(w) == [i \in 1 .. 8 |-> 255 - w[i]]
Zero == Fill(0, 8)
=============================================================================
