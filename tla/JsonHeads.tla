------------------------------ MODULE JsonHeads ------------------------------
(***************************************************************************)
(* The numbers of the binary formats of json.hpp, CBOR, MessagePack and    *)
(* UBJSON, and the heads that give the length of what follows: a number is *)
(* written in the narrowest form that holds it.  A writer returns bytes; a *)
(* reader takes the input and a position and returns the value and the     *)
(* position after it, or Failed.                                           *)
(***************************************************************************)
EXTENDS JsonWords

\* CBOR, binary_writer::write_cbor: the ladder of heads that integers,
\* strings, arrays and objects share.
CborHead(base, w) ==
    IF IsSmall(w) /\ Number(w) <= 23 THEN <<base + Number(w)>>
    ELSE IF FitsUnsigned(w, 1) THEN <<base + 24>> \o Low(w, 1)
    ELSE IF FitsUnsigned(w, 2) THEN <<base + 25>> \o Low(w, 2)
    ELSE IF FitsUnsigned(w, 4) THEN <<base + 26>> \o Low(w, 4)
    ELSE <<base + 27>> \o w

CborInteger(w) ==
    IF IsNegative(w) THEN CborHead(32, MinusOneMinus(w)) ELSE CborHead(0, w)

\* MessagePack, binary_writer::write_msgpack.
MsgpackUnsigned(w) ==
    IF FitsPositive(w, 1) THEN Low(w, 1)
    ELSE IF FitsUnsigned(w, 1) THEN <<204>> \o Low(w, 1)
    ELSE IF FitsUnsigned(w, 2) THEN <<205>> \o Low(w, 2)
    ELSE IF FitsUnsigned(w, 4) THEN <<206>> \o Low(w, 4)
    ELSE <<207>> \o w

\* Mutant: the least number in one byte is off by one.
MsgpackIntegerFixint(w) ==
    IF ~ IsNegative(w) THEN MsgpackUnsigned(w)
    ELSE IF FitsSigned(w, 1) /\ w[8] >= 223 THEN Low(w, 1)
    ELSE IF FitsSigned(w, 1) THEN <<208>> \o Low(w, 1)
    ELSE IF FitsSigned(w, 2) THEN <<209>> \o Low(w, 2)
    ELSE IF FitsSigned(w, 4) THEN <<210>> \o Low(w, 4)
    ELSE <<211>> \o w
MsgpackInteger(w) ==
    IF ~ IsNegative(w) THEN MsgpackUnsigned(w)
    ELSE IF FitsSigned(w, 1) /\ w[8] >= 224 THEN Low(w, 1)
    ELSE IF FitsSigned(w, 1) THEN <<208>> \o Low(w, 1)
    ELSE IF FitsSigned(w, 2) THEN <<209>> \o Low(w, 2)
    ELSE IF FitsSigned(w, 4) THEN <<210>> \o Low(w, 4)
    ELSE <<211>> \o w

MsgpackStringHead(n) ==
    IF n <= 31 THEN <<160 + n>>
    ELSE IF n <= 255 THEN <<217, n>>
    ELSE IF n <= 65535 THEN <<218>> \o Low(Word(n), 2)
    ELSE <<219>> \o Low(Word(n), 4)

MsgpackHead(fix, code, n) ==
    IF n <= 15 THEN <<fix + n>>
    ELSE IF n <= 65535 THEN <<code>> \o Low(Word(n), 2)
    ELSE <<code + 1>> \o Low(Word(n), 4)

\* UBJSON, binary_writer::write_ubjson.  The width of each integer type.
UbjsonWidth(prefix) ==
    CASE prefix \in {"i", "U"} -> 1 [] prefix = "I" -> 2
      [] prefix = "l" -> 4 [] prefix = "L" -> 8

\* ubjson_prefix for number_unsigned and for number_integer.
UnsignedPrefix(w) ==
    IF FitsPositive(w, 1) THEN "i"
    ELSE IF FitsUnsigned(w, 1) THEN "U"
    ELSE IF FitsPositive(w, 2) THEN "I"
    ELSE IF FitsPositive(w, 4) THEN "l"
    ELSE "L"

IntegerPrefix(w) ==
    IF FitsSigned(w, 1) THEN "i"
    ELSE IF FitsUnsigned(w, 1) THEN "U"
    ELSE IF FitsSigned(w, 2) THEN "I"
    ELSE IF FitsSigned(w, 4) THEN "l"
    ELSE "L"

\* The code of a prefix.
PrefixCode(prefix) ==
    CASE prefix = "i" -> 105 [] prefix = "U" -> 85 [] prefix = "I" -> 73
      [] prefix = "l" -> 108 [] prefix = "L" -> 76

\* write_number_with_ubjson_prefix, unsigned and signed: a number beyond 2^63
\* throws.
UbjsonBytes(w, prefix, add_prefix) ==
    (IF add_prefix THEN <<PrefixCode(prefix)>> ELSE <<>>) \o Low(w, UbjsonWidth(prefix))

UbjsonUnsigned(w, add_prefix) ==
    IF IsNegative(w) THEN <<407>> ELSE UbjsonBytes(w, UnsignedPrefix(w), add_prefix)

UbjsonInteger(w, add_prefix) == UbjsonBytes(w, IntegerPrefix(w), add_prefix)

-----------------------------------------------------------------------------
\* binary_reader.
Failed == [ok |-> FALSE, v |-> Null, p |-> 0]
Read(v, p) == [ok |-> TRUE, v |-> v, p |-> p]

\* get_number: the n bytes from p on, or the error of unexpect_eof.
get_number(bs, p, n) ==
    IF p + n - 1 <= Len(bs) THEN Read(SubSeq(bs, p, p + n - 1), p + n) ELSE Failed

\* A number of width n that `Of` makes a value of.
NumberThen(bs, p, n, Of(_)) ==
    LET r == get_number(bs, p, n) IN IF r.ok THEN Read(Of(r.v), r.p) ELSE Failed

\* The widths of one, two, four and eight bytes.
Width(i) == CASE i = 0 -> 1 [] i = 1 -> 2 [] i = 2 -> 4 [] i = 3 -> 8

\* CBOR.  The argument of a head, whose low five bits are `info`: these bits,
\* or the number of one, two, four or eight bytes after them.
CborArgument(bs, p, info) ==
    IF info <= 23 THEN Read(Word(info), p)
    ELSE IF info <= 27 THEN NumberThen(bs, p, Width(info - 24), ZeroExtend)
    ELSE Failed

\* parse_cbor_internal on integers.
CborNumber(bs, p) ==
    LET b == bs[p]
        arg == CborArgument(bs, p + 1, b % 32)
    IN  IF ~ arg.ok THEN Failed
        ELSE IF b < 32 THEN Read(Unsigned(arg.v), arg.p)
        ELSE Read(Integer(MinusOneMinus(arg.v)), arg.p)

-----------------------------------------------------------------------------
\* std::ldexp(m, q) for 0 <= m < 2^24, exactly, as a double: external.
ldexp(negative, m, q) ==
    LET top == CHOOSE b \in 0 .. 23 : 2^b <= m /\ m < 2^(b + 1)
        e == 1023 + top + q
        f == (m - 2^top) * 2^(24 - top)
        sign == IF negative THEN 128 ELSE 0
    IN  IF m = 0 THEN <<sign, 0, 0, 0, 0, 0, 0, 0>>
        ELSE <<sign + e \div 16, (e % 16) * 16 + f \div 2^20, (f \div 2^12) % 256,
               (f \div 16) % 256, (f % 16) * 16, 0, 0, 0>>

NotFinite(negative, nan) ==
    <<IF negative THEN 255 ELSE 127, IF nan THEN 248 ELSE 240, 0, 0, 0, 0, 0, 0>>

\* The case 0xF9 of parse_cbor_internal: a half-precision float.
Half(b) ==
    LET negative == b[1] >= 128
        exp == (b[1] % 128) \div 4
        mant == (b[1] % 4) * 256 + b[2]
    IN  IF exp = 0 THEN ldexp(negative, mant, -24)
        ELSE IF exp # 31 THEN ldexp(negative, mant + 1024, exp - 25)
        ELSE NotFinite(negative, mant # 0)

\* static_cast<double>(float): external.
Single(b) ==
    LET negative == b[1] >= 128
        exp == (b[1] % 128) * 2 + b[2] \div 128
        mant == ((b[2] % 128) * 256 + b[3]) * 256 + b[4]
    IN  IF exp = 0 THEN ldexp(negative, mant, -149)
        ELSE IF exp # 255 THEN ldexp(negative, mant + 2^23, exp - 150)
        ELSE IF mant = 0 THEN NotFinite(negative, FALSE)
        ELSE LET quiet == 2^22 + (mant % 2^22)
                 f == quiet * 2
             IN <<IF negative THEN 255 ELSE 127, 240 + f \div 2^20,
                  (f \div 2^12) % 256, (f \div 16) % 256, (f % 16) * 16, 0, 0, 0>>

FloatOf(b) == Float(b)
SingleOf(b) == Float(Single(b))
HalfOf(b) == Float(Half(b))

-----------------------------------------------------------------------------
\* parse_msgpack_internal on fixint, on nil and the booleans, on numbers.
UnsignedOf(b) == Unsigned(ZeroExtend(b))
IntegerOf(b) == Integer(SignExtend(b))

\* The bytes that are numbers themselves, 0 to 127 and -32 to -1.
PositiveFixint(b) == UnsignedOf(<<b>>)
NegativeFixint(b) == IntegerOf(<<b>>)

MsgpackNumber(bs, p) ==
    LET b == bs[p]
    IN  CASE b < 128 -> Read(PositiveFixint(b), p + 1)
          [] b \in 204 .. 207 -> NumberThen(bs, p + 1, Width(b - 204), UnsignedOf)
          [] b \in 208 .. 211 -> NumberThen(bs, p + 1, Width(b - 208), IntegerOf)
          [] b = 202 -> NumberThen(bs, p + 1, 4, SingleOf)
          [] b = 203 -> NumberThen(bs, p + 1, 8, FloatOf)
          [] b >= 224 -> Read(NegativeFixint(b), p + 1)

\* The integer types by their prefix, as words.
UbjsonTypes == {PrefixCode(t) : t \in {"U", "i", "I", "l", "L"}}
UbjsonWord(bs, p, prefix) ==
    CASE prefix = PrefixCode("U") -> NumberThen(bs, p, 1, ZeroExtend)
      [] prefix = PrefixCode("i") -> NumberThen(bs, p, 1, SignExtend)
      [] prefix = PrefixCode("I") -> NumberThen(bs, p, 2, SignExtend)
      [] prefix = PrefixCode("l") -> NumberThen(bs, p, 4, SignExtend)
      [] prefix = PrefixCode("L") -> NumberThen(bs, p, 8, SignExtend)
      [] OTHER -> Failed
=============================================================================
