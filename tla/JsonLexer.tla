------------------------------ MODULE JsonLexer ------------------------------
(***************************************************************************)
(* lexer (json.hpp): the tokens of a JSON text.  scan takes the text and   *)
(* the position of the next byte, and returns the token, its value and the *)
(* position after it (unget leaves the byte after a number to be read      *)
(* again).  A float is the decimal number that std::strtod reads and that  *)
(* Grisu2 writes back, <<negative, digits, exponent>> without leading or   *)
(* trailing zeros; both are external, and exact for the few digits here.   *)
(***************************************************************************)
EXTENDS JsonValue, JsonUtf8, JsonNumber

Token(t, v, p) == [token |-> t, v |-> v, p |-> p]
ParseError == Token("parse_error", Null, 0)

-----------------------------------------------------------------------------
\* scan_string, whose loop reads one character, a byte or an escape, in state r.
Add(r, bytes) == [r EXCEPT !.buffer = @ \o bytes]

RECURSIVE scan_string(_, _, _)
scan_string(bs, p, r) ==
    LET c == Byte(bs, p)
        whole == r.wanted = <<>>
        escape == CodepointEscape(bs, p + 2)
    IN  IF whole /\ c = Quote THEN Token("value_string", r.buffer, p + 1)
        ELSE IF whole /\ c = Backslash THEN
             IF Byte(bs, p + 1) \in Escapable
             THEN scan_string(bs, p + 2, Add(r, <<EscapeOf(bs[p + 1])>>))
             ELSE IF Byte(bs, p + 1) = LetterU /\ escape # <<>>
             THEN scan_string(bs, p + 2 + escape[2], Add(r, escape[1]))
             ELSE ParseError
        ELSE IF ScanByte(r.wanted, c) = Wrong THEN ParseError
        ELSE scan_string(bs, p + 1, ReadByte(r, c))

-----------------------------------------------------------------------------
\* The end of the number that starts at p, or 0; a decimal point or an exponent
\* makes it a float.
RECURSIVE NumberEnd(_, _, _)
NumberEnd(bs, p, label) ==
    LET next == NumberStep(label, Byte(bs, p))
    IN  IF next = "done" THEN p ELSE IF next = "error" THEN 0
        ELSE NumberEnd(bs, p + 1, next)

\* std::strtoull: the word of decimal digits, with errno when it overflows.
RECURSIVE strtoull(_, _)
strtoull(digits, w) ==
    IF digits = <<>> THEN [errno |-> FALSE, w |-> w]
    ELSE LET next == TimesTenFrom(w, 8, Head(digits) - Ascii["0"])
         IN IF next[1] > 0 THEN [errno |-> TRUE, w |-> w]
            ELSE strtoull(Tail(digits), next[2])

\* std::strtoll, of the digits after a minus sign.
strtoll(digits) ==
    LET u == strtoull(digits, Zero)
        least == <<128, 0, 0, 0, 0, 0, 0, 0>>
    IN [errno |-> u.errno \/ (IsNegative(u.w) /\ u.w # least), w |-> Negate(u.w)]

\* std::strtod: external.  A decimal number whose point stands n digits after
\* its first digit is infinite when n > 309 and zero when n < -323; the few
\* numbers at the two limits, and rounding, are out of the model.  An exponent
\* has reached one of them when it is beyond Saturated.
Saturated == 99999
RECURSIVE Value(_, _)
Value(digits, n) ==
    IF digits = <<>> \/ n > Saturated THEN n
    ELSE Value(Tail(digits), n * 10 + Head(digits) - Ascii["0"])

First(s, P(_)) == IF \E i \in 1 .. Len(s) : P(s[i])
                  THEN CHOOSE i \in 1 .. Len(s) : P(s[i]) /\ \A j \in 1 .. i - 1 : ~ P(s[j])
                  ELSE Len(s) + 1

Decimal(negative, digits, exponent) ==
    LET NonZero(d) == d # Ascii["0"]
        first == First(digits, NonZero)
        nonzero == {i \in 1 .. Len(digits) : NonZero(digits[i])}
        last == CHOOSE i \in nonzero : \A j \in nonzero : j <= i
        n == Len(digits) - first + 1 + exponent
    IN  IF nonzero = {} \/ n < -323 THEN <<negative, <<>>, 0>>
        ELSE IF n > 309 THEN <<negative, Infinite, 0>>
        ELSE <<negative, SubSeq(digits, first, last), exponent + Len(digits) - last>>

strtod(text) ==
    LET negative == text[1] = Ascii["-"]
        body == IF negative THEN Tail(text) ELSE text
        e == First(body, IsExponent)
        mantissa == SubSeq(body, 1, e - 1)
        IsPoint(c) == c = Ascii["."]
        point == First(mantissa, IsPoint)
        fraction == SubSeq(mantissa, point + 1, Len(mantissa))
        power == SubSeq(body, e + 1, Len(body))
        signed == power # <<>> /\ power[1] \in {Ascii["+"], Ascii["-"]}
        size == IF signed THEN Value(Tail(power), 0) ELSE Value(power, 0)
        exponent == IF signed /\ power[1] = Ascii["-"] THEN -size ELSE size
    IN Decimal(negative, SubSeq(mantissa, 1, point - 1) \o fraction,
               exponent - Len(fraction))

\* Mutant: the errno of strtoull is not looked at.
NumberTokenUnchecked(text, p) ==
    IF \E i \in 1 .. Len(text) : IsExponent(text[i]) \/ text[i] = Ascii["."]
    THEN Token("value_float", strtod(text), p)
    ELSE IF text[1] = Ascii["-"] THEN Token("value_integer", strtoll(Tail(text)).w, p)
    ELSE Token("value_unsigned", strtoull(text, Zero).w, p)

\* scan_number_done: an integer that does not fit becomes a float.
NumberToken(text, p) ==
    LET isFloat == \E i \in 1 .. Len(text) :
                      IsExponent(text[i]) \/ text[i] = Ascii["."]
        negative == text[1] = Ascii["-"]
        n == IF negative THEN strtoll(Tail(text)) ELSE strtoull(text, Zero)
    IN  IF isFloat \/ n.errno THEN Token("value_float", strtod(text), p)
        ELSE Token(IF negative THEN "value_integer" ELSE "value_unsigned", n.w, p)

scan_number(bs, p) ==
    LET end == NumberEnd(bs, p, "init")
    IN IF end = 0 THEN ParseError ELSE NumberToken(SubSeq(bs, p, end - 1), end)

-----------------------------------------------------------------------------
True == Chars(<<"t", "r", "u", "e">>)
False == Chars(<<"f", "a", "l", "s", "e">>)
NullText == Chars(<<"n", "u", "l", "l">>)

scan_literal(bs, p, literal, token) ==
    IF \A i \in 1 .. Len(literal) : Byte(bs, p + i - 1) = literal[i]
    THEN Token(token, Null, p + Len(literal)) ELSE ParseError

\* skip_bom: the position after a byte order mark, or 0 when it is malformed.
skip_bom(bs) ==
    IF Byte(bs, 1) # 239 THEN 1
    ELSE IF Byte(bs, 2) = 187 /\ Byte(bs, 3) = 191 THEN 4 ELSE 0

Whitespace == {32, 9, 10, 13}
Structural == [begin_array |-> "[", end_array |-> "]", begin_object |-> "{",
               end_object |-> "}", name_separator |-> ":", value_separator |-> ","]

\* scan, after skip_bom.  A zero byte ends the input as its end does.
RECURSIVE scan(_, _)
scan(bs, p) ==
    LET c == Byte(bs, p)
    IN  IF c \in Whitespace THEN scan(bs, p + 1)
        ELSE IF \E t \in DOMAIN Structural : c = Ascii[Structural[t]]
             THEN Token(CHOOSE t \in DOMAIN Structural : c = Ascii[Structural[t]], Null, p + 1)
        ELSE IF c = Ascii["t"] THEN scan_literal(bs, p, True, "literal_true")
        ELSE IF c = Ascii["f"] THEN scan_literal(bs, p, False, "literal_false")
        ELSE IF c = Ascii["n"] THEN scan_literal(bs, p, NullText, "literal_null")
        ELSE IF c = Quote THEN scan_string(bs, p + 1, Reader)
        ELSE IF c \in Digit \cup {Ascii["-"]} THEN scan_number(bs, p)
        ELSE IF c \in {0, EOF} THEN Token("end_of_input", Null, p)
        ELSE ParseError

\* All the tokens of a text, from t on, up to the end of the input or the first
\* error.
RECURSIVE TokensFrom(_, _)
TokensFrom(bs, t) ==
    IF t.token \in {"end_of_input", "parse_error"} THEN <<t>>
    ELSE <<t>> \o TokensFrom(bs, scan(bs, t.p))
Tokens(bs) ==
    TokensFrom(bs, IF skip_bom(bs) = 0 THEN ParseError ELSE scan(bs, skip_bom(bs)))
=============================================================================
