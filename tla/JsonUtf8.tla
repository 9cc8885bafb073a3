------------------------------ MODULE JsonUtf8 ------------------------------
(***************************************************************************)
(* The strings of json.hpp, which are UTF-8: what lexer::scan_string makes *)
(* of bytes and escapes and what serializer::dump_escaped writes for each  *)
(* byte.  A character is its code.                                         *)
(***************************************************************************)
EXTENDS JsonTypes

Quote == 34
Backslash == 92
LetterU == 117

-----------------------------------------------------------------------------
\* scan_string.  The escapes of one character: \b, \f, \n, \r, \t and the
\* characters that stand for themselves.
EscapeOf(c) ==
    CASE c = 98 -> 8 [] c = 102 -> 12 [] c = 110 -> 10
      [] c = 114 -> 13 [] c = 116 -> 9 [] OTHER -> c
Escapable == {Quote, Backslash, 47, 98, 102, 110, 114, 116}

\* get_codepoint: four hexadecimal digits from p on, or -1.
Hex(c) == CASE c \in 48 .. 57 -> c - 48
            [] c \in 65 .. 70 -> c - 55
            [] c \in 97 .. 102 -> c - 87
            [] OTHER -> -1
Codepoint(h) ==
    IF \E i \in 0 .. 3 : h[i] = -1 THEN -1
    ELSE ((h[0] * 16 + h[1]) * 16 + h[2]) * 16 + h[3]
get_codepoint(bs, p) == Codepoint([i \in 0 .. 3 |-> Hex(Byte(bs, p + i))])

\* The bytes that a code point adds.
Utf8(c) ==
    IF c < 128 THEN <<c>>
    ELSE IF c <= 2047 THEN <<192 + c \div 64, 128 + (c % 64)>>
    ELSE IF c <= 65535 THEN <<224 + c \div 4096, 128 + ((c \div 64) % 64), 128 + (c % 64)>>
    ELSE <<240 + c \div 262144, 128 + ((c \div 4096) % 64), 128 + ((c \div 64) % 64),
           128 + (c % 64)>>

\* The escape \u whose digits start at p: the bytes it adds and how many it
\* takes, or none when it is malformed.  A high surrogate needs a low one.
EscapedBytes(first, second) ==
    IF 55296 <= first /\ first <= 56319
    THEN IF 56320 <= second /\ second <= 57343
         THEN <<Utf8(65536 + (first - 55296) * 1024 + (second - 56320)), 10>>
         ELSE <<>>
    ELSE IF first = -1 \/ (56320 <= first /\ first <= 57343) THEN <<>>
    ELSE <<Utf8(first), 4>>
CodepointEscape(bs, p) ==
    EscapedBytes(get_codepoint(bs, p),
                  IF Byte(bs, p + 4) = Backslash /\ Byte(bs, p + 5) = LetterU
                  THEN get_codepoint(bs, p + 6) ELSE -1)

\* The characters that stand for themselves: not the control characters, the
\* quote or the backslash.
Unescaped == 32 .. 127 \ {Quote, Backslash}

\* The ranges of the bytes after a leading byte.
Tail80 == 128 .. 191
\* Mutant: the surrogates are not excluded.
Utf8TailWithSurrogates(c) ==
    CASE c \in 194 .. 223 -> <<Tail80>>
      [] c = 224 -> <<160 .. 191, Tail80>>
      [] c \in 225 .. 239 -> <<Tail80, Tail80>>
      [] c = 240 -> <<144 .. 191, Tail80, Tail80>>
      [] c \in 241 .. 243 -> <<Tail80, Tail80, Tail80>>
      [] c = 244 -> <<128 .. 143, Tail80, Tail80>>
      [] OTHER -> <<>>
Utf8Tail(c) ==
    CASE c \in 194 .. 223 -> <<Tail80>>
      [] c = 224 -> <<160 .. 191, Tail80>>
      [] c \in 225 .. 236 \cup {238, 239} -> <<Tail80, Tail80>>
      [] c = 237 -> <<128 .. 159, Tail80>>
      [] c = 240 -> <<144 .. 191, Tail80, Tail80>>
      [] c \in 241 .. 243 -> <<Tail80, Tail80, Tail80>>
      [] c = 244 -> <<128 .. 143, Tail80, Tail80>>
      [] OTHER -> <<>>

\* A byte of a string that is no quote and no escape.  After an error no byte
\* will do.
Wrong == <<{}>>
next_byte_in_range(wanted, b) == IF b \in Head(wanted) THEN Tail(wanted) ELSE Wrong
ScanByte(wanted, b) ==
    IF wanted # <<>> THEN next_byte_in_range(wanted, b)
    ELSE IF b \in Unescaped THEN <<>>
    ELSE IF Utf8Tail(b) # <<>> THEN Utf8Tail(b)
    ELSE Wrong

\* A string being read, after one more byte, and after an escape s, which stands
\* where no character is begun.
Reader == [wanted |-> <<>>, buffer |-> <<>>]
ReadByte(r, b) == [wanted |-> ScanByte(r.wanted, b), buffer |-> Append(r.buffer, b)]

EscapeBytes(s) ==
    IF s[2] \in Escapable THEN <<EscapeOf(s[2])>>
    ELSE IF s[2] = LetterU /\ CodepointEscape(s, 3) # <<>> THEN CodepointEscape(s, 3)[1]
    ELSE <<>>
ReadEscape(r, s) ==
    IF r.wanted = <<>> /\ EscapeBytes(s) # <<>>
    THEN [wanted |-> <<>>, buffer |-> r.buffer \o EscapeBytes(s)]
    ELSE [wanted |-> Wrong, buffer |-> r.buffer]

-----------------------------------------------------------------------------
\* decode: the class of a byte and, by state and class, the next state, the two
\* halves of the table utf8d.
ByteClass(b) ==
    CASE b <= 127 -> 0 [] b \in 128 .. 143 -> 1 [] b \in 144 .. 159 -> 9
      [] b \in 160 .. 191 -> 7 [] b \in {192, 193} -> 8 [] b \in 194 .. 223 -> 2
      [] b = 224 -> 10 [] b = 237 -> 4 [] b \in 225 .. 239 \ {237} -> 3
      [] b = 240 -> 11 [] b \in 241 .. 243 -> 6 [] b = 244 -> 5 [] OTHER -> 8

Accept == 0
Reject == 1
Transition(state, class) ==
    CASE state = 0 -> <<0, 1, 2, 3, 5, 8, 7, 1, 1, 1, 4, 6>>[class + 1]
      [] state = 1 -> 1
      [] state = 2 -> IF class \in {1, 7, 9} THEN 0 ELSE 1
      [] state = 3 -> IF class \in {1, 7, 9} THEN 2 ELSE 1
      [] state = 4 -> IF class = 7 THEN 2 ELSE 1
      [] state = 5 -> IF class \in {1, 9} THEN 2 ELSE 1
      [] state = 6 -> IF class \in {7, 9} THEN 3 ELSE 1
      [] state = 7 -> IF class \in {1, 7, 9} THEN 3 ELSE 1
      [] state = 8 -> IF class = 1 THEN 3 ELSE 1

\* 0xff >> type, plus one.
Mask(class) == <<256, 128, 64, 32, 16, 8, 4, 2, 1, 1, 1, 1>>[class + 1]
decode(state, codep, byte) ==
    [state |-> Transition(state, ByteClass(byte)),
     codep |-> IF state = Accept THEN byte % Mask(ByteClass(byte))
               ELSE (byte % 64) + codep * 64]

-----------------------------------------------------------------------------
\* "\\u%04x" and the escapes of dump_escaped.
HexDigit(n) == IF n < 10 THEN 48 + n ELSE 87 + n
EscapeCode(c) ==
    <<Backslash, LetterU, HexDigit(c \div 4096), HexDigit((c \div 256) % 16),
      HexDigit((c \div 16) % 16), HexDigit(c % 16)>>

\* \b, \t, \n, \f, \r, \" and \\.
ShortEscape(c) ==
    CASE c = 8 -> 98 [] c = 9 -> 116 [] c = 10 -> 110 [] c = 12 -> 102
      [] c = 13 -> 114 [] c = Quote -> Quote [] c = Backslash -> Backslash

\* Mutant: a surrogate pair without the offset of the plane.
EscapedWrongPlane(c, byte, ensure_ascii) ==
    IF c \in {8, 9, 10, 12, 13, Quote, Backslash} THEN <<Backslash, ShortEscape(c)>>
    ELSE IF c <= 31 \/ (ensure_ascii /\ c >= 127)
         THEN IF c <= 65535 THEN EscapeCode(c)
              ELSE EscapeCode(55296 + c \div 1024) \o EscapeCode(56320 + (c % 1024))
    ELSE <<byte>>

\* What a whole code point adds, whose last byte is `byte`.
Escaped(c, byte, ensure_ascii) ==
    IF c \in {8, 9, 10, 12, 13, Quote, Backslash} THEN <<Backslash, ShortEscape(c)>>
    ELSE IF c <= 31 \/ (ensure_ascii /\ c >= 127)
         THEN IF c <= 65535 THEN EscapeCode(c)
              ELSE EscapeCode(55232 + c \div 1024) \o EscapeCode(56320 + (c % 1024))
    ELSE <<byte>>

\* What dump_escaped writes for a byte that leads decode to d, unless it throws.
Written(d, byte, ensure_ascii) ==
    IF d.state = Accept THEN Escaped(d.codep, byte, ensure_ascii)
    ELSE IF ensure_ascii THEN <<>> ELSE <<byte>>
=============================================================================
