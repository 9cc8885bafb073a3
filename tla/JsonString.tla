----------------------------- MODULE JsonString -----------------------------
(***************************************************************************)
(* One string on its way from a request to an answer and to the reader of  *)
(* the answer, byte by byte:                                               *)
(*   lexer   scan_string on the request: `wanted`, the ranges of the bytes *)
(*           it has to see before the character is whole, and `buffer`,    *)
(*           token_buffer, the string;                                     *)
(*   dump    dump_escaped on that string: `state` and `codep`, the         *)
(*           variables of decode, and scan_string on what was written,     *)
(*           without ensure_ascii (`plain`) and with it (`ascii`).         *)
(***************************************************************************)
EXTENDS JsonUtf8

VARIABLE str

\* The reader of an answer, on what was written for one byte.
Reread(r, s) ==
    IF s = <<>> THEN r ELSE IF s[1] = Backslash THEN ReadEscape(r, s) ELSE ReadByte(r, s[1])

\* dump_escaped goes on by one byte, or by the bytes of a code point.
Dumped(w, b) ==
    LET d == decode(w.state, w.codep, b)
    IN  [state |-> d.state, codep |-> d.codep,
         plain |-> Reread(w.plain, Written(d, b, FALSE)),
         ascii |-> Reread(w.ascii, Written(d, b, TRUE))]
DumpedAll(w, bs) ==
    LET w1 == Dumped(w, bs[1])
        w2 == Dumped(w1, bs[2])
        w3 == Dumped(w2, bs[3])
    IN  CASE Len(bs) = 0 -> w [] Len(bs) = 1 -> w1 [] Len(bs) = 2 -> w2
          [] Len(bs) = 3 -> w3 [] OTHER -> Dumped(w3, bs[4])

EmptyString ==
    [lexer |-> Reader,
     dump |-> [state |-> Accept, codep |-> 0, plain |-> Reader, ascii |-> Reader]]

\* The next byte of the string as it stands in the text, where a control
\* character, a quote or a backslash may not begin a character, or an escape.
\* scan_string returns at the first error.
TakeByte(b) ==
    /\ str.lexer.wanted # Wrong
    /\ str.lexer.wanted = <<>> => b \in Unescaped \cup 128 .. 255
    /\ str' = [lexer |-> ReadByte(str.lexer, b), dump |-> Dumped(str.dump, b)]
TakeEscape(s) ==
    /\ str.lexer.wanted = <<>>
    /\ EscapeBytes(s) # <<>>
    /\ str' = [lexer |-> ReadEscape(str.lexer, s),
               dump |-> DumpedAll(str.dump, EscapeBytes(s))]

StrInit == str = EmptyString
StrNext == (\E b \in 0 .. 255 : TakeByte(b)) \/ (\E s \in Seq(0 .. 255) : TakeEscape(s))
StrSpec == StrInit /\ [][StrNext]_str

-----------------------------------------------------------------------------
\* The two validators of UTF-8, the byte ranges of lexer::scan_string and the
\* table of serializer::decode, reject a string at the same byte, and find it
\* whole at the same bytes: what a request may contain an answer can quote, and
\* dump throws 316 for the others only.
ValidatorsAgree ==
    /\ str.dump.state = Accept <=> str.lexer.wanted = <<>>
    /\ str.dump.state = Reject <=> str.lexer.wanted = Wrong

\* Whenever a string is whole, what dump_escaped writes for it, with or without
\* ensure_ascii, reads back as the same string.
AnswersReadBack ==
    str.dump.state = Accept => str.dump.plain = str.lexer /\ str.dump.ascii = str.lexer
=============================================================================
