------------------------------ MODULE JsonCodec ------------------------------
(***************************************************************************)
(* The binary formats of json.hpp: binary_writer and binary_reader for     *)
(* CBOR, MessagePack and UBJSON.  A writer returns the bytes it hands to   *)
(* the output adapter; a reader takes the input and the position of the    *)
(* byte in `current`, and returns the value the SAX handler has built and  *)
(* the position after it, or Failed.  number_float_t is a double, kept as  *)
(* the eight bytes of its representation.                                  *)
(***************************************************************************)
EXTENDS JsonValue, JsonHeads

Size(n) == Word(n)

-----------------------------------------------------------------------------
\* CBOR, binary_writer::write_cbor.
RECURSIVE write_cbor(_)
write_cbor(v) ==
    LET keys == KeysOf(v)
    IN  CASE type(v) = "null" -> <<246>>
          [] type(v) = "boolean" -> <<IF v[2] THEN 245 ELSE 244>>
          [] type(v) = "integer" -> CborInteger(v[2])
          [] type(v) = "unsigned" -> CborHead(0, v[2])
          [] type(v) = "float" -> <<251>> \o v[2]
          [] type(v) = "string" -> CborHead(96, Size(Len(v[2]))) \o v[2]
          [] type(v) = "array" ->
                CborHead(128, Size(Len(v[2])))
                    \o Concat([i \in 1 .. Len(v[2]) |-> write_cbor(v[2][i])])
          [] type(v) = "object" ->
                CborHead(160, Size(Len(keys)))
                    \o Concat([i \in 1 .. Len(keys) |->
                            write_cbor(Str(keys[i])) \o write_cbor(v[2][keys[i]])])
          [] OTHER -> <<>>

-----------------------------------------------------------------------------
\* MessagePack, binary_writer::write_msgpack.
RECURSIVE write_msgpack(_)
write_msgpack(v) ==
    LET keys == KeysOf(v)
    IN  CASE type(v) = "null" -> <<192>>
          [] type(v) = "boolean" -> <<IF v[2] THEN 195 ELSE 194>>
          [] type(v) = "integer" -> MsgpackInteger(v[2])
          [] type(v) = "unsigned" -> MsgpackUnsigned(v[2])
          [] type(v) = "float" -> <<203>> \o v[2]
          [] type(v) = "string" -> MsgpackStringHead(Len(v[2])) \o v[2]
          [] type(v) = "array" ->
                MsgpackHead(144, 220, Len(v[2]))
                    \o Concat([i \in 1 .. Len(v[2]) |-> write_msgpack(v[2][i])])
          [] type(v) = "object" ->
                MsgpackHead(128, 222, Len(keys))
                    \o Concat([i \in 1 .. Len(keys) |->
                         write_msgpack(Str(keys[i])) \o write_msgpack(v[2][keys[i]])])
          [] OTHER -> <<>>

-----------------------------------------------------------------------------
\* UBJSON, binary_writer::write_ubjson.
Prefixed(add_prefix, prefix) == IF add_prefix THEN <<Ascii[prefix]>> ELSE <<>>

ubjson_prefix(v) ==
    CASE type(v) = "null" -> "Z"
      [] type(v) = "boolean" -> IF v[2] THEN "T" ELSE "F"
      [] type(v) = "integer" -> IntegerPrefix(v[2])
      [] type(v) = "unsigned" -> UnsignedPrefix(v[2])
      [] type(v) = "float" -> "D"
      [] type(v) = "string" -> "S"
      [] type(v) = "array" -> "["
      [] type(v) = "object" -> "{"
      [] OTHER -> "N"

\* One prefix for all the elements of a container.
SamePrefix(vs) == \A v, u \in vs : ubjson_prefix(v) = ubjson_prefix(u)

\* What precedes the elements: $ and the type when they share one, # and the
\* count; and what follows them.
UbjsonOpen(vs, n, typed, use_count) ==
       (IF typed THEN Chars(<<"$", ubjson_prefix(CHOOSE v \in vs : TRUE)>>) ELSE <<>>)
    \o (IF use_count THEN Chars(<<"#">>) \o UbjsonUnsigned(Size(n), TRUE) ELSE <<>>)

RECURSIVE write_ubjson(_, _, _, _)
write_ubjson(v, use_count, use_type, add_prefix) ==
    LET keys == KeysOf(v)
        elements == IF type(v) = "array" THEN {v[2][i] : i \in 1 .. Len(v[2])}
                    ELSE {v[2][k] : k \in DOMAIN v[2]}
        typed == use_type /\ elements # {} /\ SamePrefix(elements)
        prefix == Prefixed(add_prefix, ubjson_prefix(v))
        Element(e) == write_ubjson(e, use_count, use_type, ~ typed)
        StringOf(s) == UbjsonUnsigned(Size(Len(s)), TRUE) \o s
        Close(c) == IF use_count THEN <<>> ELSE Chars(<<c>>)
    IN  CASE type(v) \in {"null", "boolean"} -> prefix
          [] type(v) = "integer" -> UbjsonInteger(v[2], add_prefix)
          [] type(v) = "unsigned" -> UbjsonUnsigned(v[2], add_prefix)
          [] type(v) = "float" -> prefix \o v[2]
          [] type(v) = "string" -> prefix \o StringOf(v[2])
          [] type(v) = "array" ->
                prefix \o UbjsonOpen(elements, Len(v[2]), typed, use_count)
                    \o Concat([i \in 1 .. Len(v[2]) |-> Element(v[2][i])])
                    \o Close("]")
          [] type(v) = "object" ->
                prefix \o UbjsonOpen(elements, Len(keys), typed, use_count)
                    \o Concat([i \in 1 .. Len(keys) |->
                                  StringOf(keys[i]) \o Element(v[2][keys[i]])])
                    \o Close("}")
          [] OTHER -> <<>>

-----------------------------------------------------------------------------
\* get_string.  A length beyond the input ends in unexpect_eof.
get_string(bs, p, w) ==
    IF ~ IsSmall(w) \/ p + Number(w) - 1 > Len(bs) THEN Failed
    ELSE Read(SubSeq(bs, p, p + Number(w) - 1), p + Number(w))

-----------------------------------------------------------------------------
no_limit == Fill(255, 8)

RECURSIVE get_cbor_string(_, _)
RECURSIVE CborChunks(_, _, _)
get_cbor_string(bs, p) ==
    LET b == Byte(bs, p)
        len == CborArgument(bs, p + 1, b % 32)
    IN  IF b \notin 96 .. 127 THEN Failed
        ELSE IF b = 127 THEN CborChunks(bs, p + 1, <<>>)
        ELSE IF len.ok THEN get_string(bs, len.p, len.v) ELSE Failed

CborChunks(bs, p, result) ==
    LET chunk == get_cbor_string(bs, p)
    IN  IF Byte(bs, p) = 255 THEN Read(result, p + 1)
        ELSE IF chunk.ok THEN CborChunks(bs, chunk.p, result \o chunk.v) ELSE Failed

\* parse_cbor_internal on the rest of the values without elements.
CborSimple(bs, p) ==
    CASE bs[p] = 244 -> Read(Bool(FALSE), p + 1)
      [] bs[p] = 245 -> Read(Bool(TRUE), p + 1)
      [] bs[p] = 246 -> Read(Null, p + 1)
      [] bs[p] = 249 -> NumberThen(bs, p + 1, 2, HalfOf)
      [] bs[p] = 250 -> NumberThen(bs, p + 1, 4, SingleOf)
      [] bs[p] = 251 -> NumberThen(bs, p + 1, 8, FloatOf)
      [] OTHER -> Failed

RECURSIVE parse_cbor(_, _)
RECURSIVE get_cbor_array(_, _, _, _)
RECURSIVE get_cbor_object(_, _, _, _, _)

\* The heads of strings, arrays and maps.
CborContainer(bs, p) ==
    LET b == bs[p]
        len == IF b % 32 = 31 THEN Read(no_limit, p + 1)
               ELSE CborArgument(bs, p + 1, b % 32)
        s == get_cbor_string(bs, p)
    IN  IF b < 128 THEN IF s.ok THEN Read(Str(s.v), s.p) ELSE Failed
        ELSE IF ~ len.ok THEN Failed
        ELSE IF b < 160 THEN get_cbor_array(bs, len.p, len.v, <<>>)
        ELSE get_cbor_object(bs, len.p, len.v, 0, EmptyObject[2])

parse_cbor(bs, p) ==
    LET b == Byte(bs, p)
    IN  IF b \in 0 .. 63 THEN CborNumber(bs, p)
        ELSE IF b \in 96 .. 191 THEN CborContainer(bs, p)
        ELSE IF b \in 224 .. 255 THEN CborSimple(bs, p)
        ELSE Failed

\* The loops read len elements, or up to 0xFF.  An input is too short for a
\* length that is not small, and start_array throws 408 for the largest.
LoopEnds(bs, p, len, done) ==
    IF len = no_limit THEN Byte(bs, p) = 255 ELSE IsSmall(len) /\ done = Number(len)
AfterLoop(len, p) == IF len = no_limit THEN p + 1 ELSE p

get_cbor_array(bs, p, len, done) ==
    LET e == parse_cbor(bs, p)
    IN  IF LoopEnds(bs, p, len, Len(done)) THEN Read(Array(done), AfterLoop(len, p))
        ELSE IF e.ok THEN get_cbor_array(bs, e.p, len, Append(done, e.v))
        ELSE Failed

get_cbor_object(bs, p, len, i, done) ==
    LET k == get_cbor_string(bs, p)
        e == parse_cbor(bs, k.p)
    IN  IF LoopEnds(bs, p, len, i) THEN Read(Object(done), AfterLoop(len, p))
        ELSE IF k.ok /\ e.ok
             THEN get_cbor_object(bs, e.p, len, i + 1, Put(done, k.v, e.v))
        ELSE Failed

-----------------------------------------------------------------------------
\* MessagePack.
get_msgpack_string(bs, p) ==
    LET b == Byte(bs, p)
        len == IF b \in 217 .. 219 THEN NumberThen(bs, p + 1, Width(b - 217), ZeroExtend)
               ELSE Read(Word(b % 32), p + 1)
    IN  IF b \in 160 .. 191 \cup 217 .. 219 /\ len.ok
        THEN get_string(bs, len.p, len.v) ELSE Failed

RECURSIVE parse_msgpack(_, _)
RECURSIVE get_msgpack_array(_, _, _, _)
RECURSIVE get_msgpack_object(_, _, _, _, _)

\* Its containers: fixmap, fixarray, and those with a length of two or four
\* bytes.
MsgpackContainer(bs, p) ==
    LET b == bs[p]
        len == IF b < 160 THEN Read(Word(b % 16), p + 1)
               ELSE NumberThen(bs, p + 1, IF b % 2 = 0 THEN 2 ELSE 4, ZeroExtend)
    IN  IF ~ len.ok THEN Failed
        ELSE IF b \in 144 .. 159 \cup {220, 221}
             THEN get_msgpack_array(bs, len.p, len.v, <<>>)
             ELSE get_msgpack_object(bs, len.p, len.v, 0, EmptyObject[2])

parse_msgpack(bs, p) ==
    LET b == Byte(bs, p)
        s == get_msgpack_string(bs, p)
    IN  CASE b \in 0 .. 127 \cup 202 .. 211 \cup 224 .. 255 -> MsgpackNumber(bs, p)
          [] b \in 128 .. 159 \cup 220 .. 223 -> MsgpackContainer(bs, p)
          [] b \in 160 .. 191 \cup 217 .. 219 ->
                IF s.ok THEN Read(Str(s.v), s.p) ELSE Failed
          [] b = 192 -> Read(Null, p + 1)
          [] b \in {194, 195} -> Read(Bool(b = 195), p + 1)
          [] OTHER -> Failed

Counted(len, i) == IsSmall(len) /\ i = Number(len)

get_msgpack_array(bs, p, len, done) ==
    LET e == parse_msgpack(bs, p)
    IN  IF Counted(len, Len(done)) THEN Read(Array(done), p)
        ELSE IF e.ok THEN get_msgpack_array(bs, e.p, len, Append(done, e.v))
        ELSE Failed

get_msgpack_object(bs, p, len, i, done) ==
    LET k == get_msgpack_string(bs, p)
        e == parse_msgpack(bs, k.p)
    IN  IF Counted(len, i) THEN Read(Object(done), p)
        ELSE IF k.ok /\ e.ok
             THEN get_msgpack_object(bs, e.p, len, i + 1, Put(done, k.v, e.v))
        ELSE Failed

-----------------------------------------------------------------------------
\* UBJSON.  get_ignore_noop: the position of the next byte that is not N.
RECURSIVE get_ignore_noop(_, _)
get_ignore_noop(bs, p) ==
    IF Byte(bs, p) = Ascii["N"] THEN get_ignore_noop(bs, p + 1) ELSE p

\* std::generate_n makes no character of a negative length.
get_ubjson_string(bs, p) ==
    LET len == UbjsonWord(bs, p + 1, Byte(bs, p))
    IN  IF ~ len.ok THEN Failed
        ELSE IF IsNegative(len.v) THEN Read(<<>>, len.p)
        ELSE get_string(bs, len.p, len.v)

get_ubjson_size_value(bs, p) ==
    LET q == get_ignore_noop(bs, p) IN UbjsonWord(bs, q + 1, Byte(bs, q))

\* get_ubjson_size_type: the size (npos when there is none), the type (0 when
\* there is none) and a position: after the size, or, when the size is npos,
\* of the byte left in `current`.
npos == Fill(255, 8)
SizeAndType(size, t, p) == [ok |-> TRUE, size |-> size, type |-> t, p |-> p]
NoSizeAndType == [ok |-> FALSE, size |-> npos, type |-> 0, p |-> 0]

get_ubjson_size_type(bs, p) ==
    LET q == get_ignore_noop(bs, p)
        r == get_ignore_noop(bs, q + 2)
        typed == Byte(bs, q) = Ascii["$"]
        size == get_ubjson_size_value(bs, IF typed THEN r + 1 ELSE q + 1)
    IN  IF typed /\ (Byte(bs, q + 1) = EOF \/ Byte(bs, r) # Ascii["#"]) THEN NoSizeAndType
        ELSE IF typed \/ Byte(bs, q) = Ascii["#"]
             THEN IF size.ok
                  THEN SizeAndType(size.v, IF typed THEN bs[q + 1] ELSE 0,
                                   IF size.v = npos THEN size.p - 1 ELSE size.p)
                  ELSE NoSizeAndType
        ELSE SizeAndType(npos, 0, q)

RECURSIVE get_ubjson_value(_, _, _)
RECURSIVE UbjsonElements(_, _, _, _)
RECURSIVE UbjsonMembers(_, _, _, _, _)

\* get_ubjson_array.  A type N has no elements to read; elements of another
\* type have no prefix.  Sizes of 2^24 and more are out of the model (start_array
\* throws 408 for those that come from a negative number).
UbjsonArray(bs, st) ==
    IF ~ st.ok \/ (st.size # npos /\ ~ IsSmall(st.size)) THEN Failed
    ELSE IF st.size # npos /\ st.type = Ascii["N"] THEN Read(Array(<<>>), st.p)
    ELSE UbjsonElements(bs, st.p, st, <<>>)
get_ubjson_array(bs, p) == UbjsonArray(bs, get_ubjson_size_type(bs, p))

\* An element, whose prefix, if it has one, is the byte at `first`; and where the
\* loop goes on after it.
UbjsonElement(bs, p, first, st) ==
    LET typed == st.size # npos /\ st.type # 0
    IN get_ubjson_value(bs, IF typed THEN p ELSE first + 1,
                        IF typed THEN st.type ELSE Byte(bs, first))
AfterElement(bs, p, st) == IF st.size = npos THEN get_ignore_noop(bs, p) ELSE p

UbjsonAppend(bs, st, done, e) ==
    IF ~ e.ok THEN Failed
    ELSE UbjsonElements(bs, AfterElement(bs, e.p, st), st, Append(done, e.v))
UbjsonElements(bs, p, st, done) ==
    IF st.size = npos /\ Byte(bs, p) = Ascii["]"] THEN Read(Array(done), p + 1)
    ELSE IF st.size # npos /\ Len(done) = Number(st.size) THEN Read(Array(done), p)
    ELSE UbjsonAppend(bs, st, done,
            UbjsonElement(bs, p, IF st.size = npos THEN p ELSE get_ignore_noop(bs, p), st))

UbjsonObject(bs, st) ==
    IF ~ st.ok \/ (st.size # npos /\ ~ IsSmall(st.size)) THEN Failed
    ELSE UbjsonMembers(bs, st.p, st, 0, EmptyObject[2])
get_ubjson_object(bs, p) == UbjsonObject(bs, get_ubjson_size_type(bs, p))

UbjsonPut(bs, st, i, done, k, e) ==
    IF ~ e.ok THEN Failed
    ELSE UbjsonMembers(bs, AfterElement(bs, e.p, st), st, i + 1, Put(done, k, e.v))
UbjsonMember(bs, st, i, done, k) ==
    IF ~ k.ok THEN Failed
    ELSE UbjsonPut(bs, st, i, done, k.v,
                   UbjsonElement(bs, k.p, get_ignore_noop(bs, k.p), st))
UbjsonMembers(bs, p, st, i, done) ==
    IF st.size = npos /\ Byte(bs, p) = Ascii["}"] THEN Read(Object(done), p + 1)
    ELSE IF st.size # npos /\ i = Number(st.size) THEN Read(Object(done), p)
    ELSE UbjsonMember(bs, st, i, done, get_ubjson_string(bs, p))

\* The value of a prefix, whose bytes start at p.
get_ubjson_value(bs, p, prefix) ==
    LET s == get_ubjson_string(bs, p)
        w == UbjsonWord(bs, p, prefix)
    IN  CASE prefix = Ascii["T"] -> Read(Bool(TRUE), p)
          [] prefix = Ascii["F"] -> Read(Bool(FALSE), p)
          [] prefix = Ascii["Z"] -> Read(Null, p)
          [] prefix \in UbjsonTypes ->
                IF ~ w.ok THEN Failed
                ELSE IF prefix = Ascii["U"] THEN Read(Unsigned(w.v), w.p)
                ELSE Read(Integer(w.v), w.p)
          [] prefix = Ascii["d"] -> NumberThen(bs, p, 4, SingleOf)
          [] prefix = Ascii["D"] -> NumberThen(bs, p, 8, FloatOf)
          [] prefix = Ascii["C"] ->
                IF Byte(bs, p) \in 0 .. 127 THEN Read(Str(<<bs[p]>>), p + 1) ELSE Failed
          [] prefix = Ascii["S"] -> IF s.ok THEN Read(Str(s.v), s.p) ELSE Failed
          [] prefix = Ascii["["] -> get_ubjson_array(bs, p)
          [] prefix = Ascii["{"] -> get_ubjson_object(bs, p)
          [] OTHER -> Failed

parse_ubjson(bs, p) ==
    LET q == get_ignore_noop(bs, p) IN get_ubjson_value(bs, q + 1, Byte(bs, q))

-----------------------------------------------------------------------------
\* binary_reader::sax_parse, with strict as from_cbor, from_msgpack and
\* from_ubjson pass it: the whole input is one value.
AtEnd(format, bs, p) ==
    Byte(bs, IF format = "ubjson" THEN get_ignore_noop(bs, p) ELSE p) = EOF
Strictly(format, bs, strict, r) ==
    IF r.ok /\ strict /\ ~ AtEnd(format, bs, r.p) THEN Failed ELSE r
sax_parse(format, bs, strict) ==
    Strictly(format, bs, strict,
             CASE format = "cbor" -> parse_cbor(bs, 1)
               [] format = "msgpack" -> parse_msgpack(bs, 1)
               [] format = "ubjson" -> parse_ubjson(bs, 1))

\* to_cbor, to_msgpack, and to_ubjson with its two options (use_type requires
\* use_count).
Encodings == {"cbor", "msgpack", "ubjson", "ubjson_count", "ubjson_type"}
FormatOf(enc) == IF enc \in {"cbor", "msgpack"} THEN enc ELSE "ubjson"
Encode(enc, v) ==
    CASE enc = "cbor" -> write_cbor(v)
      [] enc = "msgpack" -> write_msgpack(v)
      [] enc = "ubjson" -> write_ubjson(v, FALSE, FALSE, TRUE)
      [] enc = "ubjson_count" -> write_ubjson(v, TRUE, FALSE, TRUE)
      [] enc = "ubjson_type" -> write_ubjson(v, TRUE, TRUE, TRUE)
=============================================================================
