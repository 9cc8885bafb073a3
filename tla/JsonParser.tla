------------------------------ MODULE JsonParser ------------------------------
(***************************************************************************)
(* parser::sax_parse_internal and json_sax_dom_parser (json.hpp): the      *)
(* parser without recursion and the handler that builds the value in place.*)
(* A state of the parser is a record:                                      *)
(*   expect   where in the loop of sax_parse_internal the next token is    *)
(*            read;                                                        *)
(*   states   the stack of open containers (true: array, false: object);   *)
(*   root     the value built so far: the node at each path, a scalar, an  *)
(*            object, whose members are the nodes one key further, or an   *)
(*            array and its size, whose elements are one index further;    *)
(*   refs     ref_stack, the open containers as paths into root;           *)
(*   element  object_element, the path of the member that key() prepared.  *)
(* A token has a kind and, for strings and numbers, a value.  The parser   *)
(* with a callback is left out: the service passes none.                   *)
(***************************************************************************)
EXTENDS JsonTypes

VARIABLE parser   \* the state of the parser

ArrayNode(n) == <<"array", n>>
ObjectNode == <<"object">>

\* A value is assigned to the place p: what was below the old one is destroyed.
Below(q, p) == Len(q) > Len(p) /\ SubSeq(q, 1, Len(p)) = p
Assign(root, p, node) ==
    [q \in {p} \cup {r \in DOMAIN root : ~ Below(r, p)} |-> IF q = p THEN node ELSE root[q]]

-----------------------------------------------------------------------------
\* json_sax_dom_parser.  handle_value: a new root, a new last element of the array
\* on top of ref_stack, or the member that key() has prepared.
InArray(st) == st.refs # <<>> /\ type(st.root[Top(st.refs)]) = "array"
Size(st) == st.root[Top(st.refs)][2]

PlaceOf(st) ==
    IF st.refs = <<>> THEN <<>>
    ELSE IF InArray(st) THEN Append(Top(st.refs), Size(st) + 1)
    ELSE st.element

Grown(st) ==
    IF InArray(st) THEN [st.root EXCEPT ![Top(st.refs)] = ArrayNode(Size(st) + 1)]
    ELSE st.root

handle_value(st, v) == [st EXCEPT !.root = Assign(Grown(st), PlaceOf(st), v)]

start(st, container) ==
    [handle_value(st, container) EXCEPT !.refs = Append(@, PlaceOf(st))]

key(st, k) ==
    LET path == Append(Top(st.refs), k)
    IN  [st EXCEPT !.element = path,
                   !.root = IF path \in DOMAIN @ THEN @ ELSE Assign(@, path, Null)]

\* Mutant: ref_stack is not popped.
EndKeepsRef(st) == st
end(st) == [st EXCEPT !.refs = Pop(@)]

-----------------------------------------------------------------------------
\* sax_parse_internal.  Where the parser goes after a value: the state
\* evaluation at the end of the loop.
AfterValue(st) == [st EXCEPT !.expect = IF st.states = <<>> THEN "end" ELSE "separator"]
Expect(st, e) == [st EXCEPT !.expect = e]
Error(st) == [st EXCEPT !.expect = "error"]

Initial == [expect |-> "value", states |-> <<>>, root |-> [p \in {<<>>} |-> Null],
            refs |-> <<>>, element |-> <<>>]

IsArray == TRUE

\* The scalar values; a number that is not finite is an error.
Scalar(st, t) ==
    CASE t.token = "literal_null" -> AfterValue(handle_value(st, Null))
      [] t.token = "literal_true" -> AfterValue(handle_value(st, Bool(TRUE)))
      [] t.token = "literal_false" -> AfterValue(handle_value(st, Bool(FALSE)))
      [] t.token = "value_string" -> AfterValue(handle_value(st, Str(t.v)))
      [] t.token = "value_integer" -> AfterValue(handle_value(st, Integer(t.v)))
      [] t.token = "value_unsigned" -> AfterValue(handle_value(st, Unsigned(t.v)))
      [] t.token = "value_float" ->
            IF t.v[2] = Infinite THEN Error(st) ELSE AfterValue(handle_value(st, Float(t.v)))
      [] OTHER -> Error(st)

\* The switch on the token that starts a value.
ParseValue(st, t) ==
    CASE t.token = "begin_object" -> Expect(start(st, ObjectNode), "first_key")
      [] t.token = "begin_array" -> Expect(start(st, ArrayNode(0)), "first_element")
      [] OTHER -> Scalar(st, t)

\* After { : the object ends or its first key comes; after [ likewise.
FirstKey(st, t) ==
    CASE t.token = "end_object" -> AfterValue(end(st))
      [] t.token = "value_string" -> Expect(key(st, t.v), "first_colon")
      [] OTHER -> Error(st)

FirstElement(st, t) ==
    IF t.token = "end_array" THEN AfterValue(end(st))
    ELSE ParseValue([st EXCEPT !.states = Append(@, IsArray)], t)

\* The first key of an object is followed by the push of its state.
Colon(st, t) ==
    IF t.token # "name_separator" THEN Error(st)
    ELSE Expect(IF st.expect = "first_colon" THEN [st EXCEPT !.states = Append(@, ~ IsArray)]
                ELSE st, "value")

\* Mutants: a container may be closed by the bracket of the other kind; a comma
\* in an object is followed by a value.
SeparatorOfAnyKind(st, t) ==
    LET inArray == Top(st.states) = IsArray
    IN  CASE t.token = "value_separator" -> Expect(st, IF inArray THEN "value" ELSE "key")
          [] t.token \in {"end_array", "end_object"} ->
                AfterValue([end(st) EXCEPT !.states = Pop(@)])
          [] OTHER -> Error(st)
SeparatorWithoutKey(st, t) ==
    CASE t.token = "value_separator" -> Expect(st, "value")
      [] t.token = (IF Top(st.states) = IsArray THEN "end_array" ELSE "end_object") ->
            AfterValue([end(st) EXCEPT !.states = Pop(@)])
      [] OTHER -> Error(st)

\* The state evaluation: a comma or the end of the innermost container.
Separator(st, t) ==
    LET inArray == Top(st.states) = IsArray
    IN  CASE t.token = "value_separator" -> Expect(st, IF inArray THEN "value" ELSE "key")
          [] t.token = (IF inArray THEN "end_array" ELSE "end_object") ->
                AfterValue([end(st) EXCEPT !.states = Pop(@)])
          [] OTHER -> Error(st)

Key(st, t) == IF t.token = "value_string" THEN Expect(key(st, t.v), "colon") ELSE Error(st)

\* parser::parse with strict: after the value, the end of the input.
End(st, t) == IF t.token = "end_of_input" THEN Expect(st, "accepted") ELSE Error(st)

Step(st, t) ==
    CASE st.expect = "value" -> ParseValue(st, t)
      [] st.expect = "first_key" -> FirstKey(st, t)
      [] st.expect = "first_element" -> FirstElement(st, t)
      [] st.expect \in {"colon", "first_colon"} -> Colon(st, t)
      [] st.expect = "separator" -> Separator(st, t)
      [] st.expect = "key" -> Key(st, t)
      [] st.expect = "end" -> End(st, t)
      [] OTHER -> st

\* One call of parse, whatever the tokens: a string is a sequence of bytes.
IsToken(t) == t.token = "value_string" => t.v \in Seq(0 .. 255)
Take(t) == parser' = Step(parser, t)

ParserInit == parser = Initial
ParserNext == \E t : IsToken(t) /\ Take(t)
ParserSpec == ParserInit /\ [][ParserNext]_parser

-----------------------------------------------------------------------------
\* ref_stack is one path from the root to the container that is open, and `states`
\* is up to date but for the container just opened.
JustOpened(st) == IF st.expect \in {"first_key", "first_colon", "first_element"} THEN 1 ELSE 0
Nested(st) ==
    /\ Len(st.refs) = Len(st.states) + JustOpened(st)
    /\ \A i \in 1 .. Len(st.refs) :
           LET outer == st.root[st.refs[i - 1]]
           IN  /\ st.refs[i] \in DOMAIN st.root /\ is_structured(st.root[st.refs[i]])
               /\ IF i = 1 THEN st.refs[i] = <<>>
                  ELSE /\ st.refs[i] = Append(st.refs[i - 1], Top(st.refs[i]))
                       /\ type(outer) = "array" => Top(st.refs[i]) = outer[2]
    /\ \A i \in 1 .. Len(st.states) :
           st.states[i] = (type(st.root[st.refs[i]]) = "array")

\* The member that a value is to be assigned to is one of the object on top.
Prepared(st) ==
    st.refs # <<>> /\ ~ InArray(st) /\ st.expect \in {"value", "colon", "first_colon"}
    => st.element \in DOMAIN st.root /\ Pop(st.element) = Top(st.refs)

\* While containers are open, every entry of ref_stack is the place that its
\* predecessor was last given, so nothing is added to a vector that holds a
\* place further up the stack (json_sax_dom_parser keeps plain pointers);
\* `states` has the kinds of the containers that ref_stack points to; and
\* object_element is a member of the innermost one when it is assigned to.
OpenContainersNest == parser.expect # "error" => Nested(parser) /\ Prepared(parser)

\* A token changes only the innermost open container: the ones around it keep
\* their kind and size, so the vectors and maps that the entries of ref_stack
\* point into are left alone until these are on top again.
OuterContainersKept ==
    [][\A i \in 1 .. Len(parser.refs) - 1 :
           /\ parser.refs[i] \in DOMAIN parser'.root
           /\ parser'.root[parser.refs[i]] = parser.root[parser.refs[i]]]_parser

\* The nodes make up one value: each is an element of an array, within its size,
\* or a member of an object, and an array has all its elements.
Attached(root, p) ==
    /\ Pop(p) \in DOMAIN root
    /\ \/ type(root[Pop(p)]) = "array" /\ Top(p) \in 1 .. root[Pop(p)][2]
       \/ type(root[Pop(p)]) = "object" /\ Top(p) \in Seq(0 .. 255)
Tree(root) ==
    /\ <<>> \in DOMAIN root
    /\ \A p \in DOMAIN root : p # <<>> => Attached(root, p)
    /\ \A p \in DOMAIN root :
           type(root[p]) = "array" => \A i \in 1 .. root[p][2] : Append(p, i) \in DOMAIN root

\* At every moment of a parse, also when it ends in an error, the value built so
\* far is a value: a repeated key, whose member is assigned to again, leaves
\* nothing of what it replaces.
RootIsTree == Tree(parser.root)
\* A token that brings the text closer to its end, and how many are missing then.
Ending(st) ==
    [token |-> CASE st.expect = "value" -> "literal_null"
                 [] st.expect = "first_key" -> "end_object"
                 [] st.expect = "first_element" -> "end_array"
                 [] st.expect \in {"colon", "first_colon"} -> "name_separator"
                 [] st.expect = "separator" ->
                       IF Top(st.states) = IsArray THEN "end_array" ELSE "end_object"
                 [] st.expect = "key" -> "value_string"
                 [] OTHER -> "end_of_input",
     v |-> <<>>]
Missing(st) ==
    CASE st.expect = "accepted" -> 0
      [] st.expect \in {"end", "separator"} -> Len(st.states) + 1
      [] st.expect \in {"value", "first_key", "first_element"} -> Len(st.states) + 2
      [] st.expect = "colon" -> Len(st.states) + 3
      [] st.expect \in {"key", "first_colon"} -> Len(st.states) + 4
Shrinks(st, s) == s.expect # "error" /\ Missing(s) = Missing(st) - 1

\* As long as no error is reported the tokens are the beginning of a text that is
\* accepted: one token after the other brings its end closer.  So the position in
\* a parse_error is that of the first token that no text goes on with.
SomeEndIsAccepted ==
    parser.expect \notin {"error", "accepted"} => Shrinks(parser, Step(parser, Ending(parser)))
=============================================================================
