------------------------------ MODULE JsonPointer ------------------------------
(***************************************************************************)
(* json_pointer, flatten, unflatten, patch, diff and merge_patch           *)
(* (json.hpp).  A pointer is its sequence of reference tokens; the text of *)
(* a pointer is a byte sequence.  The result of an operation is a record   *)
(* whose ok is FALSE when the operation throws; v is the value as the      *)
(* operation leaves it, and path the place in it that the operation        *)
(* returns a reference to.                                                 *)
(***************************************************************************)
EXTENDS JsonValue

Throw(v) == [ok |-> FALSE, v |-> v, path |-> <<>>]
Thrown == Throw(Null)
Place(v, path) == [ok |-> TRUE, v |-> v, path |-> path]

Slash == Ascii["/"]
Tilde == Ascii["~"]
Minus == <<Ascii["-"]>>
ZeroToken == <<Ascii["0"]>>

-----------------------------------------------------------------------------
\* replace_substring, escape and unescape.
RECURSIVE replace_substring(_, _, _)
replace_substring(s, f, t) ==
    IF Len(s) < Len(f) THEN s
    ELSE IF SubSeq(s, 1, Len(f)) = f
         THEN t \o replace_substring(SubSeq(s, Len(f) + 1, Len(s)), f, t)
    ELSE <<s[1]>> \o replace_substring(Tail(s), f, t)

escape(s) ==
    replace_substring(replace_substring(s, <<Tilde>>, <<Tilde, Ascii["0"]>>),
                      <<Slash>>, <<Tilde, Ascii["1"]>>)
unescape(s) ==
    replace_substring(replace_substring(s, <<Tilde, Ascii["1"]>>, <<Slash>>),
                      <<Tilde, Ascii["0"]>>, <<Tilde>>)

RECURSIVE to_string(_)
to_string(tokens) ==
    IF tokens = <<>> THEN <<>>
    ELSE <<Slash>> \o escape(Head(tokens)) \o to_string(Tail(tokens))

\* split: parse_error 107 without a leading slash, 108 for a tilde that is not
\* followed by 0 or 1.
BadEscape(s) == \E i \in 1 .. Len(s) :
    s[i] = Tilde /\ (i = Len(s) \/ s[i + 1] \notin {Ascii["0"], Ascii["1"]})

RECURSIVE Cut(_)
Cut(s) ==   \* the tokens of s, which starts with a slash
    LET ends == {i \in 2 .. Len(s) : s[i] = Slash}
        next == CHOOSE i \in ends : \A j \in ends : i <= j
    IN  IF ends = {} THEN <<Tail(s)>>
        ELSE <<SubSeq(s, 2, next - 1)>> \o Cut(SubSeq(s, next, Len(s)))
split(s) ==
    LET raw == Cut(s)
    IN  IF s = <<>> THEN [ok |-> TRUE, tokens |-> <<>>]
        ELSE IF s[1] # Slash \/ \E i \in 1 .. Len(raw) : BadEscape(raw[i])
             THEN [ok |-> FALSE, tokens |-> <<>>]
        ELSE [ok |-> TRUE, tokens |-> [i \in 1 .. Len(raw) |-> unescape(raw[i])]]

\* array_index: std::stoi takes white space, a sign and digits.  NoIndex stands
\* for its std::invalid_argument and for the 404 of characters after the digits;
\* a negative number becomes a Huge size_type, beyond every array.
Digits == Ascii["0"] .. Ascii["9"]
Huge == 2^30
NoIndex == -1
RECURSIVE Natural(_, _)
Natural(s, n) == IF s = <<>> THEN n ELSE Natural(Tail(s), n * 10 + Head(s) - Ascii["0"])

RECURSIVE array_index(_)
array_index(s) ==
    LET signed == s # <<>> /\ s[1] \in {Ascii["+"], Ascii["-"]}
        body == IF signed THEN Tail(s) ELSE s
        number == Natural(body, 0)
    IN  IF s # <<>> /\ s[1] \in {9, 10, 11, 12, 13, 32} THEN array_index(Tail(s))
        ELSE IF body = <<>> \/ \E i \in 1 .. Len(body) : body[i] \notin Digits THEN NoIndex
        ELSE IF s[1] = Ascii["-"] /\ number > 0 THEN Huge
        ELSE number

\* The digits of a position, std::to_string.
IndexToken(i) == IF i < 10 THEN <<Ascii["0"] + i>>
                 ELSE <<Ascii["0"] + i \div 10, Ascii["0"] + (i % 10)>>

-----------------------------------------------------------------------------
\* basic_json::operator[](idx) and operator[](key), not const: null becomes an
\* array or an object, an array is filled with null up to idx (from 0).
SubscriptIndex(v, idx) ==
    LET old == IF type(v) = "null" THEN <<>> ELSE v[2]
    IN  IF type(v) \notin {"null", "array"} \/ idx \in {NoIndex, Huge} THEN Thrown
        ELSE Place(Array([i \in 1 .. (IF idx < Len(old) THEN Len(old) ELSE idx + 1) |->
                             IF i <= Len(old) THEN old[i] ELSE Null]), <<idx + 1>>)

SubscriptKey(v, k) ==
    LET old == IF type(v) = "null" THEN EmptyObject[2] ELSE v[2]
    IN  IF type(v) \notin {"null", "object"} THEN Thrown
        ELSE Place(Object(old @@ (k :> Null)), <<k>>)

\* One step of get_and_create, of get_unchecked and of get_checked.
AllDigits(s) == \A i \in 1 .. Len(s) : s[i] \in Digits
LeadingZero(s) == Len(s) > 1 /\ s[1] = Ascii["0"]

CreateStep(v, token) ==
    LET a == array_index(token)
    IN  CASE type(v) = "null" ->
                IF token = ZeroToken THEN SubscriptIndex(v, 0) ELSE SubscriptKey(v, token)
          [] type(v) = "object" -> SubscriptKey(v, token)
          [] type(v) = "array" -> SubscriptIndex(v, a)
          [] OTHER -> Thrown

\* A null becomes a container before the token is looked at: it stays one when
\* the token is then refused.
UncheckedStep(v, token) ==
    LET a == array_index(token)
        w == IF type(v) # "null" THEN v
             ELSE IF AllDigits(token) \/ token = Minus THEN EmptyArray ELSE EmptyObject
    IN  CASE type(w) = "object" -> SubscriptKey(w, token)
          [] type(w) = "array" ->
                IF LeadingZero(token) THEN Throw(w)
                ELSE IF token = Minus THEN SubscriptIndex(w, Len(w[2]))
                ELSE IF a \in {NoIndex, Huge} THEN Throw(w)
                ELSE SubscriptIndex(w, a)
          [] OTHER -> Throw(w)

CheckedStep(v, token) ==
    LET a == array_index(token)
    IN  CASE type(v) = "object" ->
                IF token \in DOMAIN v[2] THEN Place(v, <<token>>) ELSE Thrown
          [] type(v) = "array" ->
                IF token # Minus /\ ~ LeadingZero(token) /\ a \in 0 .. Len(v[2]) - 1
                THEN Place(v, <<a + 1>>) ELSE Thrown
          [] OTHER -> Thrown

\* The loops over the reference tokens.  r is the place `result` points to, and
\* s what a step has made of the value there.
Moved(r, s) == [ok |-> s.ok, v |-> SetAt(r.v, r.path, s.v), path |-> r.path \o s.path]

RECURSIVE CreateAlong(_, _)
CreateAlong(r, tokens) ==
    IF tokens = <<>> \/ ~ r.ok THEN r
    ELSE CreateAlong(Moved(r, CreateStep(GetAt(r.v, r.path), Head(tokens))), Tail(tokens))
get_and_create(v, tokens) == CreateAlong(Place(v, <<>>), tokens)

RECURSIVE UncheckedAlong(_, _)
UncheckedAlong(r, tokens) ==
    IF tokens = <<>> \/ ~ r.ok THEN r
    ELSE UncheckedAlong(Moved(r, UncheckedStep(GetAt(r.v, r.path), Head(tokens))), Tail(tokens))
get_unchecked(v, tokens) == UncheckedAlong(Place(v, <<>>), tokens)

RECURSIVE CheckedAlong(_, _)
CheckedAlong(r, tokens) ==
    IF tokens = <<>> \/ ~ r.ok THEN r
    ELSE CheckedAlong(Moved(r, CheckedStep(GetAt(r.v, r.path), Head(tokens))), Tail(tokens))
get_checked(v, tokens) == CheckedAlong(Place(v, <<>>), tokens)

\* An assignment to the reference returned.
Assigned(place, v) ==
    IF place.ok THEN Place(SetAt(place.v, place.path, v), <<>>) ELSE Thrown

-----------------------------------------------------------------------------
\* flatten: a function of the texts of the pointers to the leaves.  An empty
\* container is a leaf, null.
RECURSIVE FlattenFrom(_, _)
FlattenFrom(prefix, v) ==
    LET Step(token) == prefix \o <<Slash>> \o token
        parts == CASE type(v) = "array" ->
                         {FlattenFrom(Step(IndexToken(i - 1)), v[2][i]) : i \in 1 .. Len(v[2])}
                   [] type(v) = "object" ->
                         {FlattenFrom(Step(escape(k)), v[2][k]) : k \in DOMAIN v[2]}
    IN  IF ~ is_structured(v) THEN prefix :> v
        ELSE IF parts = {} THEN prefix :> Null
        ELSE [p \in UNION {DOMAIN f : f \in parts} |->
                 (CHOOSE f \in parts : p \in DOMAIN f)[p]]
flatten(v) == Object(FlattenFrom(<<>>, v))

\* unflatten: the members are created in the order of their keys.
Entered(result, pointer, v) ==
    IF ~ pointer.ok \/ is_structured(v) THEN Thrown
    ELSE Assigned(get_and_create(result, pointer.tokens), v)
RECURSIVE UnflattenFrom(_, _, _)
UnflattenFrom(f, keys, result) ==
    IF keys = <<>> \/ ~ result.ok THEN result
    ELSE UnflattenFrom(f, Tail(keys), Entered(result.v, split(Head(keys)), f[Head(keys)]))
unflatten(v) ==
    IF type(v) # "object" THEN Thrown ELSE UnflattenFrom(v[2], KeysOf(v), Place(Null, <<>>))

-----------------------------------------------------------------------------
\* patch.  An operation of a patch is a record op, path, from, value of the
\* members of its JSON object; path and from are texts of pointers.
InsertedAt(s, i, v) == SubSeq(s, 1, i) \o <<v>> \o SubSeq(s, i + 1, Len(s))
ErasedAt(s, i) == SubSeq(s, 1, i) \o SubSeq(s, i + 2, Len(s))

\* operation_add in the parent p.  A parent that is a scalar is an assert(false).
AddedTo(p, last, idx, v) ==
    IF type(p) = "null" THEN Place(Object(last :> v), <<>>)
    ELSE IF type(p) = "object" THEN Place(Object(Put(p[2], last, v)), <<>>)
    ELSE IF type(p) # "array" THEN Thrown
    ELSE IF last = Minus THEN Place(Array(Append(p[2], v)), <<>>)
    ELSE IF idx = NoIndex \/ idx > Len(p[2]) THEN Thrown
    ELSE Place(Array(InsertedAt(p[2], idx, v)), <<>>)

\* operation_add: the parent is checked only up to the first token and created
\* below it.
AddBelow(parent, last, v) ==
    IF ~ parent.ok THEN Thrown
    ELSE Moved(parent, AddedTo(GetAt(parent.v, parent.path), last, array_index(last), v))
operation_add(doc, tokens, v) ==
    IF tokens = <<>> THEN Place(v, <<>>)
    ELSE IF Len(tokens) > 1 /\ ~ get_checked(doc, <<tokens[1]>>).ok THEN Thrown
    ELSE AddBelow(get_unchecked(doc, Pop(tokens)), Top(tokens), v)

\* operation_remove; it does nothing below a scalar.
RemovedFrom(p, last, idx) ==
    CASE type(p) = "object" ->
            IF last \in DOMAIN p[2] THEN Place(Object(Drop(p[2], last)), <<>>) ELSE Thrown
      [] type(p) = "array" ->
            IF idx \in 0 .. Len(p[2]) - 1 THEN Place(Array(ErasedAt(p[2], idx)), <<>>)
            ELSE Thrown
      [] OTHER -> Place(p, <<>>)
RemoveBelow(parent, last) ==
    IF ~ parent.ok THEN Thrown
    ELSE Moved(parent, RemovedFrom(GetAt(parent.v, parent.path), last, array_index(last)))
operation_remove(doc, tokens) ==
    IF tokens = <<>> THEN Thrown
    ELSE RemoveBelow(get_checked(doc, Pop(tokens)), Top(tokens))

\* "move" and "copy" add the value at `source` to what the removal has left.
AddedFrom(source, rest, tokens) ==
    IF ~ source.ok \/ ~ rest.ok THEN Thrown
    ELSE operation_add(rest.v, tokens, GetAt(source.v, source.path))
Tested(at, v) == IF at.ok /\ JsonEq(GetAt(at.v, at.path), v) THEN Place(at.v, <<>>) ELSE Thrown

\* One operation, whose members path and from are the pointers ptr and from.
PatchAt(doc, o, ptr, from) ==
    IF ~ ptr.ok THEN Thrown
    ELSE CASE o.op = "add" -> operation_add(doc, ptr.tokens, o.value)
           [] o.op = "remove" -> operation_remove(doc, ptr.tokens)
           [] o.op = "replace" -> Assigned(get_checked(doc, ptr.tokens), o.value)
           [] o.op \in {"move", "copy"} /\ from.ok ->
                 AddedFrom(get_checked(doc, from.tokens),
                           IF o.op = "move" THEN operation_remove(doc, from.tokens)
                           ELSE Place(doc, <<>>), ptr.tokens)
           [] o.op = "test" -> Tested(get_checked(doc, ptr.tokens), o.value)
           [] OTHER -> Thrown
PatchOne(doc, o) == PatchAt(doc, o, split(o.path), split(o.from))

\* patch works on a copy: when an operation throws, the value is as before.
RECURSIVE PatchFrom(_, _)
PatchFrom(r, ops) ==
    IF ops = <<>> \/ ~ r.ok THEN r ELSE PatchFrom(PatchOne(r.v, Head(ops)), Tail(ops))
patch(doc, ops) == PatchFrom(Place(doc, <<>>), ops)

-----------------------------------------------------------------------------
\* diff.  The removals of an array are inserted at one position, so that the
\* last element is removed first.
Operation(op, path, from, v) == [op |-> op, path |-> path, from |-> from, value |-> v]

RECURSIVE diff(_, _, _)
\* Mutant: the first element is removed first.
ArrayDiffAscending(source, target, path) ==
    LET n == Len(source[2])
        m == Len(target[2])
        At(i) == path \o <<Slash>> \o IndexToken(i)
        common == IF n < m THEN n ELSE m
    IN     Concat([i \in 1 .. common |-> diff(source[2][i], target[2][i], At(i - 1))])
        \o [i \in 1 .. n - common |-> Operation("remove", At(common + i - 1), <<>>, Null)]
        \o [i \in 1 .. m - common |->
                Operation("add", At(common + i - 1), <<>>, target[2][common + i])]
ArrayDiff(source, target, path) ==
    LET n == Len(source[2])
        m == Len(target[2])
        At(i) == path \o <<Slash>> \o IndexToken(i)
        common == IF n < m THEN n ELSE m
    IN     Concat([i \in 1 .. common |-> diff(source[2][i], target[2][i], At(i - 1))])
        \o [i \in 1 .. n - common |-> Operation("remove", At(n - i), <<>>, Null)]
        \o [i \in 1 .. m - common |->
                Operation("add", At(common + i - 1), <<>>, target[2][common + i])]

ObjectDiff(source, target, path) ==
    LET keys == KeysOf(source)
        added == Sorted(DOMAIN target[2] \ DOMAIN source[2])
        At(k) == path \o <<Slash>> \o escape(k)
    IN     Concat([i \in 1 .. Len(keys) |->
                IF keys[i] \in DOMAIN target[2]
                THEN diff(source[2][keys[i]], target[2][keys[i]], At(keys[i]))
                ELSE <<Operation("remove", At(keys[i]), <<>>, Null)>>])
        \o [i \in 1 .. Len(added) |->
                Operation("add", At(added[i]), <<>>, target[2][added[i]])]

diff(source, target, path) ==
    IF JsonEq(source, target) THEN <<>>
    ELSE IF type(source) # type(target) \/ ~ is_structured(source)
         THEN <<Operation("replace", path, <<>>, target)>>
    ELSE IF type(source) = "array" THEN ArrayDiff(source, target, path)
    ELSE ObjectDiff(source, target, path)

\* merge_patch: null removes a member.
RECURSIVE merge_patch(_, _)
RECURSIVE MergeMembers(_, _, _)
\* Mutant: a null for a member that is not there creates it.
MergeMembersCreating(f, p, keys) ==
    IF keys = <<>> THEN Object(f)
    ELSE LET k == Head(keys)
             old == IF k \in DOMAIN f THEN f[k] ELSE Null
         IN MergeMembers(IF type(p[k]) = "null" /\ k \in DOMAIN f THEN Drop(f, k)
                         ELSE Put(f, k, merge_patch(old, p[k])), p, Tail(keys))
merge_patch(v, p) ==
    IF type(p) # "object" THEN p
    ELSE MergeMembers(IF type(v) = "object" THEN v[2] ELSE EmptyObject[2], p[2], KeysOf(p))
MergeMembers(f, p, keys) ==
    IF keys = <<>> THEN Object(f)
    ELSE LET k == Head(keys)
             old == IF k \in DOMAIN f THEN f[k] ELSE Null
         IN MergeMembers(IF type(p[k]) = "null" THEN Drop(f, k)
                         ELSE Put(f, k, merge_patch(old, p[k])), p, Tail(keys))
=============================================================================
