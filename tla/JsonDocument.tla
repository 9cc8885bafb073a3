----------------------------- MODULE JsonDocument -----------------------------
(***************************************************************************)
(* A program that works on one document of basic_json (json.hpp): it calls *)
(* modifiers on the document or on one of its elements, walks it with an   *)
(* iterator, and at any time may write it in one of the binary formats and *)
(* read it back, flatten it, or compare it with another document.          *)
(***************************************************************************)
EXTENDS JsonCodec, JsonModifiers

CONSTANTS
    Leaves,      \* values the modifiers are called with
    Scalars,     \* further values the document is assigned
    Keys,        \* keys of members
    Pointers,    \* texts of pointers
    Targets,     \* documents that the document is compared with and merged with
    MaxSize,     \* elements of the document
    MaxInner     \* elements of an element, which are scalars

VARIABLES
    doc,         \* the document
    cursor       \* an iterator of the document

vars == <<doc, cursor>>

-----------------------------------------------------------------------------
Bounded(v) ==
    LET Small(w, n) == size(w) <= n /\ (type(w) = "object" => DOMAIN w[2] \subseteq Keys)
        Inner(w) == Small(w, MaxInner) /\ \A j \in DOMAIN w[2] : ~ is_structured(w[2][j])
    IN  is_structured(v) =>
            /\ Small(v, MaxSize)
            /\ \A i \in DOMAIN v[2] : IF is_structured(v[2][i]) THEN Inner(v[2][i])
                                     ELSE v[2][i] \in Leaves

\* The document itself and its elements, which at() gives references to.
Places(v) == {<<>>} \cup (IF is_structured(v) THEN {<<i>> : i \in DOMAIN v[2]} ELSE {})

\* A modifier of the document leaves no iterator valid: a walk starts again.  The
\* modifiers do not look at the iterator, so they are called before a walk only.
Becomes(v) ==
    /\ cursor = set_begin(doc)
    /\ v \in Scalars \/ Bounded(v)
    /\ doc' = v
    /\ cursor' = set_begin(v)

\* The document is assigned the result of an operation that has not thrown.
Adopt(result) == result.ok /\ Becomes(result.v)

\* The call of a modifier on the element at path, which leaves result.v there.
Leave(path, result) == Becomes(SetAt(doc, path, result.v))

-----------------------------------------------------------------------------
Init == doc = Null /\ cursor = set_begin(Null)

Assign == \E v \in Leaves \cup Scalars \cup Targets : Becomes(v)

Construct ==
    \/ \E x, y \in Leaves : Becomes(InitializerList(<<x, y>>, TRUE, "array").v)
    \/ \E k, h \in Keys, x \in Leaves, deduce \in BOOLEAN :
          Becomes(InitializerList(<<Array(<<Str(k), x>>), Array(<<Str(h), Null>>)>>,
                                  deduce, "object").v)
    \/ \E n \in 0 .. MaxSize, x \in Leaves : Becomes(Copies(n, x))
    \/ \E first, last \in 0 .. set_end(doc) :
          first <= last /\ Adopt(Range(doc, first, last))

PushBack(path, v) ==
    \/ \E x \in Leaves : Leave(path, push_back(v, x))
    \/ \E x, y \in Leaves : Leave(path, PushList(v, <<x, y>>))

Emplace(path, v) == \E k \in Keys, x \in Leaves : Leave(path, emplace(v, k, x))

Set(path, result) == result.ok /\ Leave(path, result)
Subscript(path, v) ==
    \/ \E idx \in 0 .. MaxSize, x \in Leaves :
          Set(path, Assigned(SubscriptIndex(v, idx), x))
    \/ \E k \in Keys, x \in Leaves :
          Set(path, Assigned(SubscriptKey(v, k), x))

\* doc[ptr] = x; when the pointer is refused the part before it has been created.
AssignedOrLeft(place, x) == IF place.ok THEN SetAt(place.v, place.path, x) ELSE place.v
SubscriptPointer ==
    \E text \in Pointers, x \in Leaves :
        /\ split(text).ok
        /\ Becomes(AssignedOrLeft(get_unchecked(doc, split(text).tokens), x))

Insert(path, v) ==
    \/ \E pos \in 0 .. size(v), x \in Leaves : Leave(path, insert(v, pos, <<x>>))
    \/ \E j \in Targets : Leave(path, InsertMembers(v, j))

Update(path, v) == \E j \in Targets : Leave(path, update(v, j))

Erase(path, v) ==
    \/ \E k \in Keys : Leave(path, EraseKey(v, k))
    \/ \E idx \in 0 .. MaxSize : Leave(path, EraseIndex(v, idx))
    \/ \E first, last \in set_begin(v) .. set_end(v) :
          first <= last /\ Leave(path, EraseRange(v, first, last))

Clear(path, v) == Leave(path, Place(clear(v), <<>>))

Merge == \E j \in Targets : Becomes(merge_patch(doc, j))

Patch ==
    \E o \in     {Operation(op, text, <<>>, x) :
                   op \in {"add", "replace", "test"}, text \in Pointers, x \in Leaves}
             \cup {Operation("remove", text, <<>>, Null) : text \in Pointers}
             \cup {Operation(op, text, from, Null) :
                   op \in {"move", "copy"}, text \in Pointers, from \in Pointers} :
        Adopt(patch(doc, <<o>>))

\* A walk: *cursor, then ++cursor or cursor = doc.erase(cursor).
Step ==
    /\ cursor # set_end(doc)
    /\ cursor' = cursor + 1
    /\ UNCHANGED doc
Rewind ==
    /\ cursor # set_begin(doc)
    /\ cursor' = set_begin(doc)
    /\ UNCHANGED doc
EraseAtCursor ==
    /\ cursor # set_end(doc)
    /\ LET r == ErasePosition(doc, cursor) IN doc' = r.v /\ cursor' = r.path[1]

Next ==
    \/ Assign \/ Construct \/ SubscriptPointer \/ Merge \/ Patch
    \/ Step \/ Rewind \/ EraseAtCursor
    \/ \E path \in Places(doc) :
          LET v == GetAt(doc, path)
          IN  \/ PushBack(path, v) \/ Emplace(path, v) \/ Subscript(path, v)
              \/ Insert(path, v) \/ Update(path, v) \/ Erase(path, v) \/ Clear(path, v)

Spec == Init /\ [][Next]_vars

-----------------------------------------------------------------------------
\* A reader given the whole encoding of v, or not.
Reads(r, whole, v) == IF whole THEN r.ok /\ JsonEq(r.v, v) ELSE ~ r.ok
ReadsExactly(format, bs, v) ==
    \A n \in 0 .. Len(bs) + 1 :
        Reads(sax_parse(format, SubSeq(bs \o <<0>>, 1, n), TRUE), n = Len(bs), v)
RoundTrip(format, bs, v) == ~ Throws(bs) => ReadsExactly(format, bs, v)

\* What to_cbor, to_msgpack and to_ubjson write, from_cbor, from_msgpack and
\* from_ubjson read back as an equal value, from exactly these bytes: no part of
\* them is taken for a document, nor are they with a further byte (strict).  A
\* writer may throw instead (UBJSON has no unsigned beyond 2^63).
EncodingsRoundTrip == \A e \in Encodings : RoundTrip(FormatOf(e), Encode(e, doc), doc)

\* Documents without empty containers and without objects whose first key is the
\* text 0, which unflatten takes for an array.
RECURSIVE Plain(_)
Plain(v) ==
    IF ~ is_structured(v) THEN TRUE
    ELSE /\ ~ empty(v)
         /\ type(v) = "object" => KeysOf(v)[1] # ZeroToken
         /\ \A i \in DOMAIN v[2] : Plain(v[2][i])

\* The leaf of v that a pointer leads to, and what flatten calls it.
IsLeaf(leaf, v) == IF is_structured(leaf) THEN empty(leaf) ELSE leaf = v
LeadsTo(at, v) == at.ok /\ IsLeaf(GetAt(at.v, at.path), v)
Names(pointer, text, v) ==
    /\ pointer.ok /\ to_string(pointer.tokens) = text
    /\ LeadsTo(get_checked(doc, pointer.tokens), v)
IsDoc(r) == r.ok /\ r.v = doc
Undone(flat) ==
    /\ \A text \in DOMAIN flat[2] : Names(split(text), text, flat[2][text])
    /\ Plain(doc) => IsDoc(unflatten(flat))


\* A patch, applied, has made v.
Patches(r, v) == r.ok /\ JsonEq(r.v, v)

\* The patch that diff computes leads from its source to its target, in both
\* directions: no removal moves an element that a later operation names.
DiffLeadsToTarget ==
    \A t \in Targets : \A way \in {<<doc, t>>, <<t, doc>>} :
        Patches(patch(way[1], diff(way[1], way[2], <<>>)), way[2])

\* A merge patch leaves nothing for the same patch to do (merge_patch).
MergeIsIdempotent ==
    \A t \in Targets :
        LET once == merge_patch(doc, t) IN JsonEq(merge_patch(once, t), once)

\* The values of which operator< is an order: neither floats nor an unsigned that
\* a cast to number_integer_t makes negative.
RECURSIVE Comparable(_)
Comparable(v) ==
    CASE is_structured(v) -> \A i \in DOMAIN v[2] : Comparable(v[2][i])
      [] type(v) = "unsigned" -> ~ IsNegative(v[2])
      [] OTHER -> type(v) # "float"

\* operator< and operator== order the comparable documents: of two exactly one is
\* less, or they are equal, and less is transitive.
OrderIsTotal ==
    \A t \in {u \in Targets \cup Scalars \cup {doc} : Comparable(u) /\ Comparable(doc)} :
        /\ Cardinality({c \in 1..3 :
              <<JsonLess(doc, t), JsonEq(doc, t), JsonLess(t, doc)>>[c]}) = 1
        /\ \A u \in Targets :
              JsonLess(doc, t) /\ JsonLess(t, u) /\ Comparable(u) => JsonLess(doc, u)

\* The iterators cover the values: size() steps lead from begin to end, each of
\* them at an element, forwards and backwards; begin to end is a copy.  A walk
\* that erases as it goes stays within: the iterator that erase returns is one of
\* the value it leaves behind, a null included.
IteratorsCover ==
    LET first == set_begin(doc)
        last == set_end(doc)
    IN  /\ cursor \in first .. last
        /\ last - first = size(doc)
        /\ empty(doc) <=> first = last
        /\ \A it \in first .. last - 1 :
              Deref(doc, it).ok /\ ReverseValue(doc, last - (it - first)).ok
        /\ first < last =>
              /\ front(doc) = ReverseValue(doc, first + 1)
              /\ back(doc) = Deref(doc, last - 1)
              /\ type(doc) # "object" => At(doc, last, first - last) = front(doc)
        /\ type(doc) # "null" => Range(doc, first, last) = Place(doc, <<>>)
=============================================================================
