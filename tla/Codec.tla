------------------------------- MODULE Codec -------------------------------
(***************************************************************************)
(* encodeValue and decodeValue of common/codec/codec.go: Go values of the  *)
(* kinds the codec knows, to and from RLP.  Values of kinds that may be    *)
(* nil are <<>> for nil and <<x>> otherwise; structs, arrays and slices    *)
(* are sequences, maps are functions.                                      *)
(***************************************************************************)
EXTENDS RLP, FiniteSets

TInt == [k |-> "int"]
TUint == [k |-> "uint"]
Bytes == [k |-> "bytes"]                             \* []byte
ByteArray(n) == [k |-> "byteArray", n |-> n]         \* [n]byte
Slice(t) == [k |-> "slice", of |-> t]
Array(n, t) == [k |-> "array", n |-> n, of |-> t]
Ptr(t) == [k |-> "ptr", of |-> t]
Struct(ts) == [k |-> "struct", of |-> ts]
Map(t) == [k |-> "map", of |-> t]                    \* map[uint]t

RECURSIVE Zero(_)
Zero(t) ==
  CASE t.k \in {"int", "uint"} -> 0
    [] t.k = "byteArray" -> [i \in 1..t.n |-> 0]
    [] t.k = "array"     -> [i \in 1..t.n |-> Zero(t.of)]
    [] t.k = "struct"    -> [i \in DOMAIN t.of |-> Zero(t.of[i])]
    [] OTHER -> <<>>

-----------------------------------------------------------------------------
\* encodeNullable.
Nullable(v, b) == IF v = <<>> THEN nullSequence ELSE b

SortedKeys(f) == SetToSortSeq(DOMAIN f, LAMBDA a, b : a < b)

\* encodeValue: the bytes written for v, a value of type t.  For a map they are
\* keys and values in turn, in the order of the keys.
RECURSIVE encodeValue(_, _)
encodeValue(t, v) ==
  LET each(vs) == writeList(FlattenSeq([i \in DOMAIN vs |-> encodeValue(t.of, vs[i])]))
      pair(f, key) == encodeValue(TUint, key) \o encodeValue(t.of, f[key])
      keys == SortedKeys(v[1])
  IN  CASE t.k = "int"       -> writeBytes(Int64ToBytes(v))
        [] t.k = "uint"      -> writeBytes(Uint64ToBytes(v))
        [] t.k = "bytes"     -> Nullable(v, writeBytes(v[1]))
        [] t.k = "byteArray" -> writeBytes(v)
        [] t.k = "slice"     -> Nullable(v, each(v[1]))
        [] t.k = "array"     -> each(v)
        [] t.k = "ptr"       -> Nullable(v, encodeValue(t.of, v[1]))
        [] t.k = "struct"    -> writeList(FlattenSeq([i \in DOMAIN v |-> encodeValue(t.of[i], v[i])]))
        [] t.k = "map"       -> Nullable(v, writeList(FlattenSeq([i \in DOMAIN keys |-> pair(v[1], keys[i])])))

-----------------------------------------------------------------------------
\* Where a decoder goes on when decoding in a list in it ended with a nil: at the
\* place that was reached, with its own list.
Outside(a, r) == [a.r EXCEPT !.lists = SubSeq(@, 1, Len(r.lists))]

\* An answer that is nil gives v.
OrNil(a, v, r) == IF a.err = "nil" THEN Answer(v, Outside(a, r)) ELSE a

\* Opens a list, decodes what is in it, and discards the rest.
InList(r, Op(_)) ==
  Then(readList(r), LAMBDA l :
    Then(Op(l.r), LAMBDA a : Then(CloseList(a.r), LAMBDA c : Answer(a.v, c.r))))

ReadNumber(type, r) ==
  Then(readBytes(r), LAMBDA a :
    Once(ReadValue(type, a.v), LAMBDA n : IF n.ok THEN Answer(n.v, a.r) ELSE Error("invalid", a.r)))

\* reflect.Copy into an array: what is longer is cut, what is missing stays.
CopyInto(old, vs) == [i \in DOMAIN old |-> IF i \in DOMAIN vs THEN vs[i] ELSE old[i]]

\* decodeValue into a variable of type t whose value is old; decodeNullableValue;
\* the elements of a slice or array, at most n of them, after the ones in acc; the
\* fields of a struct from the i-th on; the pairs of a map.
RECURSIVE decodeValue(_, _, _), decodeElems(_, _, _, _), decodeFields(_, _, _, _), decodePairs(_, _, _)

decodeNullableValue(t, r, old) == Once(decodeValue(t, r, old), LAMBDA a : OrNil(a, Zero(t), r))

decodeElems(t, r, acc, n) ==
  IF Len(acc) = n THEN Answer(acc, r)
  ELSE Once(decodeNullableValue(t, r, Zero(t)), LAMBDA a :
         IF a.err = "EOF" THEN Answer(acc, r)
         ELSE IF Answered(a) THEN decodeElems(t, a.r, Append(acc, a.v), n) ELSE a)

\* Mutant: a field that is not there is an error.
decodeFieldsStrict(ts, r, i, old) ==
  IF i > Len(ts) THEN Answer(old, r)
  ELSE Then(decodeValue(ts[i], r, old[i]), LAMBDA a : decodeFields(ts, a.r, i + 1, [old EXCEPT ![i] = a.v]))

decodeFields(ts, r, i, old) ==
  IF i > Len(ts) THEN Answer(old, r)
  ELSE Once(decodeValue(ts[i], r, old[i]), LAMBDA a :
         IF a.err = "EOF" THEN decodeFields(ts, r, i + 1, [old EXCEPT ![i] = Zero(ts[i])])
         ELSE IF Answered(a) THEN decodeFields(ts, a.r, i + 1, [old EXCEPT ![i] = a.v]) ELSE a)

decodePairs(t, r, f) ==
  Once(decodeValue(TUint, r, 0), LAMBDA key :
    IF key.err = "EOF" THEN Answer(f, r)
    ELSE IF key.err = "nil" THEN Error("invalid", key.r)
    ELSE IF ~Answered(key) THEN key
    ELSE Once(decodeNullableValue(t, key.r, Zero(t)), LAMBDA value :
           IF value.err = "EOF" THEN Error("invalid", value.r)
           ELSE IF ~Answered(value) THEN value
           ELSE decodePairs(t, value.r, [x \in DOMAIN f \cup {key.v} |-> IF x = key.v THEN value.v ELSE f[x]])))

Some(a) == IF Answered(a) THEN [a EXCEPT !.v = <<@>>] ELSE a

decodeValue(t, r, old) ==
  CASE t.k = "int"       -> ReadNumber(int64, r)
    [] t.k = "uint"      -> ReadNumber(uint64, r)
    [] t.k = "bytes"     -> Once(readBytes(r), LAMBDA a : OrNil(Some(a), <<>>, r))
    [] t.k = "byteArray" -> Then(readBytes(r), LAMBDA a : Answer(CopyInto(old, a.v), a.r))
    [] t.k = "slice"     ->
         Once(readList(r), LAMBDA l :
           IF l.err = "nil" THEN Answer(<<>>, l.r)
           ELSE Some(InList(r, LAMBDA q : decodeElems(t.of, q, <<>>, -1))))
    [] t.k = "array"     -> Then(InList(r, LAMBDA q : decodeElems(t.of, q, <<>>, t.n)),
                              LAMBDA a : Answer(CopyInto(old, a.v), a.r))
    [] t.k = "ptr"       -> Once(decodeValue(t.of, r, Zero(t.of)), LAMBDA a : OrNil(Some(a), <<>>, r))
    [] t.k = "struct"    -> InList(r, LAMBDA q : decodeFields(t.of, q, 1, old))
    [] t.k = "map"       ->
         Once(readList(r), LAMBDA l :
           IF l.err = "nil" THEN Answer(<<>>, l.r)
           ELSE Some(InList(r, LAMBDA q : decodePairs(t.of, q, <<>>))))

-----------------------------------------------------------------------------
\* The calls of callers.
MarshalToBytes(t, v) == encodeValue(t, v)

UnmarshalFromBytes(b, t) == decodeValue(t, NewReader(b, Len(b)), Zero(t))

\* DecodeMulti: values one after the other, of which nils are zero values; the
\* answer has those before an error.
RECURSIVE DecodeMulti(_, _, _)
DecodeMulti(ts, r, acc) ==
  IF Len(acc) = Len(ts) THEN Answer(acc, r)
  ELSE LET t == ts[Len(acc) + 1]
       IN  Once(decodeNullableValue(t, r, Zero(t)), LAMBDA a :
             IF Answered(a) THEN DecodeMulti(ts, a.r, Append(acc, a.v)) ELSE [a EXCEPT !.v = acc])

\* DecodeListOf: all of them must be in the list.
DecodeListOf(ts, r) ==
  Then(readList(r), LAMBDA l :
    Once(DecodeMulti(ts, l.r, <<>>), LAMBDA a :
      IF ~Answered(a) THEN Error("invalid", a.r)
      ELSE Then(CloseList(a.r), LAMBDA c : Answer(a.v, c.r))))
=============================================================================
