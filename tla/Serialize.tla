----------------------------- MODULE Serialize -----------------------------
(***************************************************************************)
(* What the ICON client signs of a transaction: SignTransaction turns the  *)
(* JSON parameters into the bytes of chain/icon/client/serialize.go, and   *)
(* the node that receives the transaction does the same with what it has   *)
(* read.  A value is its kind and its content: null, a string of           *)
(* characters, a number, a list of values, a dictionary as the sequence of *)
(* its keys and values in the order in which a Go map happens to be ranged *)
(* over, or something that JSON has and serializeValue does not know.      *)
(***************************************************************************)
EXTENDS Naturals, Sequences, FiniteSets, SequencesExt

Null == <<"null">>
Str(s) == <<"str", s>>
Lst(vs) == <<"list", vs>>
Dict(kvs) == <<"dict", kvs>>
Bool == <<"bool">>
\* A number: its sign, the digits of its integer part, and whether it has a fraction.
Float64(neg, digits, fraction) == <<"float64", neg, digits, fraction>>

\* The characters, in the order of their codes.
CharOrder == <<"-", ".", "0", "1", "[", "\\", "]", "a", "b", "s", "{", "}">>
Code(ch) == CHOOSE i \in DOMAIN CharOrder : CharOrder[i] = ch
Escaped == {"\\", "{", "}", "[", "]", "."}

\* An answer: the bytes, or that an unknown type was met.
Written(bs) == [ok |-> TRUE, bs |-> bs]
SerializeError == [ok |-> FALSE, bs |-> <<>>]

\* Mutant: the escape character itself is written as it is.
serializeStringPlain(s) == FlattenSeq([i \in DOMAIN s |-> IF s[i] \in Escaped \ {"\\"} THEN <<"\\", s[i]>> ELSE <<s[i]>>])

serializeString(s) == FlattenSeq([i \in DOMAIN s |-> IF s[i] \in Escaped THEN <<"\\", s[i]>> ELSE <<s[i]>>])

\* strconv.FormatInt(int64(v), 10), for what an int64 can hold: the fraction is cut off.
Truncated(v) == IF v[2] /\ v[3] # <<"0">> THEN <<"-">> \o v[3] ELSE v[3]

\* Both loops put a dot before a part when anything has been written: in a list, not
\* after empty strings at its beginning.
Dotted(parts) ==
  IF \E i \in DOMAIN parts : ~parts[i].ok THEN SerializeError
  ELSE Written(FoldLeft(LAMBDA buf, p : (IF Len(buf) > 0 THEN Append(buf, ".") ELSE buf) \o p.bs, <<>>, parts))

\* sort.Strings.
Less(s, t) ==
  LET d == {i \in DOMAIN s \cap DOMAIN t : s[i] # t[i]}
      i == CHOOSE j \in d : \A k \in d : j <= k
  IN  IF d = {} THEN Len(s) < Len(t) ELSE Code(s[i]) < Code(t[i])

RECURSIVE serializeValue(_)

\* serializeDict without the keys of ex.  No caller names the keys to be included.
serializeDict(kvs, ex) ==
  LET kept == SelectSeq(SortSeq(kvs, LAMBDA x, y : Less(x[1], y[1])), LAMBDA kv : kv[1] \notin ex)
  IN  Dotted([i \in DOMAIN kept |->
        LET frag == serializeValue(kept[i][2])
        IN  [frag EXCEPT !.bs = serializeString(kept[i][1]) \o <<".">> \o @]])

serializeList(vs) == Dotted([i \in DOMAIN vs |-> serializeValue(vs[i])])

Between(open, frag, close) == [frag EXCEPT !.bs = IF frag.ok THEN <<open>> \o @ \o <<close>> ELSE @]

serializeValue(v) ==
  CASE v[1] = "null" -> Written(<<"\\", "0">>)
    [] v[1] = "dict" -> Between("{", serializeDict(v[2], {}), "}")
    [] v[1] = "list" -> Between("[", serializeList(v[2]), "]")
    [] v[1] = "str"  -> Written(serializeString(v[2]))
    [] v[1] = "float64" -> Written(Truncated(v))
    [] OTHER         -> SerializeError

SignatureKey == <<"s">>
txSerializeExcludes == {SignatureKey}

SerializeJSON(kvs) == serializeDict(kvs, txSerializeExcludes)

-----------------------------------------------------------------------------
(* What the bytes are to tell of a value.  The order of a dictionary's keys *)
(* is no part of it.  Nor are two things that serializeValue drops: whether *)
(* an integer is a string or a number, and its fraction; and empty strings  *)
(* at the beginning of a list.  The relay's own transactions consist of     *)
(* dictionaries and strings (TransactionParam), for which nothing but the   *)
(* order is dropped.                                                        *)
RECURSIVE Meaning(_)
Meaning(v) ==
  CASE v[1] = "dict" -> <<"dict", {<<v[2][i][1], Meaning(v[2][i][2])>> : i \in DOMAIN v[2]}>>
    [] v[1] = "list" -> LET ms == [i \in DOMAIN v[2] |-> Meaning(v[2][i])]
                            i  == SelectInSeq(ms, LAMBDA m : m # Str(<<>>))
                        IN  Lst(IF i = 0 THEN <<>> ELSE SubSeq(ms, i, Len(ms)))
    [] v[1] = "float64" -> Str(Truncated(v))
    [] OTHER -> v

SignedPart(kvs) == Meaning(Dict(SelectSeq(kvs, LAMBDA kv : kv[1] # SignatureKey)))

(* The transactions of the instance.  Strings of up to three characters are *)
(* enough to spell the separators, brackets and null of a longer one.       *)
Ch(S, n) == UNION {[1..k -> S] : k \in 0..n}
Strings == Ch({".", "b", "\\", "0"}, 3) \cup Ch({"-", "0", "1"}, 2) \cup Ch({"{", "}", "[", "]", "b", "."}, 2)
Key(ch) == <<ch>>
One(k, v) == <<<<k, v>>>>
Small == {Null, Str(<<>>), Str(<<".">>), Str(<<"b">>), Str(<<"\\">>)}
Nested == {Dict(<<>>), Bool, Dict(One(Key("b"), Float64(TRUE, <<"1">>, TRUE))), Lst(<<Null>>), Lst(<<Str(<<"b">>), Null>>), Lst(<<Str(<<"b", ".">>)>>),
           Dict(One(SignatureKey, Null)), Dict(One(Key("b"), Bool)), Lst(<<Lst(<<Bool>>)>>)}
          \cup {Dict(One(Key("b"), v)) : v \in Small}
          \cup {Dict(<<<<Key("a"), v>>, <<Key("b"), w>>>>) : v, w \in Small}
          \cup {Dict(<<<<Key("b"), w>>, <<Key("a"), v>>>>) : v, w \in Small}
Numbers == {Float64(neg, digits, f) : neg, f \in BOOLEAN, digits \in {<<"0">>, <<"1">>, <<"1", "0">>}}
ListValues == {Lst(vs) : vs \in Ch({Null, Str(<<>>), Str(<<"b">>), Lst(<<>>)}, 3)}
          \cup {Lst(<<v, w>>) : v \in {Str(<<>>), Str(<<"1">>)}, w \in Numbers}
          \cup {Lst(<<Str(<<>>), v, Str(<<"b">>)>>) : v \in {Lst(<<Str(<<>>)>>), Lst(<<Str(<<>>), Str(<<>>)>>), Dict(<<>>)}}
JsonValues == {Null} \cup {Str(s) : s \in Strings} \cup Numbers \cup ListValues \cup Nested
Two(k, v, l, w) == {<<<<k, v>>, <<l, w>>>>, <<<<l, w>>, <<k, v>>>>}
Keys == {Key("a"), <<"a", ".">>, <<"b", "a">>}
Transactions ==
  {<<>>} \cup {One(Key("a"), v) : v \in JsonValues}
  \cup UNION {Two(k, v, l, w) : k \in Keys, l \in {Key("b"), <<"a", "b">>}, v, w \in Small \cup {Dict(<<>>)}}

-----------------------------------------------------------------------------
VARIABLES tx, signed

vars == <<tx, signed>>

Init == tx \in Transactions /\ signed = <<>>

\* SignTransaction.  The timestamp is one of the strings.  A transaction that
\* expired is signed again with the signature it has.
SignTransaction ==
  LET data == SerializeJSON(tx)
  IN  /\ Len(signed) < 2
      /\ signed' = Append(signed, data)
      /\ tx' = IF ~data.ok \/ \E i \in DOMAIN tx : tx[i][1] = SignatureKey THEN tx
               ELSE Append(tx, <<SignatureKey, Str(<<"b">>)>>)

Next == SignTransaction

Spec == Init /\ [][Next]_vars

-----------------------------------------------------------------------------
Table == [t \in Transactions |-> SerializeJSON(t)]
Meanings == [t \in Transactions |-> SignedPart(t)]

\* Two transactions whose bytes are equal have the same meaning: no string can be
\* read as a separator, a bracket, a null or the end of a dictionary
\* (serializeString's escapes).  What bytes of serializeValue do not tell is named in
\* Meaning; nothing else is lost, so that a signature of the relay speaks for one
\* transaction.
OneMeaning ==
  signed # <<>> /\ signed[1].ok =>
    LET meaning == SignedPart(tx)
    IN  \A t \in Transactions : Table[t] = signed[1] => Meanings[t] = meaning

\* The bytes depend on the meaning only, and not on the order in which a map is ranged
\* over, at any depth, so that the node computes the hash that was signed.
OneForm ==
  signed # <<>> =>
    LET meaning == SignedPart(tx)
    IN  \A t \in Transactions : Meanings[t] = meaning => Table[t] = signed[1]

\* A transaction that is signed again has the bytes it had: the signature it
\* carries is not part of them.
SignedAgain == Len(signed) = 2 => signed[1] = signed[2]
=============================================================================
