---------------------------- MODULE MCEncodings ----------------------------
(* The conversions between values and bytes.  The initial state chooses what *)
(* is converted: a number of up to a word and a byte; a byte string of up to *)
(* MaxLen bytes, read as a number, as text and as RLP; a struct of up to     *)
(* MaxFields fields; a stream of items, written and read step by step; or a  *)
(* transaction that is signed.                                               *)
EXTENDS Codec, RLPItems, Serialize

CONSTANTS MaxLen, MaxFields, MaxItems, MaxDepth, MaxReads

VARIABLES kind,                 \* "num", "str", "struct", "stream" or "tx"
          num, str,
          fields,               \* sequence of a type and a value
          ws, built, phase, rd, at, got, reads

Stream == INSTANCE CodecStream WITH Atoms <- {<<Half>>}

\* A type with values of it: nil and empty, one and two bytes, the ends of the
\* integers, and lists in lists.
T(t, vs) == {[t |-> t, v |-> v] : v \in vs}
Fields ==
  T(TInt, {0, -1, -(B ^ Word \div 2), Half}) \cup T(TUint, {0, Half, B ^ Word - 1})
  \cup T(Bytes, {<<>>, << <<>> >>, << <<0>> >>, << <<Half>> >>, << <<0, 0>> >>})
  \cup T(ByteArray(2), {<<0, 0>>, <<Half, 1>>})
  \cup T(Slice(TInt), {<<>>, << <<>> >>, << <<0, Half>> >>})
  \cup T(Slice(Ptr(TUint)), {<<>>, << << <<>>, <<0>> >> >>})
  \cup T(Array(2, Bytes), {<< <<>>, << <<1>> >> >>})
  \cup T(Ptr(TInt), {<<>>, <<0>>, <<Half>>})
  \cup T(Ptr(Struct(<<TInt, Bytes>>)), {<<>>, << <<0, <<>> >> >>, << <<1, << <<Half>> >> >> >>})
  \cup T(Struct(<<TUint>>), {<<0>>, <<Half>>}) \cup T(Struct(<<>>), {<<>>})
  \cup T(Map(Bytes), {<<>>, << <<>> >>, << [x \in {0, Half} |-> IF x = 0 THEN <<>> ELSE << <<1>> >>] >>})

streamVars == <<ws, built, phase, rd, at, got, reads>>

MCInit ==
  /\ kind \in {"num", "str", "struct", "stream", "tx"}
  /\ num \in IF kind = "num" THEN Signed(Word + 1) \cup Unsigned(Word) ELSE {0}
  /\ str = <<>> /\ fields = <<>>
  /\ Stream!Init
  /\ kind # "tx" => tx = <<>>
  /\ Init

AddByte ==
  /\ kind = "str" /\ Len(str) < MaxLen
  /\ \E b \in Byte : str' = Append(str, b)
  /\ UNCHANGED <<kind, num, fields, streamVars, tx, signed>>

AddField ==
  /\ kind = "struct" /\ Len(fields) < MaxFields
  /\ \E f \in Fields : fields' = Append(fields, f)
  /\ UNCHANGED <<kind, num, str, streamVars, tx, signed>>

MCNext ==
  \/ AddByte \/ AddField
  \/ kind = "stream" /\ Stream!Next /\ UNCHANGED <<kind, num, str, fields, tx, signed>>
  \/ kind = "tx" /\ Next /\ UNCHANGED <<kind, num, str, fields, streamVars>>

MCSpec == MCInit /\ [][MCNext]_<<kind, num, str, fields, streamVars, tx, signed>>

-----------------------------------------------------------------------------
(* Numbers and their bytes. *)

\* Every integer is read back as it was written, by the conversions of its type.
WrittenIsRead ==
  kind = "num" =>
    /\ BigIntSetBytes(BigIntToBytes(num)) = num
    /\ num \in Signed(Word) => SafeBytesToInt64(Int64ToBytes(num)) = Ok(num)
    /\ num \in Unsigned(Word) => /\ SafeBytesToUint64(Uint64ToBytes(num)) = Ok(num)
                                  /\ SafeBytesToSize64(SizeToBytes(num)) = Ok(num)

\* What a conversion accepts is the value that the others give for the same
\* bytes, and the unsigned one accepts everything that is in its range and has at
\* most one zero in front.
ReadersAgree ==
  LET big == BigIntSetBytes(str)
      int == SafeBytesToInt64(str)
      uint == SafeBytesToUint64(str)
  IN  kind = "str" =>
        /\ int.ok <=> Len(str) <= Word
        /\ int.ok => int.v = big
        /\ uint.ok => uint.v = big
        /\ uint.ok <=> big >= 0 /\ (Len(str) <= Word \/ (Len(str) = Word + 1 /\ str[1] = 0))

\* The bytes of a number are the shortest that are read as it, whichever type it
\* is written from: two encodings of equal numbers are equal, which the hashes
\* over them rely on.
Shortest ==
  kind = "str" /\ str # <<>> =>
    LET big == BigIntSetBytes(str)
        w == BigIntToBytes(big)
    IN  /\ Len(w) < Len(str) \/ w = str
        /\ big \in Signed(Word) => Int64ToBytes(big) = w
        /\ big \in Unsigned(Word) => Uint64ToBytes(big) = w

\* The hexadecimal types: formatting and parsing, and encoding and decoding, give
\* the value back for every one of the type, the smallest int64 included, and the
\* digits have no zero in front.
HexTypesRoundTrip ==
  kind = "num" =>
    /\ ParseBigInt(FormatBigInt(num)) = Ok(num)
    /\ \A t \in HexTypes : num \in TypeRange(t.type) =>
         /\ HexParse(t, HexString(t, num)) = Ok(num)
         /\ ReadValue(t.type, HexEncode(t, num)) = Ok(num)
         /\ num # 0 => HexString(t, num).digits[1] # 0

\* ParseInt and ParseBigInt take the same texts of a word, and read the same from them,
\* if these are hexadecimal with 0x or decimal without a zero in front.  ParseBigInt
\* refuses the other prefixes.  Digits after a zero, which it reads as a decimal number
\* and ParseInt as an octal one, are read alike only below eight.
TextsAgree ==
  kind = "str" => \A neg \in BOOLEAN, prefix \in BasePrefixes :
    LET big == ParseBigInt(Text(neg, prefix, str))
        int == ParseInt(Text(neg, prefix, str), Word)
    IN  /\ prefix = "0x" \/ (prefix = "" /\ (Len(str) > 1 => str[1] # 0))
             => int = (IF big.ok /\ big.v \in Signed(Word) THEN big ELSE Fail)
        /\ prefix \in {"0X", "0o", "0b"} => ~big.ok
        /\ prefix = "0" /\ int.ok => big.ok /\ (int = big <=> big.v \in -7..7)

\* HexBytes and RawHexBytes keep nil and empty apart, and HexBytes takes the text
\* of both.
HexBytesRoundTrip ==
  kind = "str" =>
    \A x \in {<<>>, <<str>>}, raw \in BOOLEAN :
      HexBytesParse(HexBytesText(x, raw), raw) = Ok(x) /\ HexBytesParse(HexBytesText(x, raw), FALSE) = Ok(x)

\* A number out of a type's range is refused, not cut to its width.
OutOfRangeRefused ==
  kind = "num" =>
    \A t \in HexTypes : num \notin TypeRange(t.type) => ~ReadValue(t.type, BigIntToBytes(num)).ok

-----------------------------------------------------------------------------
(* Strings read as RLP. *)

\* As UnmarshalFromBytes makes it.
Reader(bs) == NewReader(bs, Len(bs))

\* Skipping an item, taking it raw, and reading it with everything in it accept
\* the same strings and leave the reader at the same place: the limits of the
\* buffers refuse nothing that is there.
SkipIsRead ==
  kind = "str" =>
  LET skip == skipOne(Reader(str))
      raw == ReadRaw(Reader(str))
      b == readBytes(Reader(str))
      l == readList(Reader(str))
      list == IF Answered(l) THEN CloseList(l.r) ELSE l
  IN  /\ Answered(skip) <=> Answered(raw)
      /\ Answered(skip) <=> Answered(b) \/ b.err = "nil" \/ Answered(list)
      /\ Answered(skip) => /\ raw.r = skip.r /\ raw.v \o skip.r.in = str
                           /\ Answered(b) \/ b.err = "nil" => b.r = skip.r
                           /\ Answered(list) => list.r = skip.r

\* What has been read is written shorter or as it was, and read again as the same:
\* the reader takes encodings that the writer does not make, but no two meanings.
Rewritten ==
  kind = "str" =>
  LET items == Items(Reader(str))
      w == WriteItems(items.v)
  IN  Answered(items) => /\ Len(w) < Len(str) \/ w = str
                         /\ Items(Reader(w)) = [items EXCEPT !.r.maxSB = Len(w)]

\* An item that is cut off anywhere is an error and not the end of the items, at
\* the outside and within a list, so that a struct is never completed with zero
\* values from a part of its encoding.
CutOffIsInvalid ==
  kind = "str" =>
  LET l == readList(Reader(str))
      Errs(r) == {skipOne(r).err, ReadRaw(r).err, readBytes(r).err, readList(r).err}
  IN  /\ str # <<>> => "EOF" \notin Errs(Reader(str))
      /\ Answered(l) /\ l.r.lists[1].left > 0 => "EOF" \notin Errs(l.r)
      /\ Answered(skipOne(Reader(str))) /\ skipOne(Reader(str)).r.in = <<>> =>
           \A n \in 1..Len(str) - 1 : Items(Reader(SubSeq(str, 1, n))).err = "invalid"

-----------------------------------------------------------------------------
(* Structs. *)

Types(n) == [i \in 1..n |-> fields[i].t]
Values(n) == [i \in 1..n |-> fields[i].v]
N == Len(fields)
Encoded(n) == MarshalToBytes(Struct(Types(n)), Values(n))
Zeros(n) == [i \in 1..n |-> Zero(fields[i].t)]

\* A struct is decoded as it was encoded, nil and empty values told apart, and
\* UnmarshalFromBytes gives back what follows it.
ValuesRoundTrip ==
  kind = "struct" =>
  LET a == UnmarshalFromBytes(Encoded(N) \o <<0>>, Struct(Types(N)))
      m == DecodeListOf(Types(N), NewReader(Encoded(N), Len(Encoded(N))))
  IN  /\ a.err = "" /\ a.v = Values(N) /\ a.r.in = <<0>> /\ a.r.lists = <<>>
      /\ m.err = "" /\ m.v = Values(N) /\ m.r.in = <<>>

\* Fields may be added at the end of a struct: an old program reads the values of
\* a new one without them, a new one those of an old one with zero values, but
\* DecodeListOf refuses a list that is too short.
VersionsCompatible ==
  kind = "struct" =>
  \A n \in 0..N :
    /\ UnmarshalFromBytes(Encoded(N), Struct(Types(n))).v = Values(n)
    /\ LET a == UnmarshalFromBytes(Encoded(n), Struct(Types(N)))
       IN  a.err = "" /\ a.v = Values(n) \o SubSeq(Zeros(N), n + 1, N)
    /\ n < N => DecodeListOf(Types(N), NewReader(Encoded(n), Len(Encoded(n)))).err = "invalid"

\* No part of an encoding is decoded as a value.
CutOffRefused ==
  kind = "struct" =>
  \A n \in 0..Len(Encoded(N)) - 1 :
    UnmarshalFromBytes(SubSeq(Encoded(N), 1, n), Struct(Types(N))).err \in {"invalid", "EOF"}

-----------------------------------------------------------------------------
(* What is checked. *)

\* Integers: every one is read back as it was written, its bytes are the shortest,
\* all conversions agree on what bytes mean, and what a type cannot hold is refused;
\* hexadecimal texts give the value back, and the two ways to parse a text agree.
NumbersRoundTrip ==
  /\ WrittenIsRead /\ ReadersAgree /\ Shortest /\ TextsAgree
  /\ HexTypesRoundTrip /\ HexBytesRoundTrip /\ OutOfRangeRefused

\* RLP: a string is read in one way whichever function reads it, what has been read is
\* written as something with the same meaning, and a part of an item is an error.
OneReading == SkipIsRead /\ Rewritten /\ CutOffIsInvalid

\* Structs: decoded as they were encoded, also by older and newer versions, and never
\* from a part.
StructsRoundTrip == ValuesRoundTrip /\ VersionsCompatible /\ CutOffRefused

\* Streams: what has been written by any order of calls is read as the items' tree,
\* and every call of a decoder finds the next item of its own list.
StreamsAgree == Stream!EncodedIsTree /\ Stream!DecoderAligned

\* Transactions: the bytes that are signed are those of transactions with one meaning,
\* which for what the relay sends is one transaction, do not depend on the order of
\* maps, and are the same when it is signed again.
SignatureHolds == OneMeaning /\ OneForm /\ SignedAgain
=============================================================================
