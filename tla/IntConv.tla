------------------------------ MODULE IntConv ------------------------------
(***************************************************************************)
(* The conversions between integers, byte strings and hexadecimal numbers  *)
(* of common/intconv and the types of common/hexint.go.  ByteBits is 8 and *)
(* Word, the bytes of an int64, is 8 in the code.  Nothing in it depends   *)
(* on these numbers, so that a small instance takes every branch: half a   *)
(* byte is a hexadecimal digit, int32 has half the bytes of int64, int16 a *)
(* quarter.                                                                *)
(***************************************************************************)
EXTENDS Integers, Sequences, SequencesExt

CONSTANTS ByteBits, Word

ASSUME IntConvAssumption == ByteBits \in Nat /\ Word \in Nat /\ ByteBits >= 2 /\ Word >= 1

B == 2 ^ ByteBits
Half == B \div 2                        \* 0x80
Byte == 0..B - 1
Unsigned(n) == 0..B ^ n - 1             \* integers of n bytes
Signed(n) == -(B ^ n \div 2)..B ^ n \div 2 - 1

\* An answer that may fail.
Ok(v) == [ok |-> TRUE, v |-> v]
Fail == [ok |-> FALSE, v |-> 0]

BytesForZero == <<0>>

\* The value of a big-endian byte string, the loop v = (v << 8) | b.
Value(bs) == FoldLeft(LAMBDA v, b : v * B + b, 0, bs)

RECURSIVE BitLen(_)
BitLen(v) == IF v = 0 THEN 0 ELSE 1 + BitLen(v \div 2)

\* big.Int.Bytes: the shortest string of a magnitude.
RECURSIVE Magnitude(_)
Magnitude(v) == IF v = 0 THEN <<>> ELSE Append(Magnitude(v \div B), v % B)

-----------------------------------------------------------------------------
\* Mutant: a byte for the sign of every positive number.
BigIntToBytesLong(i) ==
  IF i = 0 THEN BytesForZero
  ELSE IF i > 0 THEN <<0>> \o Magnitude(i)
  ELSE Magnitude(2 ^ (((BitLen(-(i + 1)) + ByteBits) \div ByteBits) * ByteBits) + i)

BigIntToBytes(i) ==
  IF i = 0 THEN BytesForZero
  ELSE IF i > 0
       THEN IF BitLen(i) % ByteBits = 0 THEN <<0>> \o Magnitude(i) ELSE Magnitude(i)
       ELSE LET bl == BitLen(-(i + 1))
            IN  Magnitude(2 ^ (((bl + ByteBits) \div ByteBits) * ByteBits) + i)

BigIntSetBytes(bs) ==
  IF bs # <<>> /\ bs[1] >= Half THEN Value(bs) - 2 ^ BitLen(Value(bs)) ELSE Value(bs)

\* The loops from the last byte, with room for n bytes.
RECURSIVE UintLoop(_, _)
UintLoop(v, n) ==
  LET tv == v % B
      rest == v \div B
  IN  IF n = 1 \/ (rest = 0 /\ tv < Half) THEN <<tv>> ELSE Append(UintLoop(rest, n - 1), tv)

Uint64ToBytes(v) == IF v = 0 THEN BytesForZero ELSE UintLoop(v, Word + 1)

RECURSIVE SizeLoop(_, _)
SizeLoop(v, n) ==
  IF n = 1 \/ v \div B = 0 THEN <<v % B>> ELSE Append(SizeLoop(v \div B, n - 1), v % B)

SizeToBytes(v) == IF v = 0 THEN BytesForZero ELSE SizeLoop(v, Word)

\* v & -0x80 is 0 for 0 <= v < 0x80, and -0x80 for -0x80 <= v < 0.
RECURSIVE IntLoop(_, _, _)
IntLoop(v, target, n) ==
  IF n = 1 \/ v \div Half = target THEN <<v % B>> ELSE Append(IntLoop(v \div B, target, n - 1), v % B)

Int64ToBytes(v) == IF v = 0 THEN BytesForZero ELSE IntLoop(v, IF v < 0 THEN -1 ELSE 0, Word)

SafeBytesToUint64(bs) ==
  IF bs = <<>> THEN Ok(0)
  ELSE IF bs[1] >= Half THEN Fail
  ELSE LET rest == IF bs[1] = 0 THEN Tail(bs) ELSE bs
       IN  IF Len(rest) > Word THEN Fail ELSE Ok(Value(rest))

SafeBytesToSize64(bs) == IF Len(bs) > Word THEN Fail ELSE Ok(Value(bs))

\* An int takes half of the sizes.
SafeBytesToSize(bs) ==
  LET s == SafeBytesToSize64(bs)
  IN  IF s.ok /\ s.v \in Signed(Word) THEN s ELSE Fail

SafeBytesToInt64(bs) ==
  IF bs = <<>> THEN Ok(0)
  ELSE IF Len(bs) > Word THEN Fail
  ELSE IF bs[1] >= Half
       THEN Ok(-Value([i \in DOMAIN bs |-> B - 1 - bs[i]]) - 1)
       ELSE Ok(Value(bs))

-----------------------------------------------------------------------------
\* The text of a number: a sign, what stands before the digits, and the digits.
BasePrefixes == {"", "0", "0x", "0X", "0o", "0b"}
Text(neg, prefix, digits) == [neg |-> neg, prefix |-> prefix, digits |-> digits]

Digit == 2 ^ (ByteBits \div 2)
HexDigits(bs) == FlattenSeq([i \in DOMAIN bs |-> <<bs[i] \div Digit, bs[i] % Digit>>])

encodeHexNumber(neg, bs) ==
  LET s == HexDigits(bs)
  IN  IF s = <<>> THEN Text(FALSE, "0x", <<0>>)
      ELSE Text(neg, "0x", IF s[1] = 0 THEN Tail(s) ELSE s)

FormatBigInt(i) == encodeHexNumber(i < 0, Magnitude(IF i < 0 THEN -i ELSE i))

\* uint64(-v): the smallest int64 is its own negative.
FormatInt(v) ==
  IF v < 0 THEN encodeHexNumber(TRUE, SizeToBytes((-v) % B ^ Word)) ELSE encodeHexNumber(FALSE, SizeToBytes(v))

FormatUint(v) == encodeHexNumber(FALSE, SizeToBytes(v))

SetString(x, base) ==
  LET m == FoldLeft(LAMBDA v, d : v * base + d, 0, x.digits)
  IN  IF x.digits = <<>> \/ \E i \in DOMAIN x.digits : x.digits[i] >= base THEN Fail
      ELSE Ok(IF x.neg THEN -m ELSE m)

\* Base 0 of strconv, where the prefix tells the base.
BaseZero(x) ==
  SetString(x, CASE x.prefix \in {"0x", "0X"} -> Digit [] x.prefix \in {"0o", "0"} -> 8
                 [] x.prefix = "0b" -> 2 [] OTHER -> 10)

ParseInt(x, n) == LET r == BaseZero(x) IN IF r.ok /\ r.v \in Signed(n) THEN r ELSE Fail
ParseUint(x, n) == LET r == BaseZero(x) IN IF ~x.neg /\ r.ok /\ r.v \in Unsigned(n) THEN r ELSE Fail

\* A number that begins with 0 is decimal, and of the prefixes only 0x is taken.
ParseBigInt(x) ==
  CASE x.prefix \in {"0X", "0o", "0b"} -> Fail
    [] x.prefix = "0x" -> SetString(x, Digit)
    [] OTHER -> SetString(x, 10)

\* HexBytes and RawHexBytes, <<>> for nil and <<bs>> otherwise: null for nil, and
\* the digits with or without 0x.
HexBytesText(x, raw) ==
  IF x = <<>> THEN [null |-> TRUE] ELSE [null |-> FALSE, prefix |-> ~raw, digits |-> HexDigits(x[1])]

\* hex.DecodeString; the raw type does not take the prefix away, and fails on it.
HexBytesParse(t, raw) ==
  IF t.null THEN Ok(<<>>)
  ELSE IF (raw /\ t.prefix) \/ Len(t.digits) % 2 = 1 THEN Fail
  ELSE Ok(<<[i \in 1..Len(t.digits) \div 2 |-> t.digits[2 * i - 1] * Digit + t.digits[2 * i]]>>)

-----------------------------------------------------------------------------
\* The types of hexint.go: their values, and the types through which a value is
\* formatted, parsed, and written and read as RLP.
HexType(type, text, code) == [type |-> type, text |-> text, code |-> code]

int64 == <<"int", Word>>
uint64 == <<"uint", Word>>
HexInt16 == HexType(<<"int", Word \div 4>>, int64, int64)
HexUint16 == HexType(<<"uint", Word \div 4>>, int64, int64)
HexInt32 == HexType(<<"int", Word \div 2>>, int64, int64)
HexUint32 == HexType(<<"uint", Word \div 2>>, uint64, int64)
HexInt64 == HexType(int64, int64, int64)
HexUint64 == HexType(uint64, uint64, uint64)
HexTypes == {HexInt16, HexUint16, HexInt32, HexUint32, HexInt64, HexUint64}

TypeRange(type) == IF type[1] = "int" THEN Signed(type[2]) ELSE Unsigned(type[2])

HexString(t, v) == IF t.text = int64 THEN FormatInt(v) ELSE FormatUint(v)
HexParse(t, x) == IF t.type[1] = "int" THEN ParseInt(x, t.type[2]) ELSE ParseUint(x, t.type[2])
HexEncode(t, v) == IF t.code = int64 THEN Int64ToBytes(v) ELSE Uint64ToBytes(v)

\* readUintValue and readIntValue: the value must be one of the type's.
ReadValue(type, bs) ==
  LET r == IF type[1] = "int" THEN SafeBytesToInt64(bs) ELSE SafeBytesToUint64(bs)
  IN  IF r.ok /\ r.v \in TypeRange(type) THEN r ELSE Fail
=============================================================================
