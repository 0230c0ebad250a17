-------------------------------- MODULE RLP --------------------------------
(***************************************************************************)
(* The RLP writer and reader of common/codec/rlp.go.  A tag is a byte: the *)
(* first half of them are bytes themselves, the third quarter are the      *)
(* lengths of byte strings, the last one those of lists.  With B = 256 and *)
(* Word = 8 these are 0x80, 0xB7, 0xC0 and 0xF7.                           *)
(***************************************************************************)
EXTENDS IntConv

TagBytes == Half                          \* 0x80
TagList == Half + B \div 4                \* 0xC0
MaxShort == B \div 4 - 1 - Word           \* 55
MaxInt == B ^ Word \div 2 - 1

ASSUME RLPAssumption == MaxShort >= 1

-----------------------------------------------------------------------------
(* The writer.  What it writes are byte strings; a list is written from    *)
(* the bytes of its items when its writer is closed.                       *)

nullSequence == <<TagList + MaxShort + 1, 0>>

writeBytes(b) ==
  IF b = <<>> THEN <<TagBytes>>
  ELSE IF Len(b) = 1 /\ b[1] < TagBytes THEN b
  ELSE IF Len(b) <= MaxShort THEN <<TagBytes + Len(b)>> \o b
  ELSE LET sz == SizeToBytes(Len(b)) IN <<TagBytes + MaxShort + Len(sz)>> \o sz \o b

\* Mutant: a list of the greatest short length has a long header.
writeListLong(b) ==
  IF b = <<>> THEN <<TagList>>
  ELSE IF Len(b) < MaxShort THEN <<TagList + Len(b)>> \o b
  ELSE LET sz == SizeToBytes(Len(b)) IN <<TagList + MaxShort + Len(sz)>> \o sz \o b

writeList(b) ==
  IF b = <<>> THEN <<TagList>>
  ELSE IF Len(b) <= MaxShort THEN <<TagList + Len(b)>> \o b
  ELSE LET sz == SizeToBytes(Len(b)) IN <<TagList + MaxShort + Len(sz)>> \o sz \o b

\* The writer of a list buffers what is written, and writes it as a list to the
\* writer p around it when it is closed.  (The number of items, which is checked
\* for maps, is always even: they are written in pairs.)
NewWriter == <<>>
Write(w, b) == w \o b
CloseInto(p, w) == Write(p, writeList(w))

-----------------------------------------------------------------------------
(* The reader: the bytes that are left, and the readers of the lists that  *)
(* are open, the outermost first, with what is left of each one's limit.   *)
(* Reading at a depth takes from all the readers around it.                *)

NewReader(bs, maxSB) == [in |-> bs, lists |-> <<>>, maxSB |-> maxSB]
MaxSB(r) == IF r.lists = <<>> THEN r.maxSB ELSE Last(r.lists).maxSB

\* An answer of the reader: err is "" or one of the errors callers tell apart.
\* Then goes on with an answer unless it is an error.  (The set makes TLC evaluate
\* the answer once.)
Answer(v, r) == [err |-> "", v |-> v, r |-> r]
Error(err, r) == [err |-> err, v |-> <<>>, r |-> r]
Answered(a) == a.err = ""
Once(x, Op(_)) == CHOOSE y \in {Op(v) : v \in {x}} : TRUE
Then(a, Op(_)) == Once(a, LAMBDA x : IF Answered(x) THEN Op(x) ELSE x)

Available(r) ==
  FoldLeft(LAMBDA n, l : IF l.left < n THEN l.left ELSE n, Len(r.in), r.lists)
Advance(r, n) ==
  [r EXCEPT !.in = SubSeq(@, n + 1, Len(@)),
            !.lists = [i \in DOMAIN @ |-> [@[i] EXCEPT !.left = @ - n]]]

\* io.ReadFull on the chain of limitReaders: EOF only at the end of the innermost.
ReadFull(r, n) ==
  LET atEnd == IF r.lists = <<>> THEN r.in = <<>> ELSE Last(r.lists).left <= 0
  IN  IF n <= Available(r) THEN Answer(SubSeq(r.in, 1, n), Advance(r, n))
      ELSE Error(IF Available(r) = 0 /\ atEnd THEN "EOF" ELSE "invalid", r)

readAll(r, n) == Once(ReadFull(r, n), LAMBDA a : IF a.err = "EOF" THEN Error("invalid", a.r) ELSE a)

\* The header of an item: what it is, its bytes, and the size of the item.
Header(kind, head, size, r) == Answer([kind |-> kind, head |-> head, size |-> size], r)

LongHeader(kind, tag, n, r) ==
  Then(readAll(r, n), LAMBDA a :
    IF SafeBytesToSize(a.v).ok THEN Header(kind, tag \o a.v, SafeBytesToSize(a.v).v, a.r)
    ELSE Error("invalid", a.r))

ReadHeader(r) ==
  Then(ReadFull(r, 1), LAMBDA a :
    LET tag == a.v[1]
    IN  IF tag < TagBytes THEN Header("byte", a.v, 0, a.r)
        ELSE IF tag <= TagBytes + MaxShort THEN Header("bytes", a.v, tag - TagBytes, a.r)
        ELSE IF tag < TagList THEN LongHeader("longBytes", a.v, tag - TagBytes - MaxShort, a.r)
        ELSE IF tag <= TagList + MaxShort THEN Header("list", a.v, tag - TagList, a.r)
        ELSE LongHeader("longList", a.v, tag - TagList - MaxShort, a.r))

\* io.CopyN: as readAll, without the bytes.
skipN(r, n) == Then(readAll(r, n), LAMBDA a : Answer(<<>>, a.r))

skipOne(r) == Then(ReadHeader(r), LAMBDA h : skipN(h.r, h.v.size))

RECURSIVE Skip(_, _)
Skip(r, cnt) == IF cnt = 0 THEN Answer(<<>>, r) ELSE Then(skipOne(r), LAMBDA a : Skip(a.r, cnt - 1))

\* The null sequence is a long list whose length is one byte, 0.
IsNull(h) == h.kind = "longList" /\ Len(h.head) = 2 /\ h.size = 0

readList(r) ==
  Then(ReadHeader(r), LAMBDA h :
    IF h.v.kind \notin {"list", "longList"} THEN Error("invalid", h.r)
    ELSE IF IsNull(h.v) THEN Error("nil", h.r)
    ELSE Answer(<<>>, [h.r EXCEPT !.lists = Append(@,
           [left |-> h.v.size, maxSB |-> IF MaxSB(r) < h.v.size THEN MaxSB(r) ELSE h.v.size])]))

readBytes(r) ==
  Then(ReadHeader(r), LAMBDA h :
    IF h.v.kind = "byte" THEN Answer(h.v.head, h.r)
    ELSE IF h.v.kind = "bytes" \/ (h.v.kind = "longBytes" /\ h.v.size <= MaxSB(r)) THEN readAll(h.r, h.v.size)
    ELSE Error(IF IsNull(h.v) THEN "nil" ELSE "invalid", h.r))

\* size+len(org) is an int: beyond MaxInt it is negative, and no buffer is made.
readMore(r, org, size) ==
  IF size + Len(org) > MaxInt THEN Error("panic", r)
  ELSE IF size + Len(org) > MaxSB(r) THEN Error("invalid", r)
  ELSE Then(readAll(r, size), LAMBDA a : Answer(org \o a.v, a.r))

ReadRaw(r) ==
  Then(ReadHeader(r), LAMBDA h :
    IF h.v.kind = "byte" THEN Answer(h.v.head, h.r) ELSE readMore(h.r, h.v.head, h.v.size))

\* Close of the reader of the innermost list: io.Copy discards what is left in it,
\* up to the end.
CloseList(r) ==
  Once(ReadFull(Advance(r, Available(r)), 1), LAMBDA a :
    IF a.err = "EOF" THEN Answer(<<>>, [a.r EXCEPT !.lists = SubSeq(@, 1, Len(@) - 1)]) ELSE a)
=============================================================================
