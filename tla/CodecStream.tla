---------------------------- MODULE CodecStream ----------------------------
(***************************************************************************)
(* The encoder and the decoder of common/codec/codec.go as objects that    *)
(* callers use step by step: an encoder hands out one for a list in it,    *)
(* and closes that one when it is used again itself; a decoder likewise,   *)
(* and what has not been read of the list is discarded then.  Callers use  *)
(* the encoder or decoder of any list that is still open; the one of depth *)
(* 1 is the outermost.  The items that were encoded are kept as trees.     *)
(***************************************************************************)
EXTENDS RLPItems

CONSTANTS Atoms,          \* byte strings that are encoded
          MaxItems, MaxDepth, MaxReads

VARIABLES ws,             \* the writers of the open lists, the outermost first
          built,          \* the items encoded in each of them
          phase,          \* "write", then "read"
          rd,             \* the reader, with the lists that are open
          at,             \* how many items have been passed in each of them
          got,            \* the answer to the last call, and what should be there
          reads
vars == <<ws, built, phase, rd, at, got, reads>>

Result(err, v) == [err |-> err, v |-> v]

Init ==
  /\ ws = <<NewWriter>> /\ built = << <<>> >>
  /\ phase = "write"
  /\ rd = NewReader(<<>>, 0) /\ at = <<0>> /\ got = [read |-> Result("", <<>>), want |-> Result("", <<>>)] /\ reads = 0

-----------------------------------------------------------------------------
\* encoderImpl.flush of the encoder at depth d, and the same for the trees.
RECURSIVE flush(_, _)
flush(w, d) ==
  LET n == Len(w)
  IN  IF n = d THEN w ELSE flush(Append(SubSeq(w, 1, n - 2), CloseInto(w[n - 1], w[n])), d)

RECURSIVE Joined(_, _)
Joined(b, d) ==
  LET n == Len(b)
  IN  IF n = d THEN b
      ELSE Joined(Append(SubSeq(b, 1, n - 2), Append(b[n - 1], Item("list", b[n]))), d)

RECURSIVE Count(_)
Count(items) ==
  LET sub(i) == IF i.t = "list" THEN Count(i.v) ELSE 0
  IN  FoldLeft(LAMBDA n, i : n + 1 + sub(i), 0, items)

Room == Count(Joined(built, 1)[1]) < MaxItems

Encode(d, item) ==
  /\ phase = "write" /\ Room /\ d \in DOMAIN ws
  /\ ws' = [flush(ws, d) EXCEPT ![d] = Write(@, WriteItems(<<item>>))]
  /\ built' = [Joined(built, d) EXCEPT ![d] = Append(@, item)]
  /\ UNCHANGED <<phase, rd, at, got, reads>>

EncodeList(d) ==
  /\ phase = "write" /\ Room /\ d \in DOMAIN ws /\ d < MaxDepth
  /\ ws' = Append(flush(ws, d), NewWriter)
  /\ built' = Append(Joined(built, d), <<>>)
  /\ UNCHANGED <<phase, rd, at, got, reads>>

\* EncodeListOf: a list with its items, closed at once.
EncodeListOf(d, items) ==
  /\ phase = "write" /\ Room /\ d \in DOMAIN ws
  /\ ws' = [flush(ws, d) EXCEPT ![d] = CloseInto(@, Write(NewWriter, WriteItems(items)))]
  /\ built' = [Joined(built, d) EXCEPT ![d] = Append(@, Item("list", items))]
  /\ UNCHANGED <<phase, rd, at, got, reads>>

\* Close of the outermost encoder, and a decoder for what it has written.
Close ==
  /\ phase = "write"
  /\ ws' = flush(ws, 1) /\ built' = Joined(built, 1)
  /\ phase' = "read"
  /\ rd' = NewReader(ws'[1], Len(ws'[1])) /\ at' = <<0>>
  /\ UNCHANGED <<got, reads>>

-----------------------------------------------------------------------------
\* Mutant: what has not been read of the list is not discarded.
flushedKept(r, d) == Answer(<<>>, [r EXCEPT !.lists = SubSeq(@, 1, d - 1)])

\* decoderImpl.flush of the decoder at depth d: the reader of its list is closed;
\* the readers of lists within that one are not used any more.
flushed(r, d) ==
  IF Len(r.lists) < d THEN Answer(<<>>, r) ELSE CloseList([r EXCEPT !.lists = SubSeq(@, 1, d)])

\* The items of the list that is open at depth d, and whether there is a next one.
RECURSIVE Within(_, _)
Within(items, path) == IF path = <<>> THEN items ELSE Within(items[Head(path)].v, Tail(path))
ItemsAt(d) == Within(built[1], SubSeq(at, 1, d - 1))
Passed(d, n) == [SubSeq(at, 1, d) EXCEPT ![d] = @ + n]
Next1(d) == ItemsAt(d)[at[d] + 1]
HasNext(d) == at[d] < Len(ItemsAt(d))

Calling(d) == phase = "read" /\ reads < MaxReads /\ d \in DOMAIN at
Called == reads' = reads + 1 /\ UNCHANGED <<ws, built, phase>>

\* A caller decodes an item as what it is.
DecodeBytes(d) ==
  /\ Calling(d)
  /\ HasNext(d) => Next1(d).t # "list"
  /\ LET a == Then(flushed(rd, d), LAMBDA f : readBytes(f.r))
     IN  /\ rd' = a.r
         /\ got' = [read |-> Result(a.err, a.v),
                    want |-> IF ~HasNext(d) THEN Result("EOF", <<>>)
                             ELSE Result(IF Next1(d).t = "null" THEN "nil" ELSE "", Next1(d).v)]
  /\ at' = Passed(d, IF HasNext(d) THEN 1 ELSE 0)
  /\ Called

DecodeList(d) ==
  /\ Calling(d)
  /\ HasNext(d) => Next1(d).t = "list"
  /\ LET a == Then(flushed(rd, d), LAMBDA f : readList(f.r))
     IN  /\ rd' = a.r
         /\ got' = [read |-> Result(a.err, a.v), want |-> Result(IF HasNext(d) THEN "" ELSE "EOF", <<>>)]
  /\ at' = IF HasNext(d) THEN Append(Passed(d, 1), 0) ELSE Passed(d, 0)
  /\ Called

SkipItems(d, n) ==
  /\ Calling(d)
  /\ LET a == Then(flushed(rd, d), LAMBDA f : Skip(f.r, n))
         left == Len(ItemsAt(d)) - at[d]
     IN  /\ rd' = a.r
         /\ got' = [read |-> Result(a.err, a.v), want |-> Result(IF n <= left THEN "" ELSE "EOF", <<>>)]
         /\ at' = Passed(d, IF n <= left THEN n ELSE left)
  /\ Called

Items1 == {Item("null", <<>>)} \cup {Item("bytes", b) : b \in Atoms}

Next ==
  \/ \E d \in 1..MaxDepth : EncodeList(d) \/ DecodeBytes(d) \/ DecodeList(d)
  \/ \E d \in 1..MaxDepth, item \in Items1 : Encode(d, item)
  \/ \E d \in 1..MaxDepth, i, j \in Items1 : EncodeListOf(d, <<i, j>>)
  \/ \E d \in 1..MaxDepth, n \in 1..2 : SkipItems(d, n)
  \/ Close
Spec == Init /\ [][Next]_vars

-----------------------------------------------------------------------------
\* Whatever order the encoders of nested lists are used in, what has been written,
\* once the open lists are closed, is read as the items in the order of the calls.
EncodedIsTree ==
  phase = "write" =>
    LET out == flush(ws, 1)[1]
    IN  Items(NewReader(out, Len(out))) = Answer(Joined(built, 1)[1], NewReader(<<>>, Len(out)))

\* Whatever the callers leave unread, skip or run past the end of, every call of a
\* decoder finds the item that is next in its own list.
DecoderAligned == got.read = got.want
=============================================================================
