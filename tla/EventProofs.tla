----------------------------- MODULE EventProofs -----------------------------
(***************************************************************************)
(* How the receivers that prove messages by events, ethbr and bridge, make *)
(* a message proof from their list of statuses.  A status has a height, a  *)
(* sequence number seq (what its Seq() answers) and, for ethbr, startSeq   *)
(* and the receipts rps, each a sequence of events; for bridge, events.    *)
(* An item of a relay message has the events of its payload, in order and  *)
(* with repetitions, and last, the sequence number it takes the position   *)
(* to.                                                                     *)
(***************************************************************************)
EXTENDS Integers, Sequences, SequencesExt

CONSTANTS PointerSize,     \* sizeOfEvent: the size of a pointer
          MessageSize      \* bytes that an event adds to a payload

\* Op over a sequence, with each result evaluated once.
Fold(Op(_, _), base, s) ==
  FoldLeft(LAMBDA x, e : CHOOSE r \in {Op(v, e) : v \in {x}} : TRUE, base, s)

NewMessageProof(events, last) ==
  [kind |-> "mp", events |-> events, last |-> last, size |-> MessageSize * Len(events)]

NilProof == [kind |-> "nil", events |-> <<>>, last |-> 0, size |-> 0]

\* The code would index a slice out of its range.
PanicProof == [kind |-> "panic", events |-> <<>>, last |-> 0, size |-> 0]

\* A block update has no payload.
NewBlockUpdate == [kind |-> "bu", events |-> <<>>, last |-> 0, size |-> 0]

-----------------------------------------------------------------------------
\* ethbr: one event.  rps gets the receipt again for each of its events; the
\* limit is compared with the size of pointers.
TakeEvent(acc, e, limit) ==
  IF acc.full \/ e.seq # acc.seq THEN acc
  ELSE IF limit < acc.size + PointerSize /\ acc.size > 0
       THEN [acc EXCEPT !.copies = @ + 1, !.full = TRUE]
       ELSE [acc EXCEPT !.copies = @ + 1, !.trp = Append(@, e), !.size = @ + PointerSize, !.seq = @ + 1]

\* Mutant: the last receipt is removed when it is not empty.
TakeReceiptRemoves(acc, rp, limit) ==
  LET a == Fold(LAMBDA x, e : TakeEvent(x, e, limit),
                [acc EXCEPT !.trp = <<>>, !.copies = 0], rp)
  IN  IF acc.full \/ acc.panic THEN acc
      ELSE [a EXCEPT !.rps = @ \o [i \in 1..a.copies - 1 |-> a.trp], !.full = @ \/ limit < a.size]

\* One receipt.  When none of its events was taken the last receipt is removed.
TakeReceipt(acc, rp, limit) ==
  LET a == Fold(LAMBDA x, e : TakeEvent(x, e, limit),
                [acc EXCEPT !.trp = <<>>, !.copies = 0], rp)
      rps == acc.rps \o [i \in 1..a.copies |-> a.trp]
  IN  IF acc.full \/ acc.panic THEN acc
      ELSE IF a.full \/ limit < a.size THEN [a EXCEPT !.rps = rps, !.full = TRUE]
      ELSE IF a.trp # <<>> THEN [a EXCEPT !.rps = rps]
      ELSE IF acc.rps = <<>> THEN [a EXCEPT !.panic = TRUE]
      ELSE [a EXCEPT !.rps = Front(@)]

EthMessageProof(list, bls, limit) ==
  LET seq == bls.rxSeq + 1
      i == SelectInSeq(list, LAMBDA rs : rs.startSeq <= seq /\ seq <= rs.seq)
      a == Fold(LAMBDA x, rp : TakeReceipt(x, rp, limit),
                [seq |-> seq, rps |-> <<>>, trp |-> <<>>, copies |-> 0, size |-> 0,
                 full |-> FALSE, panic |-> FALSE], list[i].rps)
  IN  IF i = 0 THEN NilProof
      ELSE IF a.panic THEN PanicProof
      ELSE NewMessageProof(FlattenSeq(a.rps), a.seq - 1)

-----------------------------------------------------------------------------
\* bridge: where the events of the proof begin, from 0, as if seq were the number
\* of the block's last message; it is that of the first.
Offset(rs, bls) == bls.rxSeq - (rs.seq - Len(rs.events))

BridgeMessageProof(list, bls, limit) ==
  LET i == SelectInSeq(list, LAMBDA rs : rs.seq = bls.rxSeq + 1)
      rs == list[i]
      cnt == Len(rs.events)
      from == Offset(rs, bls)
      fits == (IF limit < 0 THEN 0 ELSE limit \div PointerSize)     \* events within the limit
      n == IF from + fits < cnt THEN from + fits ELSE cnt           \* the first one left out
  IN  IF i = 0 THEN NilProof
      ELSE IF from < 0 THEN PanicProof
      ELSE NewMessageProof(SubSeq(rs.events, from + 1, n), bls.rxSeq + n)
=============================================================================
