--------------------------- MODULE BTP2Receiver ---------------------------
(***************************************************************************)
(* chain/icon/btp2: the receiver of a link whose source is a BTP network.  *)
(*                                                                         *)
(* Three goroutines touch the receiver.  The monitor goroutine gets block  *)
(* notifications over a websocket, appends to b.rss and hands every status *)
(* to the link over the unbuffered channel b.rsc.  The FinalizedStatus     *)
(* goroutine takes delivered positions from the link and forgets what they *)
(* cover.  The link's own goroutines call BuildBlockUpdate and             *)
(* BuildMessageProof, which only read.                                     *)
(*                                                                         *)
(* The LevelDB file survives the process: the set of stored block heights  *)
(* (keys "H|" + big-endian height) and the last height the source reported *)
(* progress for ("LastReceiveHeight").                                     *)
(***************************************************************************)
EXTENDS SourceChain, Lists

CONSTANTS
  KeyBase,         \* values of one key byte (256 in the code)
  StartHeight,     \* b.startHeight: the network's first block, not relayed
  BlockUpdateSize, \* bytes of an encoded block update
  MessageSize      \* bytes a message adds to an encoded message proof

ASSUME ReceiverAssumption ==
  /\ KeyBase \in Nat \ {0, 1}
  /\ StartHeight \in Nat
  /\ BlockUpdateSize \in Nat
  /\ MessageSize \in Nat \ {0}

VARIABLES
  brss,        \* b.rss: statuses received and not yet known as delivered
  bseq,        \* b.seq
  cursor,      \* height of the last notification the monitor has handled
  rsc,         \* the status the monitor is blocked on sending, or NoStatus
  blsc,        \* the position FinalizedStatus is working on, or NoPosition
  slices,      \* slices the monitor ("mon") and the FinalizedStatus ("fin")
               \* goroutine have read from b.rss and are about to store back
  db,          \* heights stored under ReceiveBlockPrefix
  lastHeight   \* the stored LastReceiveHeight, 0 when absent

rcvVars == <<brss, bseq, cursor, rsc, blsc, slices, db, lastHeight>>

Heights == BlockHeights \union {0}
ReceiveStatus == [height : BlockHeights, seq : Int]
Position == [height : Heights, rxSeq : Int]
NoStatus == [height |-> 0, seq |-> 0]
NoPosition == [height |-> 0, rxSeq |-> 0]
NoSlices == [mon |-> <<>>, fin |-> <<>>]  \* at most one slice each

-----------------------------------------------------------------------------
(***************************************************************************)
(* The database.  A key is the minimal big-endian byte string of the       *)
(* height, and LevelDB orders keys bytewise: a longer key may sort before  *)
(* a shorter one, so the order is that of heights only among keys of the   *)
(* same length.                                                            *)
(***************************************************************************)
KeyLength(h) == CHOOSE n \in 1..(h + 1) :
                  h < KeyBase^n /\ (n = 1 \/ KeyBase^(n - 1) <= h)

\* h's key as a number of w bytes, padded on the right.
KeyPadded(h, w) == h * KeyBase^(w - KeyLength(h))

KeyBefore(g, h) ==
  LET w == KeyLength(g + h)
  IN  \/ KeyPadded(g, w) < KeyPadded(h, w)
      \/ KeyPadded(g, w) = KeyPadded(h, w) /\ KeyLength(g) < KeyLength(h)

\* The heights of the network's blocks have keys that sort as the heights do.
KeysOrdered == \A g, h \in BlockHeights \union {0} : KeyBefore(g, h) <=> g < h

FirstKeys(heights) ==
  {h \in heights : \A g \in heights \ {h} : KeyBefore(h, g)}

getFirstHeightForReceiveBlock(heights) ==
  IF FirstKeys(heights) = {} THEN 0 ELSE CHOOSE h \in FirstKeys(heights) : TRUE

\* "if iter.Next()" visits one key, so one block is deleted.
removeAllReceiveBlock(heights) == heights \ FirstKeys(heights)

\* Mutant: the iterator runs forward from the key it has sought.
removeReceiveBlockForward(heights, height) == {h \in heights : KeyBefore(h, height)}

\* Seek finds a key that is not before height's; Prev then visits all keys
\* before it.  When Seek finds none, only height's own key is deleted.
removeReceiveBlockByHeight(heights, height) ==
  IF \E h \in heights : ~KeyBefore(h, height)
  THEN {h \in heights : h # height /\ ~KeyBefore(h, height)}
  ELSE heights \ {height}

-----------------------------------------------------------------------------
(***************************************************************************)
(* Building blocks of relay messages.                                      *)
(***************************************************************************)
\* Index in rss of the status for height, 0 if there is none.
indexForHeight(rss, height) ==
  SelectInSeq(rss, LAMBDA rs : rs.height = height)

getReceiveStatusForHeight(rss, height) ==
  IF indexForHeight(rss, height) = 0 THEN NoStatus
  ELSE rss[indexForHeight(rss, height)]

\* Mutant: one entry too far.
nextReceiveIndexFar(bls) ==
  LET i == SelectInSeq(brss, LAMBDA rs : bls.height <= rs.height)
  IN  IF i # 0 /\ brss[i].height = bls.height /\ i + 2 <= Len(brss) THEN i + 2 ELSE i

\* The index nextReceiveStatus is going to read in b.rss: the entry after
\* the one for bls's height, or else the first one above it; 0 for nil.
nextReceiveIndex(bls) ==
  LET i == SelectInSeq(brss, LAMBDA rs : bls.height <= rs.height)
  IN  IF i # 0 /\ brss[i].height = bls.height THEN i + 1 ELSE i

\* Encoded size of a proof of n messages.
ProofSize(n) == n * MessageSize

\* An item of a relay message: the places in their block of the first and last
\* message it proves (0 in a block update), and the position its
\* UpdateBMCLinkStatus sets.
Item == [first : Nat, last : Nat, height : Heights, rxSeq : Int]
NoItem == [first |-> 0, last |-> 0, height |-> 0, rxSeq |-> 0]

\* Mutant: the limit is not looked at.
BuildMessageProofWhole(bls, limit) ==
  LET rs     == getReceiveStatusForHeight(brss, bls.height)
      cnt    == MessageCount(bls.height)
      offset == bls.rxSeq - (rs.seq - cnt)
  IN  IF rs = NoStatus \/ bls.rxSeq = rs.seq THEN NoItem
      ELSE [first |-> offset + 1, last |-> cnt, height |-> bls.height, rxSeq |-> bls.rxSeq + cnt]

\* The proof of a range of messages of block bls.height.  The range ends with
\* the first message that takes the proof over limit.
BuildMessageProof(bls, limit) ==
  LET rs     == getReceiveStatusForHeight(brss, bls.height)
      cnt    == MessageCount(bls.height)
      offset == bls.rxSeq - (rs.seq - cnt)
      over   == {i \in (offset + 1)..(cnt - 1) : limit < ProofSize(i - offset)}
      last   == IF over = {} THEN cnt ELSE Min(over)
  IN  IF rs = NoStatus \/ bls.rxSeq = rs.seq THEN NoItem
      ELSE [first |-> offset + 1, last |-> last,
            height |-> bls.height, rxSeq |-> bls.rxSeq + last]

\* mbt.Proof rejects a range that is not one of the block's.
ValidProof(bls, mp) ==
  1 <= mp.first /\ mp.first <= mp.last /\ mp.last <= MessageCount(bls.height)

-----------------------------------------------------------------------------
(***************************************************************************)
(* Goroutines.                                                             *)
(***************************************************************************)
\* monitoring: where to resume, from the BMC's position and the database.
resumeHeight(bls, blocks, last) ==
  LET fb == getFirstHeightForReceiveBlock(blocks)
  IN  IF bls.height > last THEN bls.height
      ELSE IF fb # 0 /\ bls.height > fb THEN bls.height
      ELSE IF fb > bls.height THEN fb - 1
      ELSE last

\* Start and monitoring, up to the request: the database as RxSeq < 1 leaves
\* it, the resume height (the request asks for the height after it), and the
\* database as the chosen case leaves it.
StartReceiver(bls) ==
  LET wipe   == bls.rxSeq < 1
      blocks == IF wipe THEN {} ELSE db
      last   == IF wipe THEN 0 ELSE lastHeight
  IN  /\ brss' = <<>>
      /\ bseq' = IF bls.rxSeq = 0 THEN 0 ELSE bls.rxSeq + SequenceOffset
      /\ cursor' = resumeHeight(bls, blocks, last)
      /\ rsc' = NoStatus
      /\ blsc' = NoPosition
      /\ slices' = NoSlices
      /\ db' = IF bls.height > last THEN {} ELSE removeAllReceiveBlock(blocks)
      /\ lastHeight' = IF bls.height > last THEN 0 ELSE last

\* The monitor's callback may run: it is not blocked on sending a status.
Notified == rsc = NoStatus /\ slices.mon = <<>>

\* A notification without a header: the source has scanned up to a height
\* below its next BTP block.
MonitorProgress ==
  /\ Notified
  /\ \E n \in (cursor + 1)..(Max(BlockHeights) + 1) :
       /\ BlockHeights \intersect (cursor + 1)..n = {}
       /\ lastHeight' = n
       /\ cursor' = n
  /\ UNCHANGED <<brss, bseq, rsc, blsc, slices, db>>

\* Mutant: the block after the network's first one is passed over too.
MonitorBlockLate ==
  /\ Notified
  /\ \E k \in BlockHeights :
       /\ IsNext(cursor, k)
       /\ cursor' = k
       /\ IF k <= StartHeight + 1
          THEN UNCHANGED <<bseq, db, slices>>
          ELSE /\ MessageCount(k) # 0 => StartSeq(k) = bseq
               /\ bseq' = bseq + MessageCount(k)
               /\ db' = db \union {k}
               /\ slices' = [slices EXCEPT !.mon = <<brss>>]
  /\ UNCHANGED <<brss, rsc, blsc, lastHeight>>

\* A notification with the header of the next BTP block, in sequence, and the
\* read of b.rss in "b.rss = append(b.rss, rs)".
MonitorBlock ==
  /\ Notified
  /\ \E k \in BlockHeights :
       /\ IsNext(cursor, k)
       /\ cursor' = k
       /\ IF k = StartHeight
          THEN UNCHANGED <<bseq, db, slices>>
          ELSE /\ MessageCount(k) # 0 => StartSeq(k) = bseq
               /\ bseq' = bseq + MessageCount(k)
               /\ db' = db \union {k}
               /\ slices' = [slices EXCEPT !.mon = <<brss>>]
  /\ UNCHANGED <<brss, rsc, blsc, lastHeight>>

\* b.rss is stored; "b.rsc <- rs".
SendReceiveStatus ==
  /\ slices.mon # <<>>
  /\ rsc' = [height |-> cursor, seq |-> bseq]
  /\ brss' = Append(slices.mon[1], rsc')
  /\ slices' = [slices EXCEPT !.mon = <<>>]
  /\ UNCHANGED <<bseq, cursor, blsc, db, lastHeight>>

\* "invalid seq": the callback's error closes the monitor, whose error the
\* link reports; the process ends.
InvalidSeq ==
  /\ Notified
  /\ \E k \in BlockHeights \ {StartHeight} :
       /\ IsNext(cursor, k)
       /\ MessageCount(k) # 0
       /\ StartSeq(k) # bseq

Covers(bls, rs) == rs.height <= bls.height /\ rs.seq <= bls.rxSeq

Cleared(bls) == DropThrough(brss, LAMBDA rs : Covers(bls, rs))

\* removeReceiveBlockByHeight, and clearReceiveStatus up to the read of b.rss.
FinalizedStatus ==
  /\ blsc # NoPosition
  /\ slices.fin = <<>>
  /\ db' = removeReceiveBlockByHeight(db, blsc.height)
  /\ IF \E i \in DOMAIN brss : Covers(blsc, brss[i])
     THEN /\ slices' = [slices EXCEPT !.fin = <<Cleared(blsc)>>]
          /\ UNCHANGED blsc
     ELSE /\ blsc' = NoPosition
          /\ UNCHANGED slices
  /\ UNCHANGED <<brss, bseq, cursor, rsc, lastHeight>>

clearReceiveStatus ==
  /\ slices.fin # <<>>
  /\ brss' = slices.fin[1]
  /\ slices' = [slices EXCEPT !.fin = <<>>]
  /\ blsc' = NoPosition
  /\ UNCHANGED <<bseq, cursor, rsc, db, lastHeight>>

ReceiverTypeOK ==
  /\ brss \in Seq(ReceiveStatus)
  /\ bseq \in Int
  /\ cursor \in Nat
  /\ rsc \in ReceiveStatus \union {NoStatus}
  /\ blsc \in Position
  /\ slices \in [{"mon", "fin"} -> {<<>>} \union [{1} -> Seq(ReceiveStatus)]]
  /\ db \subseteq BlockHeights
  /\ lastHeight \in Nat
=============================================================================
