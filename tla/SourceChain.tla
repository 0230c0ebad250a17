---------------------------- MODULE SourceChain ----------------------------
(***************************************************************************)
(* The BTP network of the source chain, as the relay sees it.  The chain   *)
(* is not part of the repository; what is stated here is what the btp2     *)
(* receiver relies on: BTP blocks exist at some main heights, in           *)
(* increasing order, and carry consecutively numbered messages.  The       *)
(* message numbers of a block are known from its header                    *)
(* (UpdateNumber >> 1 is the number of messages sent before the block).    *)
(***************************************************************************)
EXTENDS Integers, FiniteSets

CONSTANTS
  BlockHeights,  \* main heights at which the network has a BTP block
  EndSeq,        \* EndSeq[h]: messages sent up to and including block h
  SequenceOffset \* messages sent before the link's first one (the verifier's
                 \* vs.SequenceOffset): the BMC counts from there

ASSUME BlockHeightsAssumption == BlockHeights \subseteq Nat \ {0}

ASSUME SequenceOffsetAssumption == SequenceOffset \in Nat

ASSUME EndSeqAssumption ==
  /\ EndSeq \in [BlockHeights -> Nat]
  /\ \A g, h \in BlockHeights : g < h => EndSeq[g] <= EndSeq[h]

\* Block k is the BTP block that follows height h.
IsNext(h, k) ==
  /\ k \in BlockHeights
  /\ h < k
  /\ \A j \in BlockHeights : h < j => k <= j

\* Messages sent before block h: bh.UpdateNumber >> 1.
StartSeq(h) ==
  LET before == {EndSeq[g] : g \in {g \in BlockHeights : g < h}}
  IN  IF before = {} THEN 0
      ELSE CHOOSE n \in before : \A m \in before : m <= n

\* Messages of block h: bh.MessageCount and len(GetBTPMessage(h)).
MessageCount(h) == EndSeq[h] - StartSeq(h)

=============================================================================
