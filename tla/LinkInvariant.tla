---------------------------- MODULE LinkInvariant ----------------------------
(***************************************************************************)
(* Why a height that the link reports as finalized has been taken by the   *)
(* BMC: the inductive invariant behind FinalizedIsDelivered.               *)
(*                                                                         *)
(* A result is matched to a message by the message's id, the position the  *)
(* link had when the message was appended.  That position is written by    *)
(* both goroutines, one of them without the mutex, so it need not be the   *)
(* position the message brings the BMC to.  It is never above it, though.  *)
(***************************************************************************)
EXTENDS Link

\* The status SendReceiveStatus makes from cursor is one of a block.
CursorOK == slices.mon # <<>> => cursor \in BlockHeights

\* So is the status AppendReceiveStatus is about to store.
StatusOK == pc["recv"] = "append" => loc["recv"].rs \in ReceiveStatus

\* TypeOK is not inductive without these.
TypeInv == TypeOK /\ CursorOK /\ StatusOK

\* A message with block update bu has not been taken unless the BMC has h.
Reached(h, bu) == bu = 0 \/ h <= bu \/ h <= bmc.height

GoodMessages ==
  {rm \in RelayMessage : rm.id[1] = rm.bls.height /\ Reached(rm.bls.height, rm.msg.bu)}

GoodTransactions ==
  {tx \in Transaction :
     /\ tx.st \in {"pool", "orphan"} => Reached(tx.id[1], tx.msg.bu)
     /\ tx.code = "SUCCESS" => tx.id[1] <= bmc.height}

\* Between Lock and the end of Loop the goroutine holds rmsMtx; so it does
\* while it builds a proof for a block update.
Locked ==
  \A p \in Procs :
    pc[p] \in {"send", "suspend", "loop", "next", "build", "update"} \/ loc[p].bu => mtx = p

\* The link's position, and the one that a finished proof is about to set.
Building ==
  /\ Reached(bls.height, rmi.bu)
  /\ \A p \in Procs :
       pc[p] = "addproof" /\ loc[p].bu => Reached(loc[p].item.height, rmi.bu)

Built ==
  /\ rms \in Seq(GoodMessages)
  /\ \A p \in Procs : /\ loc[p].todo \in Seq(GoodMessages)
                      /\ loc[p].rms \in Seq(GoodMessages)

SentOut == txs \in Seq(GoodTransactions)

Reported ==
  /\ blsc.height <= bmc.height
  /\ \A p \in Procs : loc[p].done.height <= bmc.height

DeliveryInv == Locked /\ Building /\ Built /\ SentOut /\ Reported

\* Why a status in b.rss is one of a stored block unless the BMC has it: so are
\* the ones in the slices that are about to be stored in b.rss.
Kept == {rs \in ReceiveStatus : rs.height > bmc.height => rs.height \in db}

RetainedInv ==
  /\ brss \in Seq(Kept)
  /\ slices.mon # <<>> => /\ slices.mon[1] \in Seq(Kept)
                          /\ cursor > bmc.height => cursor \in db
  /\ slices.fin # <<>> => slices.fin[1] \in Seq(Kept)

\* Until the first restart, the database has every block that the monitor has passed
\* and the BMC has not taken, and nothing that it has not passed.
CoveringInv ==
  crashes = 0 =>
    /\ lastHeight <= cursor
    /\ \A h \in db : h <= cursor
    /\ \A h \in BlockHeights \ {StartHeight} : bmc.height < h /\ h <= cursor => h \in db

\* The invariants that LinkProofs shows to be inductive: labels of messages never
\* run ahead of what they deliver, no goroutine holds the status of a block that is
\* gone before the BMC has it, and a first restart finds what it needs.
IInv == DeliveryInv /\ RetainedInv /\ CoveringInv

\* The network's first block is the one that is not relayed.
FirstIsStart == \A h \in BlockHeights : StartHeight <= h

Promise == INSTANCE Delivery
  WITH First <- StartHeight, taken <- bmc.height, seen <- cursor, stored <- db, starts <- crashes

\* The relay, with all of its goroutines, implements Delivery: the monitor's
\* callback stores every block it passes (addReceiveBlock), FinalizedStatus
\* deletes no block that the BMC does not have (removeReceiveBlockByHeight, with
\* the height successRelayMessage has reported), whatever the order in which
\* results, statuses and the steps of the goroutines meet.
RefinesDelivery == Promise!Spec

\* The goroutines switch only where they wait, and the BMC counts messages as the
\* network does.  LinkTheorems shows under these what the races would break.
TakingTurns == ~Preemptive /\ SequenceOffset = 0 /\ FirstIsStart

\* Beside that the chain executes every transaction, in order, and no other relay
\* serves the link.
LeftAlone == TakingTurns /\ Faults = {}

\* All messages of a block but the last one go into one relay message with it.
BlocksFit == \A h \in BlockHeights : BlockUpdateSize + ProofSize(MessageCount(h) - 1) <= TxSizeLimit
=============================================================================
