-------------------------------- MODULE Link --------------------------------
(***************************************************************************)
(* common/link/link.go: the engine of one relay direction, with the btp2   *)
(* receiver, a sender and the BMC it works against.                        *)
(*                                                                         *)
(* Two goroutines run the link.  "recv" takes receive statuses from the    *)
(* receiver (startReceiverChannel); "send" takes relay results from the    *)
(* sender (startSenderChannel).  Both call handleRelayMessage, which holds *)
(* rmsMtx; everything else they do to the link's fields is unprotected.    *)
(* pc says where a goroutine is, loc holds its local variables.            *)
(*                                                                         *)
(* A step ends where a goroutine waits (for a channel, the mutex, or a     *)
(* call that leaves the process) and where it is between reading and       *)
(* writing a field the other one writes.  When Preemptive is FALSE the     *)
(* goroutines take turns only where they wait; when it is TRUE they may be *)
(* interrupted between any two steps, which exhibits the outcomes of the   *)
(* data races on l.rms, l.rss, l.bls, l.relayState and b.rss.              *)
(***************************************************************************)
EXTENDS BTP2Receiver, BMC

CONSTANTS
  TxSizeLimit,  \* the sender's preference (MarginForLimit is 0 in both)
  MaxRms,       \* model bound: relay messages held by the link
  MaxCrashes    \* model bound: ends of the process

ASSUME LinkAssumption ==
  /\ TxSizeLimit \in Nat
  /\ MaxRms \in Nat
  /\ MaxCrashes \in Nat

VARIABLES
  mode,        \* "run", or how the process ended: "stopped" by an error,
               \* "panicked", "killed"
  relayState,  \* l.relayState
  bls,         \* l.bls: the position after all messages built so far
  rms,         \* l.rms: messages built and not known as delivered
  rss,         \* l.rss
  rmi,         \* l.rmi: contents and size of the message being built
  once,        \* the sync.Once of startReceiverChannel has run
  mtx,         \* the holder of l.rmsMtx, or "none"
  pc, loc,     \* goroutines
  crashes      \* times the process has ended

lnkVars == <<relayState, bls, rms, rss, rmi, once, mtx, pc, loc>>
vars == <<lnkVars, rcvVars, sndVars, bmc, mode, crashes>>

Procs == {"recv", "send"}

\* The local variables of a goroutine.
Idle == [rs |-> NoStatus,       \* recv: the status received
         done |-> NoPosition,   \* send: the position to report as finalized
         code |-> NoCode,       \* send: the code of the result at hand
         ret |-> "idle",        \* where handleRelayMessage returns to
         bu |-> FALSE,          \* buildProof's argument is not nil
         seq |-> 0,             \* buildProof's seq
         item |-> NoItem,       \* a block update or proof just built
         todo |-> <<>>,         \* what is left of sendRelayMessage's range
         first |-> TRUE,       \* sendRelayMessage is the one before the loop
         index |-> 0,           \* nextReceiveStatus's index
         rms |-> <<>>, rss |-> <<>>]  \* slices read and about to be replaced

Goto(p, l) == pc' = [pc EXCEPT ![p] = l]

SetLoc(p, l) == loc' = [loc EXCEPT ![p] = l]

\* The process ends; the goroutines stop where they are.
End(how) ==
  /\ mode' = how
  /\ UNCHANGED <<lnkVars, rcvVars, sndVars, bmc, crashes>>

-----------------------------------------------------------------------------
(***************************************************************************)
(* Helpers of link.go.                                                     *)
(***************************************************************************)
\* Mutant: height and sequence number swapped.
MessageIdSwapped(pos) == <<pos.rxSeq, pos.height>>

\* The id of the message that brings the BMC to pos.
MessageId(pos) == <<pos.height, pos.rxSeq>>

getRelayMessageForId(id) == SelectInSeq(rms, LAMBDA rm : rm.id = id)

removeRelayMessage(list, pos) ==
  DropThrough(list, LAMBDA rm : rm.bls.height <= pos.height /\ rm.bls.rxSeq <= pos.rxSeq)

\* Mutant: one status too many is removed.
removeReceiveStatusFar(list, pos) ==
  LET i == SelectInSeq(list, LAMBDA rs : Covers(pos, rs))
  IN  IF i = 0 THEN list ELSE SubSeq(list, i + 2, Len(list))

removeReceiveStatus(list, pos) ==
  DropThrough(list, LAMBDA rs : Covers(pos, rs))

Behind(pos, rs) == pos.height < rs.height \/ pos.rxSeq < rs.seq

EmptyRmi == [bu |-> 0, first |-> 0, last |-> 0, size |-> 0]

\* appendRelayMessageItem
addBlockUpdate(bu) == [rmi EXCEPT !.bu = bu.height, !.size = @ + BlockUpdateSize]

addMessageProof(mp) ==
  [rmi EXCEPT !.first = IF @ = 0 THEN mp.first ELSE @,
              !.last = mp.last,
              !.size = @ + ProofSize(mp.last - mp.first + 1)]

isOverLimit(size) == TxSizeLimit < size

\* appendRelayMessage: the message is labelled with the link's position.
appendRelayMessage ==
  /\ Len(rms) < MaxRms
  /\ rms' = Append(rms, [id |-> MessageId(bls), bls |-> bls,
                         msg |-> [bu |-> rmi.bu, first |-> rmi.first,
                                 last |-> rmi.last], sent |-> FALSE])
  /\ rmi' = EmptyRmi

\* The unsent messages: they are sent in order, so from the first one on.
Unsent(list) ==
  LET i == SelectInSeq(list, LAMBDA rm : ~rm.sent)
  IN  IF i = 0 THEN <<>> ELSE SubSeq(list, i, Len(list))

\* Mutant: sendingStatus is not set.
MarkSentNever(list, rm) == list

\* rm.sendingStatus = true, for the message of the list that rm is, if any.
MarkSent(list, rm) ==
  LET i == SelectInSeq(list, LAMBDA r : r.id = rm.id /\ ~r.sent)
  IN  IF i = 0 THEN list ELSE [list EXCEPT ![i].sent = TRUE]

-----------------------------------------------------------------------------
(***************************************************************************)
(* startReceiverChannel.                                                   *)
(***************************************************************************)
\* "case rsc := <-rc", and the read of l.rss in "l.rss = append(l.rss, t)".
ReceiveFromReceiver ==
  /\ pc["recv"] = "idle"
  /\ rsc # NoStatus
  /\ rsc' = NoStatus
  /\ SetLoc("recv", [loc["recv"] EXCEPT !.rs = rsc, !.rss = rss])
  /\ Goto("recv", "append")
  /\ UNCHANGED <<relayState, bls, rms, rss, rmi, once, mtx>>
  /\ UNCHANGED <<brss, bseq, cursor, blsc, slices, db, lastHeight, sndVars>>

AppendReceiveStatus ==
  /\ pc["recv"] = "append"
  /\ rss' = Append(loc["recv"].rss, loc["recv"].rs)
  /\ SetLoc("recv", [loc["recv"] EXCEPT !.rss = <<>>])
  /\ Goto("recv", IF once THEN "check" ELSE "once")
  /\ UNCHANGED <<relayState, bls, rms, rmi, once, mtx, rcvVars, sndVars>>

\* once.Do: handleUndeliveredRelayMessage builds a proof for the messages of
\* the BMC's last block that it has not got; then handleRelayMessage.
OnceDo ==
  /\ pc["recv"] = "once"
  /\ once' = TRUE
  /\ LET rs == getReceiveStatusForHeight(rss, bls.height)
     IN  IF rs # NoStatus /\ bls.rxSeq < rs.seq
         THEN /\ SetLoc("recv", [loc["recv"] EXCEPT !.seq = Last(rss).seq, !.ret = "check"])
              /\ Goto("recv", "proof")
         ELSE /\ SetLoc("recv", [loc["recv"] EXCEPT !.ret = "check"])
              /\ Goto("recv", "handle")
  /\ UNCHANGED <<relayState, bls, rms, rss, rmi, mtx, rcvVars, sndVars>>

\* Mutant: only once.Do calls handleRelayMessage.
CheckOnce ==
  /\ pc["recv"] = "check"
  /\ Goto("recv", "idle")
  /\ SetLoc("recv", Idle)
  /\ UNCHANGED <<relayState, bls, rms, rss, rmi, once, mtx, rcvVars, sndVars>>

\* The second call, for a status the link is behind of.
CheckBehind ==
  /\ pc["recv"] = "check"
  /\ IF Behind(bls, loc["recv"].rs)
     THEN Goto("recv", "handle")
     ELSE Goto("recv", "idle")
  /\ SetLoc("recv", Idle)
  /\ UNCHANGED <<relayState, bls, rms, rss, rmi, once, mtx, rcvVars, sndVars>>

-----------------------------------------------------------------------------
(***************************************************************************)
(* handleRelayMessage and what it calls, run by goroutine p under rmsMtx.  *)
(***************************************************************************)
\* Back to the caller of handleRelayMessage, which needs rs or done only.
Return(p) ==
  /\ Goto(p, loc[p].ret)
  /\ SetLoc(p, [Idle EXCEPT !.rs = loc[p].rs, !.done = loc[p].done])

\* Mutant: rmsMtx is not waited for.
LockFreely(p) ==
  /\ pc[p] = "handle"
  /\ relayState # "PENDING"
  /\ mtx' = p
  /\ SetLoc(p, [loc[p] EXCEPT !.todo = Unsent(rms), !.first = TRUE])
  /\ Goto(p, "send")
  /\ UNCHANGED <<relayState, bls, rms, rss, rmi, once, rcvVars, sndVars>>

Lock(p) ==
  /\ pc[p] = "handle"
  /\ mtx = "none"
  /\ IF relayState = "PENDING"
     THEN Return(p) /\ UNCHANGED mtx
     ELSE /\ mtx' = p
          /\ SetLoc(p, [loc[p] EXCEPT !.todo = Unsent(rms), !.first = TRUE])
          /\ Goto(p, "send")
  /\ UNCHANGED <<relayState, bls, rms, rss, rmi, once, rcvVars, sndVars>>

\* sendRelayMessage: s.Relay takes the next unsent message.
SendRelayMessage(p) ==
  /\ pc[p] = "send"
  /\ loc[p].todo # <<>>
  /\ ~QueueFull
  /\ LET rm == Head(loc[p].todo)
     IN  /\ Relay(rm.id, rm.msg)
         /\ rms' = MarkSent(rms, rm)
  /\ SetLoc(p, [loc[p] EXCEPT !.todo = Tail(@)])
  /\ UNCHANGED <<relayState, bls, rss, rmi, once, mtx, pc, rcvVars>>

\* s.Relay finds the queue full, or handleRelayMessage finds INIT after it has
\* sent: the link waits for a result.
Suspend(p) ==
  /\ pc[p] = "send"
  /\ \/ loc[p].todo # <<>> /\ QueueFull
     \/ loc[p].todo = <<>> /\ ~loc[p].first /\ relayState = "INIT"
  /\ SetLoc(p, [loc[p] EXCEPT !.todo = <<>>])
  /\ Goto(p, "suspend")
  /\ UNCHANGED <<relayState, bls, rms, rss, rmi, once, mtx, rcvVars, sndVars>>

SetPending(p) ==
  /\ pc[p] = "suspend"
  /\ relayState' = "PENDING"
  /\ Goto(p, "loop")
  /\ UNCHANGED <<bls, rms, rss, rmi, once, mtx, loc, rcvVars, sndVars>>

SendDone(p) ==
  /\ pc[p] = "send"
  /\ loc[p].todo = <<>>
  /\ loc[p].first \/ relayState # "INIT"
  /\ Goto(p, "loop")
  /\ UNCHANGED <<relayState, bls, rms, rss, rmi, once, mtx, loc, rcvVars, sndVars>>

\* s.Relay fails for another reason; the error ends the process.
SendError(p) ==
  /\ "sendfail" \in Faults
  /\ pc[p] = "send"
  /\ loc[p].todo # <<>>
  /\ ~QueueFull

\* The head of the loop: build for the next block, build a proof without a
\* block update, or leave.
Loop(p) ==
  /\ pc[p] = "loop"
  /\ IF relayState # "PENDING" /\ rss # <<>> /\ Behind(bls, Last(rss))
     THEN /\ IF bls.height < Last(rss).height
             THEN Goto(p, "next") /\ UNCHANGED loc
             ELSE /\ SetLoc(p, [loc[p] EXCEPT !.bu = FALSE, !.seq = Last(rss).seq])
                  /\ Goto(p, "proof")
          /\ UNCHANGED mtx
     ELSE Return(p) /\ mtx' = "none"
  /\ UNCHANGED <<relayState, bls, rms, rss, rmi, once, rcvVars, sndVars>>

\* nextReceiveStatus finds an index in b.rss and then reads b.rss at it.
NextReceiveStatus(p) ==
  /\ pc[p] = "next"
  /\ SetLoc(p, [loc[p] EXCEPT !.index = nextReceiveIndex(bls)])
  /\ Goto(p, "build")
  /\ UNCHANGED <<relayState, bls, rms, rss, rmi, once, mtx, rcvVars, sndVars>>

\* buildBlockUpdates.  A block update over the limit makes the receiver answer
\* an empty list, and buildBlockUpdates asks again without end.
BuildBlockUpdate(p) ==
  /\ pc[p] = "build"
  /\ loc[p].index \in 1..Len(brss)
  /\ BlockUpdateSize <= TxSizeLimit - rmi.size
  /\ LET bu == [NoItem EXCEPT !.height = brss[loc[p].index].height, !.rxSeq = bls.rxSeq]
     IN  SetLoc(p, [loc[p] EXCEPT !.index = 0, !.item = bu])
  /\ Goto(p, "update")
  /\ UNCHANGED <<relayState, bls, rms, rss, rmi, once, mtx, rcvVars, sndVars>>

\* "No blockUpdate available to create."
NoBlockUpdate(p) == pc[p] = "build" /\ loc[p].index = 0

\* b.rss[i+1] beyond the end.
IndexOutOfRange(p) == pc[p] = "build" /\ loc[p].index > Len(brss)

\* Mutants: buildProof goes by the newest or by the oldest status instead of
\* the block's.
UpdateWithSeq(p, seq) ==
  /\ pc[p] = "update"
  /\ rss # <<>>
  /\ rmi' = addBlockUpdate(loc[p].item)
  /\ bls' = [height |-> loc[p].item.height, rxSeq |-> loc[p].item.rxSeq]
  /\ SetLoc(p, [loc[p] EXCEPT !.item = NoItem, !.bu = TRUE, !.seq = seq])
  /\ Goto(p, "proof")
  /\ UNCHANGED <<relayState, rms, rss, once, mtx, rcvVars, sndVars>>

UpdateWithLastSeq(p) == UpdateWithSeq(p, Last(rss).seq)

UpdateWithFirstSeq(p) == UpdateWithSeq(p, Head(rss).seq)

\* The block update joins the message and moves the link's position; buildProof
\* then looks up how far the messages of the block go.
UpdateBMCLinkStatus(p) ==
  /\ pc[p] = "update"
  /\ LET item == loc[p].item
         rs   == getReceiveStatusForHeight(rss, item.height)
     IN  /\ rs # NoStatus \/ rss # <<>>
         /\ rmi' = addBlockUpdate(item)
         /\ bls' = [height |-> item.height, rxSeq |-> item.rxSeq]
         /\ SetLoc(p, [loc[p] EXCEPT !.item = NoItem, !.bu = TRUE,
                                     !.seq = IF rs # NoStatus THEN rs.seq ELSE Last(rss).seq])
  /\ Goto(p, "proof")
  /\ UNCHANGED <<relayState, rms, rss, once, mtx, rcvVars, sndVars>>

\* l.rss[len(l.rss)-1] of an empty slice.
NoReceiveStatus(p) ==
  /\ pc[p] = "update"
  /\ rss = <<>>

\* buildMessageProof with what is left of the limit.
NextProof == BuildMessageProof(bls, TxSizeLimit - rmi.size)

BuildProof(p) ==
  /\ pc[p] = "proof"
  /\ bls.rxSeq < loc[p].seq
  /\ NextProof # NoItem
  /\ ValidProof(bls, NextProof)
  /\ SetLoc(p, [loc[p] EXCEPT !.item = NextProof])
  /\ Goto(p, "addproof")
  /\ UNCHANGED <<relayState, bls, rms, rss, rmi, once, mtx, rcvVars, sndVars>>

\* No proof: the message so far is appended and the loop goes on.
BuildProofNil(p) ==
  /\ pc[p] = "proof"
  /\ bls.rxSeq < loc[p].seq
  /\ NextProof = NoItem
  /\ appendRelayMessage
  /\ UNCHANGED <<relayState, bls, rss, once, mtx, pc, loc, rcvVars, sndVars>>

\* mbt.Proof: out of range.
BuildProofError(p) ==
  /\ pc[p] = "proof"
  /\ bls.rxSeq < loc[p].seq
  /\ NextProof # NoItem
  /\ ~ValidProof(bls, NextProof)

\* A block proof is due and the receiver builds none: the nil item's Len.
NilBlockProof(p) ==
  /\ pc[p] = "addproof"
  /\ ~loc[p].bu \/ isOverLimit(rmi.size)

AddProof(p) ==
  /\ pc[p] = "addproof"
  /\ loc[p].bu /\ ~isOverLimit(rmi.size)
  /\ bls' = [height |-> loc[p].item.height, rxSeq |-> loc[p].item.rxSeq]
  /\ rmi' = addMessageProof(loc[p].item)
  /\ SetLoc(p, [loc[p] EXCEPT !.item = NoItem])
  /\ Goto(p, "proof")
  /\ UNCHANGED <<relayState, rms, rss, once, mtx, rcvVars, sndVars>>

\* buildProof is through; the message is appended, sendRelayMessage follows.
\* (handleUndeliveredRelayMessage, without rmsMtx, appends if there is
\* something and goes on to handleRelayMessage.)
AppendRelayMessage(p) ==
  /\ pc[p] = "proof"
  /\ loc[p].seq <= bls.rxSeq
  /\ IF mtx = p \/ rmi.size > 0 THEN appendRelayMessage ELSE UNCHANGED <<rms, rmi>>
  /\ SetLoc(p, [loc[p] EXCEPT !.bu = FALSE, !.seq = 0, !.first = FALSE,
                              !.todo = IF mtx = p THEN Unsent(rms') ELSE <<>>])
  /\ Goto(p, IF mtx = p THEN "send" ELSE "handle")
  /\ UNCHANGED <<relayState, bls, rss, once, mtx, rcvVars, sndVars>>

-----------------------------------------------------------------------------
(***************************************************************************)
(* startSenderChannel and result.  Both senders report final results only. *)
(***************************************************************************)
KnownResult(i, codes) ==
  /\ pc["send"] = "idle"
  /\ txs[i].st = "result"
  /\ txs[i].code \in codes
  /\ getRelayMessageForId(txs[i].id) # 0

\* A result for a message the link no longer holds, or one that asks for a new
\* block proof (updateBlockProof finds no block proof to replace).
IgnoreResult(i) ==
  /\ pc["send"] = "idle"
  /\ txs[i].st = "result"
  /\ \/ getRelayMessageForId(txs[i].id) = 0
     \/ txs[i].code = "BMVRevertInvalidBlockWitnessOld"
  /\ txs' = RemoveAt(txs, i)
  /\ UNCHANGED <<lnkVars, rcvVars, queue>>

\* successRelayMessage finds its message and looks for what it covers.
ResultSuccess(i) ==
  /\ KnownResult(i, {"SUCCESS"})
  /\ LET pos == rms[getRelayMessageForId(txs[i].id)].bls
     IN  SetLoc("send", [loc["send"] EXCEPT !.done = pos,
                                            !.rms = removeRelayMessage(rms, pos),
                                            !.rss = removeReceiveStatus(rss, pos)])
  /\ Goto("send", "success")
  /\ txs' = RemoveAt(txs, i)
  /\ UNCHANGED <<relayState, bls, rms, rss, rmi, once, mtx, rcvVars, queue>>

\* Mutant: relayState stays as it is.
SuccessStaysPending ==
  /\ pc["send"] = "success"
  /\ rms' = loc["send"].rms
  /\ rss' = loc["send"].rss
  /\ SetLoc("send", [Idle EXCEPT !.done = loc["send"].done, !.ret = "report"])
  /\ Goto("send", "handle")
  /\ UNCHANGED <<relayState, bls, rmi, once, mtx, rcvVars, sndVars>>

SuccessRelayMessage ==
  /\ pc["send"] = "success"
  /\ rms' = loc["send"].rms
  /\ rss' = loc["send"].rss
  /\ SetLoc("send", [Idle EXCEPT !.done = loc["send"].done, !.ret = "report"])
  /\ relayState' = "RUNNING"
  /\ Goto("send", "handle")
  /\ UNCHANGED <<bls, rmi, once, mtx, rcvVars, sndVars>>

\* Mutant: the link's position is reported, not the message's.
ReportLinkPosition ==
  /\ pc["send"] = "report"
  /\ blsc = NoPosition
  /\ blsc' = bls
  /\ SetLoc("send", Idle)
  /\ Goto("send", "idle")
  /\ UNCHANGED <<relayState, bls, rms, rss, rmi, once, mtx, sndVars>>
  /\ UNCHANGED <<brss, bseq, cursor, rsc, slices, db, lastHeight>>

\* "l.blsChannel <- rm.BMCLinkStatus()": taken when FinalizedStatus is free.
ReportFinalized ==
  /\ pc["send"] = "report"
  /\ blsc = NoPosition
  /\ blsc' = loc["send"].done
  /\ SetLoc("send", Idle)
  /\ Goto("send", "idle")
  /\ UNCHANGED <<relayState, bls, rms, rss, rmi, once, mtx, sndVars>>
  /\ UNCHANGED <<brss, bseq, cursor, rsc, slices, db, lastHeight>>

\* The answer of s.GetStatus for a message the BMC did not take.
ResultRejected(i) ==
  /\ KnownResult(i, {"BMVNotVerifiable", "BMVAlreadyVerified"})
  /\ SetLoc("send", [loc["send"] EXCEPT !.done = bmc, !.code = txs[i].code])
  /\ Goto("send", "resync")
  /\ txs' = RemoveAt(txs, i)
  /\ UNCHANGED <<relayState, bls, rms, rss, rmi, once, mtx, rcvVars, queue>>

\* The link takes over the BMC's position and drops its messages (for
\* BMVAlreadyVerified too: removeRelayMessage always answers index 0).  Only
\* BMVNotVerifiable goes on to handleRelayMessage.
UpdateStatus ==
  /\ pc["send"] = "resync"
  /\ bls' = loc["send"].done
  /\ rms' = <<>>
  /\ relayState' = "RUNNING"
  /\ SetLoc("send", Idle)
  /\ Goto("send", IF loc["send"].code = "BMVNotVerifiable" THEN "handle" ELSE "idle")
  /\ UNCHANGED <<rss, rmi, once, mtx, rcvVars, sndVars>>

\* Panicf
ResultPanic(i) == KnownResult(i, {"BMVUnknown"})

-----------------------------------------------------------------------------
(***************************************************************************)
(* The system.                                                             *)
(***************************************************************************)
LinkInit(pos) ==
  /\ relayState = "INIT"
  /\ bls = pos
  /\ rms = <<>>
  /\ rss = <<>>
  /\ rmi = EmptyRmi
  /\ once = FALSE
  /\ mtx = "none"
  /\ pc = [p \in Procs |-> "idle"]
  /\ loc = [p \in Procs |-> Idle]

\* The relay's first start: the BMC has taken the network's first block.
Init ==
  /\ \E h \in BlockHeights :
       /\ \A k \in BlockHeights : h <= k
       /\ bmc = [height |-> h, rxSeq |-> EndSeq[h] - SequenceOffset]
       /\ LinkInit(bmc)
       /\ cursor = h
       /\ bseq = IF bmc.rxSeq = 0 THEN 0 ELSE bmc.rxSeq + SequenceOffset
  /\ brss = <<>>
  /\ rsc = NoStatus
  /\ blsc = NoPosition
  /\ slices = NoSlices
  /\ db = {}
  /\ lastHeight = 0
  /\ SenderInit
  /\ mode = "run"
  /\ crashes = 0

Recv == ReceiveFromReceiver \/ AppendReceiveStatus \/ OnceDo \/ CheckBehind

HandleRelayMessage(p) ==
  \/ Lock(p) \/ SendRelayMessage(p) \/ Suspend(p) \/ SetPending(p) \/ SendDone(p)
  \/ Loop(p) \/ NextReceiveStatus(p) \/ BuildBlockUpdate(p) \/ UpdateBMCLinkStatus(p)
  \/ BuildProof(p) \/ BuildProofNil(p) \/ AddProof(p) \/ AppendRelayMessage(p)

TakeResult(i) == IgnoreResult(i) \/ ResultSuccess(i) \/ ResultRejected(i)

Send ==
  \/ \E i \in DOMAIN txs : TakeResult(i)
  \/ SuccessRelayMessage \/ ReportFinalized \/ UpdateStatus

\* Places where a goroutine waits.
Waiting == {"idle", "handle", "send", "update", "addproof", "report", "resync"}

\* Goroutine g may run: no other one is on its way between two waits.
MayRun(g) ==
  \/ Preemptive
  \/ /\ \A p \in Procs \ {g} : pc[p] \in Waiting
     /\ \A q \in {"mon", "fin"} \ {g} : slices[q] = <<>>

\* A step of the link's goroutine p.
LinkStep(p) ==
  /\ mode = "run"
  /\ MayRun(p)
  /\ \/ p = "recv" /\ Recv
     \/ p = "send" /\ Send
     \/ HandleRelayMessage(p)
  /\ UNCHANGED <<bmc, mode, crashes>>

ReceiverStep ==
  /\ mode = "run"
  /\ \/ MayRun("mon") /\ (MonitorBlock \/ MonitorProgress \/ SendReceiveStatus)
     \/ MayRun("fin") /\ (FinalizedStatus \/ clearReceiveStatus)
  /\ UNCHANGED <<lnkVars, sndVars, bmc, mode, crashes>>

SenderStep ==
  /\ mode = "run"
  /\ MayRun("sender")
  /\ \E i \in DOMAIN txs : Result(i)
  /\ UNCHANGED <<lnkVars, rcvVars, bmc, mode, crashes>>

ChainStep ==
  /\ OtherRelay \/ \E i \in DOMAIN txs : Execute(i) \/ Lose(i) \/ Revert(i)
  /\ UNCHANGED <<lnkVars, rcvVars, mode, crashes>>

\* An error that reaches Relay.Start ends the process.
Stop ==
  /\ mode = "run"
  /\ \/ InvalidSeq
     \/ \E p \in Procs : SendError(p) \/ NoBlockUpdate(p) \/ BuildProofError(p)
  /\ End("stopped")

Panic ==
  /\ mode = "run"
  /\ \/ \E p \in Procs : IndexOutOfRange(p) \/ NoReceiveStatus(p) \/ NilBlockProof(p)
     \/ \E i \in DOMAIN txs : ResultPanic(i)
  /\ End("panicked")

\* The process is killed.
Crash ==
  /\ mode = "run"
  /\ crashes < MaxCrashes
  /\ End("killed")

\* What is left of a process that has ended.
Cleanup ==
  /\ mode # "run"
  /\ crashes < MaxCrashes
  /\ \E i \in DOMAIN txs : Forget(i)
  /\ UNCHANGED <<lnkVars, rcvVars, bmc, mode, crashes>>

\* The relay is started again.
Restart ==
  /\ mode # "run"
  /\ crashes < MaxCrashes
  /\ crashes' = crashes + 1
  /\ mode' = "run"
  /\ relayState' = "INIT"
  /\ bls' = bmc
  /\ rms' = <<>> /\ rss' = <<>> /\ rmi' = EmptyRmi
  /\ once' = FALSE /\ mtx' = "none"
  /\ pc' = [p \in Procs |-> "idle"]
  /\ loc' = [p \in Procs |-> Idle]
  /\ StartReceiver(bmc)
  /\ StartSender
  /\ UNCHANGED bmc

Next ==
  \/ \E p \in Procs : LinkStep(p)
  \/ ReceiverStep \/ SenderStep \/ ChainStep \/ Stop \/ Panic
  \/ Crash \/ Cleanup \/ Restart

Spec == Init /\ [][Next]_vars

\* Every goroutine, the sender's calls and the destination chain make progress.
Fairness ==
  /\ \A p \in Procs : WF_vars(LinkStep(p))
  /\ WF_vars(ReceiverStep /\ lastHeight' = lastHeight)
  /\ WF_vars(SenderStep)
  /\ \A i \in 1..MaxTx : WF_vars(i \in DOMAIN txs /\ ChainStep /\ txs' # txs)

FairSpec == Spec /\ Fairness

-----------------------------------------------------------------------------
(***************************************************************************)
(* Properties.                                                             *)
(***************************************************************************)
RelayMessage == [id : Id, bls : Position, msg : Message, sent : BOOLEAN]

Locals == [rs : ReceiveStatus \union {NoStatus}, done : Position,
           code : Codes \union {NoCode}, ret : {"idle", "check", "report"}, bu : BOOLEAN,
           seq : Int, item : Item, todo : Seq(RelayMessage), first : BOOLEAN, index : Nat,
           rms : Seq(RelayMessage), rss : Seq(ReceiveStatus)]

Places == Waiting \union {"append", "once", "check", "suspend", "loop", "next",
                          "build", "proof", "success"}

LinkTypeOK ==
  /\ relayState \in {"INIT", "RUNNING", "PENDING"}
  /\ bls \in Position
  /\ rms \in Seq(RelayMessage)
  /\ rss \in Seq(ReceiveStatus)
  /\ rmi \in [bu : Heights, first : Nat, last : Nat, size : Int]
  /\ once \in BOOLEAN
  /\ mtx \in Procs \union {"none"}
  /\ pc \in [Procs -> Places]
  /\ loc \in [Procs -> Locals]

\* The values of the link's fields, of the goroutines' local variables, of the
\* receiver, of the sender and of the BMC.
TypeOK ==
  /\ LinkTypeOK
  /\ ReceiverTypeOK
  /\ SenderTypeOK
  /\ mode \in {"run", "stopped", "panicked", "killed"}
  /\ crashes \in Nat

\* A height that successRelayMessage reports on blsChannel has been taken by
\* the BMC.  FinalizedStatus deletes stored blocks and forgets statuses up to
\* it, so a height reported early would lose blocks that are still needed.
FinalizedIsDelivered == blsc.height <= bmc.height

\* A block that the BMC has not taken and whose status b.rss holds is in the
\* database (addReceiveBlock, removeReceiveBlockByHeight): the database is
\* never behind what FinalizedStatus was told.
BlocksRetained ==
  \A i \in DOMAIN brss : brss[i].height > bmc.height => brss[i].height \in db

\* A block the monitor has passed and the BMC has not taken is known to the
\* receiver (b.rss) and to the link (l.rss, or on its way there):
\* clearReceiveStatus and removeReceiveStatus drop only what is delivered.
StatusesKept ==
  \A h \in BlockHeights \ {StartHeight} :
    bmc.height < h /\ h <= cursor =>
      \/ slices.mon # <<>> /\ h = cursor
      \/ /\ indexForHeight(brss, h) # 0
         /\ \/ rsc.height = h
            \/ pc["recv"] = "append" /\ loc["recv"].rs.height = h
            \/ indexForHeight(rss, h) # 0

\* A process that is started on the database as it is now asks the source for a
\* height that is not above a block the BMC has not taken (monitoring).  There is one
\* exception: the block the BMC took last is still stored, and is the first one.  Then
\* it may begin at LastReceiveHeight, above stored blocks that are not delivered; but
\* removeAllReceiveBlock leaves these in the database, and the process that is started
\* after it asks for a height that is not above them.
RestartCovers ==
  LET wiped  == bmc.rxSeq < 1
      last   == IF wiped THEN 0 ELSE lastHeight
      stored == IF wiped THEN {} ELSE db
      Early(blocks) ==
        \A h \in BlockHeights : bmc.height < h => resumeHeight(bmc, blocks, last) < h
  IN  \/ Early(stored)
      \/ /\ bmc.height <= last /\ bmc.height = getFirstHeightForReceiveBlock(stored)
         /\ Early(removeAllReceiveBlock(stored))

\* The BMC never has a block without all of its messages: the relay message for
\* a block carries a proof of all messages buildProof has to cover.
DeliveredWhole == bmc.rxSeq + SequenceOffset = EndSeq[bmc.height]

\* A relay message exceeds the size that the sender asked for by no more than the
\* last message it proves: buildMessageProof ends the range with the message
\* that takes it over what buildProof has left of the limit.
SizeBounded ==
  \A i \in DOMAIN rms :
    LET msg == rms[i].msg
    IN  (IF msg.bu = 0 THEN 0 ELSE BlockUpdateSize) + ProofSize(IF msg.last = 0 THEN 0 ELSE msg.last - msg.first + 1)
        <= TxSizeLimit + MessageSize

\* The relay goes on until it is killed: none of the errors that link.go sends
\* to the error channel, and none of its panics, happens.
NoEnd == mode \in {"run", "killed"}

\* buildProof does not append messages without end: while it looks for messages
\* up to seq, the receiver has a proof for the next of them.
NoSpin ==
  \A p \in Procs : pc[p] = "proof" /\ bls.rxSeq < loc[p].seq => NextProof # NoItem

Watched(i) == txs[i].st # "orphan" /\ getRelayMessageForId(txs[i].id) # 0

\* PENDING is left only in result, for a message the link holds: while it is
\* PENDING such a result is still to come, or being handled.
PendingHasWakeup ==
  mode = "run" /\ relayState = "PENDING" =>
    \/ pc["send"] \in {"success", "resync"}
    \/ \E i \in DOMAIN txs : Watched(i)

\* The messages of l.rms carry consecutive blocks: what was built ahead of the
\* BMC can be taken in order.
MessagesChained ==
  \A i \in 1..(Len(rms) - 1) : IsNext(rms[i].msg.bu, rms[i + 1].msg.bu)

\* A chain that executes transactions in order and that no other relay serves
\* never finds a relay message out of place: nothing is sent twice or early.
NothingRejected ==
  \A i \in DOMAIN txs : txs[i].code \notin {"BMVNotVerifiable", "BMVAlreadyVerified"}

\* Left alone, the relay neither ends by itself nor sends a message that the BMC
\* refuses: the receiver's, the link's and the BMC's counts of blocks and
\* messages agree at every step.
NothingFails == NoEnd /\ NothingRejected

\* Every block of the source reaches the BMC.
AllDelivered == <>[](\A h \in BlockHeights : h <= bmc.height)

\* The link does not stay PENDING: a result that ends it is processed.
PendingEnds ==
  relayState = "PENDING" ~> relayState # "PENDING" \/ mode # "run"
=============================================================================
