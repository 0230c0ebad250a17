----------------------------- MODULE LinkProofs -----------------------------
(***************************************************************************)
(* What the link, the receiver and the sender hold has its type; what the  *)
(* link reports as finalized has been taken by the BMC, and the receiver   *)
(* keeps what has not, for every value of the constants: any source, any   *)
(* faults, goroutines interrupted anywhere, any crashes.                   *)
(***************************************************************************)
EXTENDS LinkLemmas

USE BlockHeightsAssumption
\* The steps below are for Zenon where they do not name another prover.
USE Zenon

-----------------------------------------------------------------------------
(***************************************************************************)
(* The parts of the state that a step leaves alone.                        *)
(***************************************************************************)
LEMMA LinkStutter == LinkTypeOK /\ UNCHANGED lnkVars => LinkTypeOK'
BY DEF LinkTypeOK, lnkVars

LEMMA ReceiverStutter == ReceiverTypeOK /\ UNCHANGED rcvVars => ReceiverTypeOK'
BY DEF ReceiverTypeOK, rcvVars

LEMMA SenderStutter ==
  SenderTypeOK /\ UNCHANGED <<sndVars, bmc>> => SenderTypeOK'
BY DEF SenderTypeOK, sndVars

-----------------------------------------------------------------------------
(***************************************************************************)
(* The receiver.                                                           *)
(***************************************************************************)
\* A list of statuses looked through for some places I: the status found.
LEMMA StatusForHeight ==
  ASSUME NEW list \in Seq(ReceiveStatus), NEW h
  PROVE  /\ indexForHeight(list, h) \in 0..Len(list)
         /\ indexForHeight(list, h) # 0 => list[indexForHeight(list, h)].height = h
         /\ \/ getReceiveStatusForHeight(list, h) = NoStatus
            \/ /\ getReceiveStatusForHeight(list, h) \in ReceiveStatus
               /\ getReceiveStatusForHeight(list, h).height = h
<1> DEFINE I == {i \in 1..Len(list) : list[i].height = h}
<1>1. indexForHeight(list, h) = IF I # {} THEN Min(I) ELSE 0
  BY DEF indexForHeight, SelectInSeq
<1>2. /\ indexForHeight(list, h) \in 0..Len(list)
      /\ I # {} => indexForHeight(list, h) \in I
  <2> HIDE DEF I
  <2>1. I \in SUBSET (1..Len(list))
    BY DEF I
  <2> QED
    BY <1>1, <2>1, SelectList
<1>3. indexForHeight(list, h) # 0 => list[indexForHeight(list, h)].height = h
  BY <1>1, <1>2
<1>4. indexForHeight(list, h) # 0 => list[indexForHeight(list, h)] \in ReceiveStatus
  BY <1>2, SeqLen, SMT
<1> QED
  BY <1>2, <1>3, <1>4 DEF getReceiveStatusForHeight

LEMMA NextReceiveIndexType ==
  ASSUME brss \in Seq(ReceiveStatus), NEW pos
  PROVE  nextReceiveIndex(pos) \in Nat
<1> DEFINE I == {i \in 1..Len(brss) : pos.height <= brss[i].height}
           i == IF I # {} THEN Min(I) ELSE 0
<1>1. i \in 0..Len(brss)
  <2> HIDE DEF I
  <2>1. I \in SUBSET (1..Len(brss))
    BY DEF I
  <2> QED
    BY <2>1, SelectList
<1>2. nextReceiveIndex(pos) \in {i, i + 1}
  BY DEF nextReceiveIndex, SelectInSeq
<1>3. i \in Nat
  BY <1>1, SeqLen, SMTT(60)
<1> HIDE DEF i
<1> QED
  BY <1>2, <1>3, SMT

\* A proof that mbt.Proof accepts is an item.
LEMMA ProofType ==
  ASSUME brss \in Seq(ReceiveStatus), NEW pos \in Position, NEW limit \in Int,
         BuildMessageProof(pos, limit) # NoItem,
         ValidProof(pos, BuildMessageProof(pos, limit))
  PROVE  /\ BuildMessageProof(pos, limit) \in Item
         /\ BuildMessageProof(pos, limit).height = pos.height
<1> DEFINE rs     == getReceiveStatusForHeight(brss, pos.height)
           cnt    == MessageCount(pos.height)
           offset == pos.rxSeq - (rs.seq - cnt)
           over   == {i \in (offset + 1)..(cnt - 1) : limit < ProofSize(i - offset)}
           last   == IF over = {} THEN cnt ELSE Min(over)
           mp     == [first |-> offset + 1, last |-> last,
                      height |-> pos.height, rxSeq |-> pos.rxSeq + last]
<1>1. rs # NoStatus /\ BuildMessageProof(pos, limit) = mp
  BY DEF BuildMessageProof
<1>2. pos.height \in BlockHeights /\ rs.seq \in Int
  <2>1. rs \in ReceiveStatus /\ rs.height = pos.height
    BY <1>1, StatusForHeight
  <2> QED
    BY <2>1 DEF ReceiveStatus
<1>3. cnt \in Nat
  BY <1>2, MessageCountType
<1>4. offset \in Int /\ pos.rxSeq \in Int
  BY <1>2, <1>3, SMT DEF Position
<1>5. offset + 1 >= 1
  BY <1>1, SMT DEF ValidProof
<1>6. last \in Nat
  <2>1. over \subseteq Nat
    BY <1>3, <1>4, <1>5, SMT
  <2>2. CASE over = {}
    BY <1>3, <2>2
  <2>3. CASE over # {}
    <3>1. Min(over) \in over
      <4> HIDE DEF over
      <4> QED
        BY <2>1, <2>3, NatMin
    <3> QED
      BY <2>1, <2>3, <3>1
  <2> QED
    BY <2>2, <2>3
<1>7. mp \in Item /\ mp.height = pos.height
  <2> HIDE DEF last, offset
  <2> QED
    BY <1>2, <1>4, <1>5, <1>6, SMT DEF Item, Heights
<1> QED
  BY <1>1, <1>7

\* The steps of the receiver's goroutines.
LEMMA ReceiverSteps ==
  ASSUME TypeInv,
         \/ MonitorBlock \/ MonitorProgress \/ SendReceiveStatus
         \/ FinalizedStatus \/ clearReceiveStatus
  PROVE  /\ ReceiverTypeOK'
         /\ CursorOK'
<1> USE DEF TypeInv, TypeOK, CursorOK
<1> DEFINE Parts == {<<>>} \union [{1} -> Seq(ReceiveStatus)]
<1>1. CASE MonitorBlock
  <2>1. PICK k \in BlockHeights : MonitorBlock!2!(k)
    BY <1>1 DEF MonitorBlock
  <2>2. MessageCount(k) \in Nat
    BY MessageCountType
  <2>3. <<brss>> \in [{1} -> Seq(ReceiveStatus)]
    BY SMT DEF ReceiverTypeOK
  <2>4. slices' \in [{"mon", "fin"} -> Parts]
    BY <2>1, <2>3 DEF ReceiverTypeOK
  <2> QED
    BY <1>1, <2>1, <2>2, <2>4, SMT DEF MonitorBlock, ReceiverTypeOK
<1>2. CASE MonitorProgress
  BY <1>2, SMT DEF MonitorProgress, Notified, ReceiverTypeOK
<1>3. CASE SendReceiveStatus
  <2>1. rsc' \in ReceiveStatus
    BY <1>3 DEF SendReceiveStatus, ReceiverTypeOK, ReceiveStatus
  <2>2. slices.mon[1] \in Seq(ReceiveStatus)
    BY <1>3 DEF SendReceiveStatus, ReceiverTypeOK
  <2>3. brss' \in Seq(ReceiveStatus)
    BY <1>3, <2>1, <2>2, SeqAppend DEF SendReceiveStatus
  <2>4. slices' \in [{"mon", "fin"} -> Parts]
    BY <1>3 DEF SendReceiveStatus, ReceiverTypeOK
  <2> QED
    BY <1>3, <2>1, <2>3, <2>4 DEF SendReceiveStatus, ReceiverTypeOK
<1>4. CASE FinalizedStatus
  <2>1. <<Cleared(blsc)>> \in [{1} -> Seq(ReceiveStatus)]
    BY CoveredType, SMT DEF ReceiverTypeOK
  <2>2. slices' \in [{"mon", "fin"} -> Parts] /\ slices'.mon = slices.mon
    BY <1>4, <2>1 DEF FinalizedStatus, ReceiverTypeOK
  <2>3. db' \subseteq BlockHeights
    BY <1>4 DEF FinalizedStatus, ReceiverTypeOK, removeReceiveBlockByHeight
  <2>4. blsc' \in Position
    BY <1>4, SMT DEF FinalizedStatus, ReceiverTypeOK, NoPosition, Position, Heights
  <2> QED
    BY <1>4, <2>2, <2>3, <2>4 DEF FinalizedStatus, ReceiverTypeOK
<1>5. CASE clearReceiveStatus
  <2>1. brss' \in Seq(ReceiveStatus)
    BY <1>5 DEF clearReceiveStatus, ReceiverTypeOK
  <2>2. slices' \in [{"mon", "fin"} -> Parts] /\ slices'.mon = slices.mon
    BY <1>5 DEF clearReceiveStatus, ReceiverTypeOK
  <2> QED
    BY <1>5, <2>1, <2>2, SMT DEF clearReceiveStatus, ReceiverTypeOK, NoPosition, Position, Heights
<1> QED
  BY <1>1, <1>2, <1>3, <1>4, <1>5

\* The start of a new process.
LEMMA StartReceiverType ==
  ASSUME TypeInv, StartReceiver(bmc)
  PROVE  ReceiverTypeOK' /\ slices' = NoSlices
<1> USE DEF TypeInv, TypeOK
<1> DEFINE wipe   == bmc.rxSeq < 1
           blocks == IF wipe THEN {} ELSE db
           last   == IF wipe THEN 0 ELSE lastHeight
<1>1. bmc.height \in Nat /\ bmc.rxSeq \in Int
  BY DEF SenderTypeOK
<1>2. blocks \subseteq BlockHeights /\ last \in Nat
  BY DEF ReceiverTypeOK
<1>3. getFirstHeightForReceiveBlock(blocks) \in Nat
  BY <1>2 DEF getFirstHeightForReceiveBlock, FirstKeys
<1>4. resumeHeight(bmc, blocks, last) \in Nat
  <2> HIDE DEF blocks, last
  <2> QED
    BY <1>1, <1>2, <1>3, SMT DEF resumeHeight
<1>5. removeAllReceiveBlock(blocks) \subseteq BlockHeights
  BY <1>2 DEF removeAllReceiveBlock
<1>6. /\ brss' = <<>> /\ rsc' = NoStatus /\ blsc' = NoPosition /\ slices' = NoSlices
      /\ bseq' = IF bmc.rxSeq = 0 THEN 0 ELSE bmc.rxSeq + SequenceOffset
      /\ cursor' = resumeHeight(bmc, blocks, last)
      /\ db' = IF bmc.height > last THEN {} ELSE removeAllReceiveBlock(blocks)
      /\ lastHeight' = IF bmc.height > last THEN 0 ELSE last
  BY DEF StartReceiver
<1> HIDE DEF blocks, last
<1>7. bseq' \in Int
  BY <1>1, <1>6, SequenceOffsetAssumption, SMT
<1>8. db' \subseteq BlockHeights /\ lastHeight' \in Nat
  BY <1>2, <1>5, <1>6
<1>9. slices' \in [{"mon", "fin"} -> {<<>>} \union [{1} -> Seq(ReceiveStatus)]]
  BY <1>6, SMT DEF NoSlices
<1> QED
  BY <1>4, <1>6, <1>7, <1>8, <1>9, SMT DEF ReceiverTypeOK, NoPosition, Position, Heights

-----------------------------------------------------------------------------
(***************************************************************************)
(* The sender and the BMC.                                                 *)
(***************************************************************************)
LEMMA DequeueType ==
  ASSUME queue \in Seq(Id), NEW id
  PROVE  dequeue(id) \in Seq(Id)
<1> DEFINE I == {i \in 1..Len(queue) : queue[i] = id}
<1>1. dequeue(id) = SubSeq(queue, (IF I # {} THEN Min(I) ELSE 0) + 1, Len(queue))
  BY DEF dequeue, DropThrough, SelectInSeq
<1>2. SubSeq(queue, (IF I # {} THEN Min(I) ELSE 0) + 1, Len(queue)) \in Seq(Id)
  <2>1. I \in SUBSET (1..Len(queue))
    OBVIOUS
  <2> HIDE DEF I
  <2> QED
    BY <2>1, DropType
<1> QED
  BY <1>1, <1>2

LEMMA FinishType ==
  ASSUME txs \in Seq(Transaction), NEW i \in DOMAIN txs,
         NEW code \in Codes \union {Uncoded}, Finish(i, code)
  PROVE  txs' \in Seq(Transaction)
<1>1. txs[i] \in Transaction
  BY SeqLen, SMT
<1>2. [txs[i] EXCEPT !.st = "done", !.code = code] \in Transaction
  BY <1>1 DEF Transaction, States
<1> QED
  BY <1>2, UpdateList, RemoveAtList DEF Finish

\* The goroutines of the sender and the destination chain.
LEMMA SenderSteps ==
  ASSUME SenderTypeOK, NEW i \in DOMAIN txs
  PROVE  /\ Result(i) /\ UNCHANGED bmc => SenderTypeOK'
         /\ Forget(i) /\ UNCHANGED bmc => SenderTypeOK'
         /\ Execute(i) \/ Lose(i) \/ Revert(i) => SenderTypeOK'
<1>0. txs \in Seq(Transaction) /\ queue \in Seq(Id) /\ txs[i] \in Transaction
  BY SeqLen, SMT DEF SenderTypeOK
<1>1. ASSUME Result(i), UNCHANGED bmc PROVE SenderTypeOK'
  <2>1. [txs[i] EXCEPT !.st = "result"] \in Transaction
    BY <1>0 DEF Transaction, States
  <2>2. [txs EXCEPT ![i].st = "result"] = [txs EXCEPT ![i] = [txs[i] EXCEPT !.st = "result"]]
    BY <1>0
  <2>3. txs' \in Seq(Transaction)
    BY <1>0, <1>1, <2>1, <2>2, UpdateList, RemoveAtList DEF Result
  <2> QED
    BY <1>0, <1>1, <2>3, DequeueType DEF Result, SetQueue, SenderTypeOK
<1>2. ASSUME Forget(i), UNCHANGED bmc PROVE SenderTypeOK'
  BY <1>0, <1>2, RemoveAtList DEF Forget, SenderTypeOK
<1>3. ASSUME Execute(i) PROVE SenderTypeOK'
  <2> DEFINE m == txs[i].msg
  <2>1. m \in Message
    BY <1>0 DEF Transaction
  <2>2. Verdict(m) \in Codes
    BY DEF Verdict, Codes
  <2>3. After(m) \in [height : BlockHeights, rxSeq : Int]
    <3>1. CASE Verdict(m) # "SUCCESS"
      BY <3>1 DEF After, SenderTypeOK
    <3>2. CASE Verdict(m) = "SUCCESS"
      <4>1. m.bu \in BlockHeights
        BY <3>2 DEF Verdict
      <4>2. StartSeq(m.bu) \in Nat
        BY <4>1, StartSeqType
      <4> QED
        BY <2>1, <3>2, <4>1, <4>2, SequenceOffsetAssumption, SMT DEF After, SenderTypeOK, Message
    <3> QED
      BY <3>1, <3>2
  <2>4. txs' \in Seq(Transaction)
    BY <1>0, <1>3, <2>2, FinishType DEF Execute
  <2> QED
    BY <1>0, <1>3, <2>3, <2>4 DEF Execute, SenderTypeOK
<1>4. ASSUME Lose(i) PROVE SenderTypeOK'
  BY <1>0, <1>4, FinishType DEF Lose, SenderTypeOK
<1>5. ASSUME Revert(i) PROVE SenderTypeOK'
  <2>1. PICK code \in {"BMVUnknown", "BMVRevertInvalidBlockWitnessOld"} : Finish(i, code)
    BY <1>5 DEF Revert
  <2>2. code \in Codes
    BY DEF Codes
  <2> QED
    BY <1>0, <1>5, <2>1, <2>2, FinishType DEF Revert, SenderTypeOK
<1> QED
  BY <1>1, <1>2, <1>3, <1>4, <1>5

LEMMA OtherRelayType == ASSUME SenderTypeOK, OtherRelay PROVE SenderTypeOK'
BY EndSeqAssumption, SequenceOffsetAssumption, SMT DEF OtherRelay, SenderTypeOK, sndVars

LEMMA StartSenderType ==
  ASSUME SenderTypeOK, StartSender, UNCHANGED bmc
  PROVE  SenderTypeOK'
<1>1. ASSUME NEW i \in DOMAIN txs PROVE [txs[i] EXCEPT !.st = "orphan"] \in Transaction
  <2>1. txs[i] \in Transaction
    BY SeqLen, SMT DEF SenderTypeOK
  <2> QED
    BY <2>1 DEF Transaction, States
<1>2. txs' \in Seq(Transaction)
  BY <1>1, SeqLen, SMTT(60) DEF StartSender, SenderTypeOK
<1> QED
  BY <1>2, SMT DEF StartSender, SenderTypeOK

-----------------------------------------------------------------------------
(***************************************************************************)
(* The link.                                                               *)
(***************************************************************************)
\* Goroutine p moves to q and changes its local variables.
LEMMA LocalStep ==
  ASSUME TypeInv, NEW p \in Procs, NEW l \in Locals, NEW q \in Places,
         SetLoc(p, l), Goto(p, q)
  PROVE  /\ loc' \in [Procs -> Locals]
         /\ pc' \in [Procs -> Places]
         /\ q # "append" => StatusOK'
BY SMT DEF TypeInv, TypeOK, LinkTypeOK, SetLoc, Goto, StatusOK

\* handleRelayMessage returns.
LEMMA ReturnStep ==
  ASSUME TypeInv, NEW p \in Procs, Return(p)
  PROVE  /\ loc' \in [Procs -> Locals]
         /\ pc' \in [Procs -> Places]
         /\ StatusOK'
<1> DEFINE l == [Idle EXCEPT !.rs = loc[p].rs, !.done = loc[p].done]
<1>1. loc[p] \in Locals
  BY DEF TypeInv, TypeOK, LinkTypeOK
<1>2. l \in Locals
  BY <1>1, IdleType DEF Locals
<1>3. loc[p].ret \in Places \ {"append"}
  BY <1>1 DEF Locals, Places, Waiting
<1> QED
  BY <1>2, <1>3, LocalStep DEF Return

LEMMA RemoveReceiveStatusType ==
  ASSUME NEW list \in Seq(ReceiveStatus), NEW pos
  PROVE  removeReceiveStatus(list, pos) \in Seq(ReceiveStatus)
<1> DEFINE I == {i \in 1..Len(list) : Covers(pos, list[i])}
<1>1. removeReceiveStatus(list, pos) = SubSeq(list, (IF I # {} THEN Min(I) ELSE 0) + 1, Len(list))
  BY DEF removeReceiveStatus, DropThrough, SelectInSeq
<1>2. I \in SUBSET (1..Len(list))
  OBVIOUS
<1> HIDE DEF I
<1> QED
  BY <1>1, <1>2, DropType

\* appendRelayMessage appends one message and empties rmi.
LEMMA AppendRelayMessageType ==
  ASSUME LinkTypeOK, appendRelayMessage
  PROVE  rms' \in Seq(RelayMessage) /\ rmi' = EmptyRmi
<1> DEFINE rm == [id |-> MessageId(bls), bls |-> bls,
                  msg |-> [bu |-> rmi.bu, first |-> rmi.first, last |-> rmi.last],
                  sent |-> FALSE]
<1>1. rm \in RelayMessage
  BY DEF LinkTypeOK, RelayMessage, MessageId, Id, Position, Heights, Message
<1> QED
  BY <1>1, SeqAppend DEF appendRelayMessage, LinkTypeOK

Rmi == [bu : Heights, first : Nat, last : Nat, size : Int]

LEMMA EmptyRmiType == EmptyRmi \in Rmi
BY SMT DEF EmptyRmi, Heights, Rmi

\* A step of handleRelayMessage: what it has to show.
LEMMA HandleStep ==
  ASSUME TypeInv, NEW p \in Procs, NEW l \in Locals, NEW q \in Places \ {"append"},
         SetLoc(p, l), Goto(p, q), UNCHANGED <<rss, once>>,
         relayState' \in {relayState, "PENDING"},
         bls' \in {bls} \union Position,
         rms' \in {rms} \union Seq(RelayMessage),
         rmi' \in {rmi} \union Rmi,
         mtx' \in {mtx, p}
  PROVE  LinkTypeOK' /\ StatusOK'
<1>1. /\ relayState \in {"INIT", "RUNNING", "PENDING"} /\ bls \in Position
      /\ rms \in Seq(RelayMessage) /\ rss \in Seq(ReceiveStatus)
      /\ rmi \in Rmi /\ once \in BOOLEAN /\ mtx \in Procs \union {"none"}
  BY DEF TypeInv, TypeOK, LinkTypeOK, Rmi
<1>2. loc' \in [Procs -> Locals] /\ pc' \in [Procs -> Places] /\ StatusOK'
  BY LocalStep
<1>3. /\ relayState' \in {"INIT", "RUNNING", "PENDING"} /\ bls' \in Position
      /\ rms' \in Seq(RelayMessage) /\ rss' \in Seq(ReceiveStatus)
      /\ rmi' \in Rmi /\ once' \in BOOLEAN /\ mtx' \in Procs \union {"none"}
  BY <1>1
<1> QED
  BY <1>2, <1>3 DEF LinkTypeOK, Rmi

\* handleRelayMessage returns, with or without having held the mutex.
LEMMA ReturnType ==
  ASSUME TypeInv, NEW p \in Procs, Return(p), UNCHANGED <<relayState, bls, rms, rss, rmi, once>>,
         mtx' \in {mtx, "none"}
  PROVE  LinkTypeOK' /\ StatusOK'
<1>1. loc' \in [Procs -> Locals] /\ pc' \in [Procs -> Places] /\ StatusOK'
  BY ReturnStep
<1>2. LinkTypeOK
  BY DEF TypeInv, TypeOK
<1> QED
  BY <1>1, <1>2 DEF LinkTypeOK

\* startReceiverChannel.
LEMMA RecvSteps ==
  ASSUME TypeInv, Recv
  PROVE  LinkTypeOK' /\ StatusOK'
<1> USE DEF TypeInv, TypeOK, LinkTypeOK
<1>0. "recv" \in Procs /\ loc["recv"] \in Locals
  BY DEF Procs
<1>1. CASE ReceiveFromReceiver
  <2> DEFINE l == [loc["recv"] EXCEPT !.rs = rsc, !.rss = rss]
  <2>1. rsc \in ReceiveStatus
    BY <1>1 DEF ReceiveFromReceiver, ReceiverTypeOK
  <2>2. l \in Locals /\ l.rs \in ReceiveStatus
    BY <1>0, <2>1 DEF Locals
  <2>3. SetLoc("recv", l) /\ Goto("recv", "append")
    BY <1>1 DEF ReceiveFromReceiver
  <2>4. StatusOK'
    BY <1>0, <2>2, <2>3 DEF StatusOK, SetLoc
  <2> QED
    BY <1>0, <1>1, <2>2, <2>3, <2>4, LocalStep DEF ReceiveFromReceiver, Places
<1>2. CASE AppendReceiveStatus
  <2> DEFINE l == [loc["recv"] EXCEPT !.rss = <<>>]
  <2>1. l \in Locals
    <3>1. <<>> \in Seq(ReceiveStatus)
      BY SMT
    <3> QED
      BY <1>0, <3>1 DEF Locals
  <2>2. rss' \in Seq(ReceiveStatus)
    BY <1>0, <1>2, SeqAppend DEF AppendReceiveStatus, StatusOK, Locals
  <2> QED
    BY <1>0, <1>2, <2>1, <2>2, LocalStep, SMT DEF AppendReceiveStatus, Places
<1>3. CASE OnceDo
  <2> DEFINE l1 == [loc["recv"] EXCEPT !.seq = Last(rss).seq, !.ret = "check"]
             l2 == [loc["recv"] EXCEPT !.ret = "check"]
             rs == getReceiveStatusForHeight(rss, bls.height)
  <2>1. l2 \in Locals
    BY <1>0 DEF Locals
  <2>2. rs # NoStatus => l1 \in Locals
    <3>1. rs # NoStatus => Last(rss) \in ReceiveStatus
      BY StatusForHeight, SeqLen, SMT DEF getReceiveStatusForHeight, Last
    <3> QED
      BY <1>0, <3>1 DEF Locals, ReceiveStatus
  <2>3. \/ rs # NoStatus /\ SetLoc("recv", l1) /\ Goto("recv", "proof")
        \/ SetLoc("recv", l2) /\ Goto("recv", "handle")
    BY <1>3 DEF OnceDo
  <2>4. loc' \in [Procs -> Locals] /\ pc' \in [Procs -> Places] /\ StatusOK'
    <3> HIDE DEF l1, l2, rs
    <3> QED
      BY <1>0, <2>1, <2>2, <2>3, LocalStep, SMTT(60) DEF Places, Waiting
  <2> QED
    BY <1>3, <2>4 DEF OnceDo
<1>4. CASE CheckBehind
  BY <1>0, <1>4, IdleType, LocalStep, SMT DEF CheckBehind, Places, Waiting
<1> QED
  BY <1>1, <1>2, <1>3, <1>4 DEF Recv

\* handleRelayMessage, the steps that send.
LEMMA SendingSteps ==
  ASSUME TypeInv, NEW p \in Procs,
         \/ Lock(p) \/ SendRelayMessage(p) \/ Suspend(p) \/ SetPending(p) \/ SendDone(p)
  PROVE  LinkTypeOK' /\ StatusOK'
<1>0. loc[p] \in Locals /\ rms \in Seq(RelayMessage)
  BY DEF TypeInv, TypeOK, LinkTypeOK
<1>1. {"send", "suspend", "loop"} \subseteq Places \ {"append"}
  BY DEF Places, Waiting
<1>2. CASE Lock(p)
  <2>1. CASE relayState = "PENDING"
    BY <1>2, <2>1, ReturnType DEF Lock
  <2>2. CASE relayState # "PENDING"
    <3> DEFINE todo == Unsent(rms)
               l == [loc[p] EXCEPT !.todo = todo, !.first = TRUE]
    <3>1. SetLoc(p, l) /\ Goto(p, "send")
      BY <1>2, <2>2 DEF Lock
    <3>2. todo \in Seq(RelayMessage)
      BY <1>0, UnsentType
    <3> HIDE DEF todo
    <3>3. l \in Locals
      BY <1>0, <3>2 DEF Locals
    <3> HIDE DEF l
    <3> QED
      BY <1>1, <1>2, <2>2, <3>1, <3>3, HandleStep DEF Lock
  <2> QED
    BY <2>1, <2>2
<1>3. CASE SendRelayMessage(p)
  <2> DEFINE todo == Tail(loc[p].todo)
             l == [loc[p] EXCEPT !.todo = todo]
  <2>1. SetLoc(p, l)
    BY <1>3 DEF SendRelayMessage
  <2>2. Goto(p, "send")
    BY <1>3 DEF SendRelayMessage, Goto, TypeInv, TypeOK, LinkTypeOK
  <2>3. todo \in Seq(RelayMessage)
    BY <1>0, <1>3, SeqHeadTail DEF SendRelayMessage, Locals
  <2>4. rms' \in Seq(RelayMessage)
    <3>1. \A r \in RelayMessage : [r EXCEPT !.sent = TRUE] \in RelayMessage
      BY DEF RelayMessage
    <3> QED
      BY <1>0, <1>3, <3>1, MarkSentType DEF SendRelayMessage
  <2> HIDE DEF todo
  <2>5. l \in Locals
    BY <1>0, <2>3 DEF Locals
  <2> HIDE DEF l
  <2> QED
    BY <1>1, <1>3, <2>1, <2>2, <2>4, <2>5, HandleStep DEF SendRelayMessage
<1>4. CASE Suspend(p)
  <2> DEFINE todo == <<>>
             l == [loc[p] EXCEPT !.todo = todo]
  <2>1. SetLoc(p, l) /\ Goto(p, "suspend")
    BY <1>4 DEF Suspend
  <2>2. todo \in Seq(RelayMessage)
    BY SMT
  <2> HIDE DEF todo
  <2>3. l \in Locals
    BY <1>0, <2>2 DEF Locals
  <2> HIDE DEF l
  <2> QED
    BY <1>1, <1>4, <2>1, <2>3, HandleStep DEF Suspend
<1>5. CASE SetPending(p) \/ SendDone(p)
  <2>1. SetLoc(p, loc[p]) /\ Goto(p, "loop")
    BY <1>5 DEF SetPending, SendDone, SetLoc, TypeInv, TypeOK, LinkTypeOK
  <2> QED
    BY <1>0, <1>1, <1>5, <2>1, HandleStep DEF SetPending, SendDone
<1> QED
  BY <1>2, <1>3, <1>4, <1>5

LEMMA RmiBlockUpdate ==
  ASSUME NEW r \in Rmi, NEW bu \in Heights, NEW size \in Int
  PROVE  [r EXCEPT !.bu = bu, !.size = size] \in Rmi
BY DEF Rmi

LEMMA RmiMessageProof ==
  ASSUME NEW r \in Rmi, NEW first \in Nat, NEW last \in Nat, NEW size \in Int
  PROVE  [r EXCEPT !.first = first, !.last = last, !.size = size] \in Rmi
BY DEF Rmi

LEMMA ProofDone ==
  ASSUME NEW l \in Locals, NEW bu \in BOOLEAN, NEW seq \in Int, NEW first \in BOOLEAN,
         NEW todo \in Seq(RelayMessage)
  PROVE  [l EXCEPT !.bu = bu, !.seq = seq, !.first = first, !.todo = todo] \in Locals
BY DEF Locals

\* handleRelayMessage, the steps that build.
LEMMA BuildingSteps ==
  ASSUME TypeInv, NEW p \in Procs,
         \/ Loop(p) \/ NextReceiveStatus(p) \/ BuildBlockUpdate(p) \/ UpdateBMCLinkStatus(p)
         \/ BuildProof(p) \/ BuildProofNil(p) \/ AddProof(p) \/ AppendRelayMessage(p)
  PROVE  LinkTypeOK' /\ StatusOK'
<1>0. /\ loc[p] \in Locals /\ brss \in Seq(ReceiveStatus) /\ bls \in Position
      /\ rms \in Seq(RelayMessage) /\ rss \in Seq(ReceiveStatus) /\ rmi \in Rmi
      /\ LinkTypeOK
  BY DEF TypeInv, TypeOK, LinkTypeOK, ReceiverTypeOK, Rmi
<1>1. rss # <<>> => Last(rss) \in ReceiveStatus /\ Last(rss).seq \in Int
  <2>1. rss # <<>> => Last(rss) \in ReceiveStatus
    BY <1>0, SeqLen, SeqEmpty, SMT DEF Last
  <2> QED
    BY <2>1 DEF ReceiveStatus
<1>2. NoItem \in Item
  BY SMTT(60) DEF NoItem, Item, Heights
<1>3. loc[p].item \in Item
  BY <1>0 DEF Locals
<1>4. {"send", "handle", "next", "build", "update", "proof", "addproof"} \subseteq Places \ {"append"}
  BY DEF Places, Waiting
<1>5. CASE Loop(p)
  <2> DEFINE seq == Last(rss).seq
             l == [loc[p] EXCEPT !.bu = FALSE, !.seq = seq]
  <2>1. /\ UNCHANGED <<relayState, bls, rms, rss, rmi, once>>
        /\ \/ SetLoc(p, loc[p]) /\ Goto(p, "next") /\ UNCHANGED mtx
           \/ rss # <<>> /\ SetLoc(p, l) /\ Goto(p, "proof") /\ UNCHANGED mtx
           \/ Return(p) /\ mtx' = "none"
    BY <1>5 DEF Loop, SetLoc, TypeInv, TypeOK, LinkTypeOK
  <2>2. CASE SetLoc(p, loc[p]) /\ Goto(p, "next") /\ UNCHANGED mtx
    BY <1>0, <1>4, <2>1, <2>2, HandleStep
  <2>3. CASE rss # <<>> /\ SetLoc(p, l) /\ Goto(p, "proof") /\ UNCHANGED mtx
    <3>1. seq \in Int
      BY <1>1, <2>3
    <3> HIDE DEF seq
    <3>2. l \in Locals
      BY <1>0, <3>1 DEF Locals
    <3> HIDE DEF l
    <3> QED
      BY <1>4, <2>1, <2>3, <3>2, HandleStep
  <2> QED
    BY <2>1, <2>2, <2>3, ReturnType
<1>6. CASE NextReceiveStatus(p)
  <2> DEFINE index == nextReceiveIndex(bls)
             l == [loc[p] EXCEPT !.index = index]
  <2>1. SetLoc(p, l) /\ Goto(p, "build")
    BY <1>6 DEF NextReceiveStatus
  <2>2. index \in Nat
    BY <1>0, NextReceiveIndexType
  <2> HIDE DEF index
  <2>3. l \in Locals
    BY <1>0, <2>2 DEF Locals
  <2> HIDE DEF l
  <2> QED
    BY <1>4, <1>6, <2>1, <2>3, HandleStep DEF NextReceiveStatus
<1>7. CASE BuildBlockUpdate(p)
  <2> DEFINE bu == [NoItem EXCEPT !.height = brss[loc[p].index].height, !.rxSeq = bls.rxSeq]
             l  == [loc[p] EXCEPT !.index = 0, !.item = bu]
  <2>1. brss[loc[p].index] \in ReceiveStatus
    BY <1>0, <1>7, SeqLen DEF BuildBlockUpdate
  <2>2. bu \in Item
    BY <1>0, <1>2, <2>1 DEF Item, ReceiveStatus, Heights, Position
  <2>3. SetLoc(p, l) /\ Goto(p, "update")
    BY <1>7 DEF BuildBlockUpdate
  <2> HIDE DEF bu
  <2>4. l \in Locals
    BY <1>0, <2>2 DEF Locals
  <2> HIDE DEF l
  <2> QED
    BY <1>4, <1>7, <2>3, <2>4, HandleStep DEF BuildBlockUpdate
<1>8. CASE UpdateBMCLinkStatus(p)
  <2> DEFINE item  == loc[p].item
             rs    == getReceiveStatusForHeight(rss, item.height)
             seq   == IF rs # NoStatus THEN rs.seq ELSE Last(rss).seq
             total == rmi.size + BlockUpdateSize
             l     == [loc[p] EXCEPT !.item = NoItem, !.bu = TRUE, !.seq = seq]
  <2>1. seq \in Int
    <3>1. rs = NoStatus \/ rs \in ReceiveStatus
      BY <1>0, StatusForHeight
    <3>2. rs = NoStatus => rss # <<>>
      BY <1>8 DEF UpdateBMCLinkStatus
    <3> HIDE DEF rs
    <3> QED
      BY <1>1, <3>1, <3>2 DEF ReceiveStatus
  <2>2. SetLoc(p, l) /\ Goto(p, "proof")
    BY <1>8 DEF UpdateBMCLinkStatus
  <2>3. bls' \in Position
    BY <1>3, <1>8 DEF UpdateBMCLinkStatus, Position, Item
  <2>4. rmi' \in Rmi
    <3>1. rmi' = [rmi EXCEPT !.bu = item.height, !.size = total]
      BY <1>8 DEF UpdateBMCLinkStatus, addBlockUpdate
    <3>2. item.height \in Heights /\ rmi \in Rmi
      BY <1>0, <1>3 DEF Item
    <3>3. total \in Int
      BY <3>2, ReceiverAssumption, SMT DEF Rmi
    <3> HIDE DEF item, total
    <3> QED
      BY <3>1, <3>2, <3>3, RmiBlockUpdate
  <2> HIDE DEF seq
  <2>5. l \in Locals
    BY <1>0, <1>2, <2>1 DEF Locals
  <2> HIDE DEF l
  <2> QED
    BY <1>4, <1>8, <2>2, <2>3, <2>4, <2>5, HandleStep DEF UpdateBMCLinkStatus
<1>9. CASE BuildProof(p)
  <2> DEFINE mp == NextProof
             l  == [loc[p] EXCEPT !.item = mp]
  <2>1. TxSizeLimit - rmi.size \in Int
    BY <1>0, LinkAssumption, SMT DEF Rmi
  <2>2. mp \in Item
    BY <1>0, <1>9, <2>1, ProofType DEF BuildProof, NextProof
  <2>3. SetLoc(p, l) /\ Goto(p, "addproof")
    BY <1>9 DEF BuildProof
  <2> HIDE DEF mp
  <2>4. l \in Locals
    BY <1>0, <2>2 DEF Locals
  <2> HIDE DEF l
  <2> QED
    BY <1>4, <1>9, <2>3, <2>4, HandleStep DEF BuildProof
<1>10. CASE BuildProofNil(p)
  <2>1. SetLoc(p, loc[p]) /\ Goto(p, "proof")
    BY <1>10 DEF BuildProofNil, SetLoc, Goto, TypeInv, TypeOK, LinkTypeOK
  <2>2. rms' \in Seq(RelayMessage) /\ rmi' \in Rmi
    BY <1>0, <1>10, AppendRelayMessageType, EmptyRmiType DEF BuildProofNil
  <2> QED
    BY <1>0, <1>4, <1>10, <2>1, <2>2, HandleStep DEF BuildProofNil
<1>11. CASE AddProof(p)
  <2> DEFINE mp    == loc[p].item
             first == IF rmi.first = 0 THEN mp.first ELSE rmi.first
             total == rmi.size + ProofSize(mp.last - mp.first + 1)
             l     == [loc[p] EXCEPT !.item = NoItem]
  <2>1. l \in Locals
    BY <1>0, <1>2 DEF Locals
  <2>2. SetLoc(p, l) /\ Goto(p, "proof")
    BY <1>11 DEF AddProof
  <2>3. bls' \in Position
    BY <1>3, <1>11 DEF AddProof, Position, Item
  <2>4. rmi' \in Rmi
    <3>1. rmi' = [rmi EXCEPT !.first = first, !.last = mp.last, !.size = total]
      BY <1>11 DEF AddProof, addMessageProof
    <3>2. mp.first \in Nat /\ mp.last \in Nat
      BY <1>3 DEF Item
    <3>3. first \in Nat /\ rmi.size \in Int
      BY <1>0, <3>2 DEF Rmi
    <3>4. total \in Int
      BY <3>2, <3>3, ReceiverAssumption, SMTT(60) DEF ProofSize
    <3>5. rmi \in Rmi /\ first \in Nat
      BY <1>0, <3>3
    <3> HIDE DEF mp, first, total
    <3> QED
      BY <3>1, <3>2, <3>4, <3>5, RmiMessageProof
  <2> HIDE DEF l
  <2> QED
    BY <1>4, <1>11, <2>1, <2>2, <2>3, <2>4, HandleStep DEF AddProof
<1>12. CASE AppendRelayMessage(p)
  <2> DEFINE todo == IF mtx = p THEN Unsent(rms') ELSE <<>>
             l == [loc[p] EXCEPT !.bu = FALSE, !.seq = 0, !.first = FALSE, !.todo = todo]
             q == IF mtx = p THEN "send" ELSE "handle"
  <2>1. SetLoc(p, l) /\ Goto(p, q)
    BY <1>12 DEF AppendRelayMessage
  <2>2. rms' \in Seq(RelayMessage) /\ rmi' \in Rmi
    BY <1>0, <1>12, AppendRelayMessageType, EmptyRmiType DEF AppendRelayMessage
  <2>3. todo \in Seq(RelayMessage)
    BY <2>2, UnsentType, SMTT(60)
  <2> HIDE DEF todo
  <2>4. l \in Locals
    <3>1. FALSE \in BOOLEAN /\ 0 \in Int
      BY SMT
    <3> QED
      BY <1>0, <2>3, <3>1, ProofDone
  <2>5. q \in Places \ {"append"}
    BY <1>4
  <2> HIDE DEF l, q
  <2> QED
    BY <1>12, <2>1, <2>2, <2>4, <2>5, HandleStep DEF AppendRelayMessage
<1> QED
  BY <1>5, <1>6, <1>7, <1>8, <1>9, <1>10, <1>11, <1>12

\* startSenderChannel and result.
LEMMA ResultSteps ==
  ASSUME TypeInv, NEW i \in DOMAIN txs, TakeResult(i)
  PROVE  LinkTypeOK' /\ StatusOK'
<1> USE DEF TypeInv, TypeOK, LinkTypeOK
<1>0. /\ "send" \in Procs /\ loc["send"] \in Locals
      /\ txs[i] \in Transaction
      /\ bmc \in Position
  BY SeqLen, SMTT(60) DEF Procs, SenderTypeOK, Position, Heights
<1>1. CASE IgnoreResult(i)
  BY <1>1, LinkStutter DEF IgnoreResult, StatusOK, lnkVars
<1>2. CASE ResultSuccess(i)
  <2> DEFINE k == getRelayMessageForId(txs[i].id)
             pos == rms[k].bls
             done == removeRelayMessage(rms, pos)
             left == removeReceiveStatus(rss, pos)
             l == [loc["send"] EXCEPT !.done = pos, !.rms = done, !.rss = left]
  <2>1. pos \in Position
    BY <1>2, RelayMessageForId DEF ResultSuccess, KnownResult, RelayMessage
  <2>2. done \in Seq(RelayMessage) /\ left \in Seq(ReceiveStatus)
    BY RemoveRelayMessageType, RemoveReceiveStatusType
  <2>3. SetLoc("send", l) /\ Goto("send", "success")
    BY <1>2 DEF ResultSuccess
  <2>4. l \in Locals
    <3> HIDE DEF pos, done, left
    <3> QED
      BY <1>0, <2>1, <2>2 DEF Locals
  <2> HIDE DEF l
  <2>5. "success" \in Places
    BY DEF Places
  <2> QED
    BY <1>0, <1>2, <2>3, <2>4, <2>5, LocalStep DEF ResultSuccess
<1>3. CASE ResultRejected(i)
  <2> DEFINE code == txs[i].code
             l == [loc["send"] EXCEPT !.done = bmc, !.code = code]
  <2>1. code \in Codes \union {NoCode}
    BY <1>3 DEF ResultRejected, KnownResult, Codes
  <2>2. SetLoc("send", l) /\ Goto("send", "resync")
    BY <1>3 DEF ResultRejected
  <2>3. l \in Locals
    <3> HIDE DEF code
    <3> QED
      BY <1>0, <2>1 DEF Locals
  <2> HIDE DEF l
  <2>4. "resync" \in Places
    BY DEF Places, Waiting
  <2> QED
    BY <1>0, <1>3, <2>2, <2>3, <2>4, LocalStep DEF ResultRejected
<1> QED
  BY <1>1, <1>2, <1>3 DEF TakeResult

LEMMA SendSteps ==
  ASSUME TypeInv, SuccessRelayMessage \/ ReportFinalized \/ UpdateStatus
  PROVE  LinkTypeOK' /\ StatusOK'
<1> USE DEF TypeInv, TypeOK, LinkTypeOK
<1>0. "send" \in Procs /\ loc["send"] \in Locals
  BY DEF Procs
<1>1. loc["send"].rms \in Seq(RelayMessage) /\ loc["send"].rss \in Seq(ReceiveStatus)
      /\ loc["send"].done \in Position
  BY <1>0 DEF Locals
<1>2. {"handle", "idle"} \subseteq Places
  BY DEF Places, Waiting
<1>3. CASE SuccessRelayMessage
  <2> DEFINE l == [Idle EXCEPT !.done = loc["send"].done, !.ret = "report"]
  <2>1. l \in Locals
    BY <1>1, IdleType DEF Locals
  <2>2. SetLoc("send", l) /\ Goto("send", "handle")
    BY <1>3 DEF SuccessRelayMessage
  <2> HIDE DEF l
  <2> QED
    BY <1>0, <1>1, <1>2, <1>3, <2>1, <2>2, LocalStep DEF SuccessRelayMessage
<1>4. CASE ReportFinalized
  BY <1>0, <1>2, <1>4, IdleType, LocalStep DEF ReportFinalized
<1>5. CASE UpdateStatus
  <2>1. rms' \in Seq(RelayMessage)
    BY <1>5, SMT DEF UpdateStatus
  <2> QED
    BY <1>0, <1>1, <1>2, <1>5, <2>1, IdleType, LocalStep DEF UpdateStatus
<1> QED
  BY <1>3, <1>4, <1>5

\* What the link's goroutines do to the receiver and to the sender.
LEMMA LinkCalls ==
  ASSUME TypeInv, NEW p \in Procs, LinkStep(p)
  PROVE  ReceiverTypeOK' /\ CursorOK' /\ SenderTypeOK'
<1> USE DEF TypeInv, TypeOK
<1>0. UNCHANGED bmc
  BY DEF LinkStep
<1>1. CASE UNCHANGED <<rcvVars, sndVars>>
  BY <1>0, <1>1, ReceiverStutter, SenderStutter DEF CursorOK, rcvVars
<1>2. CASE SendRelayMessage(p)
  <2> DEFINE rm == Head(loc[p].todo)
             tx == [st |-> "pool", id |-> rm.id, msg |-> rm.msg, code |-> NoCode]
  <2>1. loc[p].todo \in Seq(RelayMessage) /\ loc[p].todo # <<>>
    BY <1>2 DEF LinkTypeOK, Locals, SendRelayMessage
  <2>2. rm \in RelayMessage
    BY <2>1, SeqHeadTail
  <2>3. tx \in Transaction /\ rm.id \in Id
    BY <2>2 DEF RelayMessage, Transaction, States
  <2>4. txs' = Append(txs, tx) /\ queue' \in {Append(queue, rm.id), queue}
    BY <1>2 DEF SendRelayMessage, Relay, SetQueue
  <2>5. SenderTypeOK'
    <3> HIDE DEF tx
    <3> QED
      BY <1>0, <2>3, <2>4, SeqAppend, SMTT(60) DEF SenderTypeOK
  <2> QED
    BY <1>2, <2>5, ReceiverStutter DEF SendRelayMessage, CursorOK, rcvVars
<1>3. CASE ReceiveFromReceiver
  BY <1>0, <1>3, SenderStutter DEF ReceiveFromReceiver, ReceiverTypeOK, CursorOK
<1>4. CASE ReportFinalized
  <2>1. loc["send"].done \in Position
    BY DEF LinkTypeOK, Locals, Procs
  <2> QED
    BY <1>0, <1>4, <2>1, SenderStutter DEF ReportFinalized, ReceiverTypeOK, CursorOK
<1>5. ASSUME NEW i \in DOMAIN txs, TakeResult(i)
      PROVE  ReceiverTypeOK' /\ CursorOK' /\ SenderTypeOK'
  <2>1. txs' = RemoveAt(txs, i) /\ UNCHANGED <<rcvVars, queue>>
    BY <1>5 DEF TakeResult, IgnoreResult, ResultSuccess, ResultRejected
  <2>2. SenderTypeOK'
    BY <1>0, <2>1, RemoveAtList DEF SenderTypeOK
  <2> QED
    BY <2>1, <2>2, ReceiverStutter DEF CursorOK, rcvVars
<1>6. \/ UNCHANGED <<rcvVars, sndVars>>
      \/ SendRelayMessage(p) \/ ReceiveFromReceiver \/ ReportFinalized
      \/ \E i \in DOMAIN txs : TakeResult(i)
  BY DEF LinkStep, Recv, Send, HandleRelayMessage, AppendReceiveStatus, OnceDo,
     CheckBehind,
         Lock, Suspend, SetPending, SendDone, Loop, NextReceiveStatus, BuildBlockUpdate,
         UpdateBMCLinkStatus, BuildProof, BuildProofNil, AddProof, AppendRelayMessage,
         SuccessRelayMessage, UpdateStatus
<1> QED
  BY <1>1, <1>2, <1>3, <1>4, <1>5, <1>6

-----------------------------------------------------------------------------
LEMMA TypeInit == Init => TypeInv
<1> SUFFICES ASSUME Init PROVE TypeInv
  OBVIOUS
<1> USE DEF Init
<1>1. /\ bmc \in [height : BlockHeights, rxSeq : Int]
      /\ LinkInit(bmc)
      /\ cursor \in Nat /\ bseq \in Int
  BY EndSeqAssumption, SequenceOffsetAssumption, SMTT(60)
<1>2. LinkTypeOK /\ StatusOK
  <2>1. bmc \in Position
    BY <1>1 DEF Position, Heights
  <2>2. rms \in Seq(RelayMessage) /\ rss \in Seq(ReceiveStatus)
    BY <1>1, SMT DEF LinkInit
  <2>3. "idle" \in Places
    BY DEF Places, Waiting
  <2> QED
    BY <1>1, <2>1, <2>2, <2>3, EmptyRmiType, IdleType
       DEF LinkInit, LinkTypeOK, StatusOK, Procs, Rmi
<1>3. ReceiverTypeOK /\ CursorOK
  <2>1. brss \in Seq(ReceiveStatus)
    BY SMT
  <2> QED
    BY <1>1, <2>1, SMT DEF ReceiverTypeOK, CursorOK, NoSlices, NoPosition, Position, Heights
<1>4. SenderTypeOK
  <2>1. queue \in Seq(Id) /\ txs \in Seq(Transaction)
    BY SMT DEF SenderInit
  <2> QED
    BY <1>1, <2>1 DEF SenderTypeOK
<1> QED
  BY <1>2, <1>3, <1>4 DEF TypeInv, TypeOK

LEMMA TypeStep == TypeInv /\ [Next]_vars => TypeInv'
<1> SUFFICES ASSUME TypeInv, [Next]_vars PROVE TypeInv'
  OBVIOUS
<1> USE DEF TypeInv, TypeOK
<1>1. ASSUME NEW p \in Procs, LinkStep(p) PROVE TypeInv'
  <2>1. LinkTypeOK' /\ StatusOK'
    BY <1>1, RecvSteps, ResultSteps, SendSteps, SendingSteps, BuildingSteps
       DEF LinkStep, Send, HandleRelayMessage
  <2>2. mode' = mode /\ crashes' = crashes
    BY <1>1 DEF LinkStep
  <2> QED
    BY <1>1, <2>1, <2>2, LinkCalls
<1>2. CASE ReceiverStep
  <2>1. ReceiverTypeOK' /\ CursorOK'
    BY <1>2, ReceiverSteps DEF ReceiverStep
  <2>2. UNCHANGED <<lnkVars, sndVars, bmc, mode, crashes>>
    BY <1>2 DEF ReceiverStep
  <2> QED
    BY <2>1, <2>2, LinkStutter, SenderStutter DEF StatusOK, lnkVars
<1>3. CASE SenderStep \/ ChainStep \/ Cleanup
  <2>1. SenderTypeOK'
    BY <1>3, SenderSteps, OtherRelayType DEF SenderStep, ChainStep, Cleanup
  <2>2. UNCHANGED <<lnkVars, rcvVars, mode, crashes>>
    BY <1>3 DEF SenderStep, ChainStep, Cleanup
  <2> QED
    BY <2>1, <2>2, LinkStutter, ReceiverStutter DEF StatusOK, CursorOK, lnkVars, rcvVars
<1>4. CASE Stop \/ Panic \/ Crash
  <2>1. /\ UNCHANGED <<lnkVars, rcvVars, sndVars, bmc, crashes>>
        /\ mode' \in {"run", "stopped", "panicked", "killed"}
    BY <1>4 DEF Stop, Panic, Crash, End
  <2> QED
    BY <2>1, LinkStutter, ReceiverStutter, SenderStutter
       DEF StatusOK, CursorOK, lnkVars, rcvVars
<1>5. CASE Restart
  <2>1. ReceiverTypeOK' /\ slices' = NoSlices
    BY <1>5, StartReceiverType DEF Restart
  <2>2. SenderTypeOK'
    BY <1>5, StartSenderType DEF Restart
  <2>3. LinkTypeOK'
    <3>1. bmc \in Position
      BY DEF SenderTypeOK, Position, Heights
    <3>2. rms' \in Seq(RelayMessage) /\ rss' \in Seq(ReceiveStatus)
      BY <1>5, SMT DEF Restart
    <3>3. "idle" \in Places
      BY DEF Places, Waiting
    <3> QED
      BY <1>5, <3>1, <3>2, <3>3, EmptyRmiType, IdleType DEF Restart, LinkTypeOK, Rmi
  <2>4. CursorOK'
    BY <2>1 DEF CursorOK, NoSlices
  <2>5. StatusOK'
    BY <1>5 DEF Restart, StatusOK, Procs
  <2>6. mode' = "run" /\ crashes' \in Nat
    BY <1>5, SMTT(60) DEF Restart
  <2> QED
    BY <2>1, <2>2, <2>3, <2>4, <2>5, <2>6
<1>6. CASE UNCHANGED vars
  BY <1>6, LinkStutter, ReceiverStutter, SenderStutter
     DEF vars, StatusOK, CursorOK, lnkVars, rcvVars
<1> QED
  BY <1>1, <1>2, <1>3, <1>4, <1>5, <1>6 DEF Next

\* The values of link.go's fields and of its goroutines' local variables, of
\* the receiver's fields and its database, and of the sender's queue are those
\* of TypeOK, in every state of the system.
THEOREM TypeCorrect == Spec => []TypeOK
<1>1. TypeInv => TypeOK
  BY DEF TypeInv
<1> QED
  BY <1>1, TypeInit, TypeStep, PTL DEF Spec

-----------------------------------------------------------------------------
(***************************************************************************)
(* The BMC's height only grows, and what is good stays good.               *)
(***************************************************************************)
LEMMA Grows ==
  ASSUME SenderTypeOK, SenderTypeOK', bmc.height <= bmc'.height
  PROVE  /\ \A h, bu \in Heights : Reached(h, bu) => Reached(h, bu)'
         /\ GoodMessages \subseteq GoodMessages'
         /\ GoodTransactions \subseteq GoodTransactions'
<1>1. bmc.height \in Nat /\ bmc'.height \in Nat
  BY DEF SenderTypeOK
<1>2. \A h, bu \in Heights : Reached(h, bu) => Reached(h, bu)'
  BY <1>1, HeightsNat, SMT DEF Reached
<1>3. GoodMessages \subseteq GoodMessages'
  <2> SUFFICES ASSUME NEW rm \in GoodMessages PROVE rm \in GoodMessages'
    OBVIOUS
  <2>1. rm.bls.height \in Heights /\ rm.msg.bu \in Heights
    BY DEF GoodMessages, RelayMessage, Position, Message, Heights
  <2> QED
    BY <1>2, <2>1 DEF GoodMessages
<1>4. GoodTransactions \subseteq GoodTransactions'
  <2> SUFFICES ASSUME NEW tx \in GoodTransactions PROVE tx \in GoodTransactions'
    OBVIOUS
  <2>1. tx.id[1] \in Heights /\ tx.msg.bu \in Heights
    BY DEF GoodTransactions, Transaction, Id, Message, Heights
  <2>2. tx.id[1] <= bmc.height => tx.id[1] <= bmc'.height
    <3>1. tx.id[1] \in Nat
      BY <2>1, HeightsNat
    <3> QED
      BY <1>1, <3>1, SMT
  <2> QED
    BY <1>2, <2>1, <2>2 DEF GoodTransactions
<1> QED
  BY <1>2, <1>3, <1>4

LEMMA SeqGrows ==
  ASSUME NEW S, NEW T, S \subseteq T, NEW s \in Seq(S)
  PROVE  s \in Seq(T)
BY SeqWider

\* Execution of a transaction: the BMC's height grows, and a message that is
\* taken has brought the BMC to the height of its id.
LEMMA VerdictHeight ==
  ASSUME SenderTypeOK, NEW m \in Message
  PROVE  /\ bmc.height <= After(m).height
         /\ \A h \in Heights : Reached(h, m.bu) /\ Verdict(m) = "SUCCESS" => h <= After(m).height
<1>1. bmc.height \in Nat /\ m.bu \in Heights
  BY DEF SenderTypeOK, Heights, Message
<1>2. CASE Verdict(m) = "SUCCESS"
  <2>1. m.bu \in BlockHeights /\ ~(m.bu <= bmc.height)
    BY <1>2 DEF Verdict
  <2>2. After(m).height = m.bu
    BY <1>2 DEF After
  <2> QED
    <3>1. m.bu \in Nat /\ m.bu # 0 /\ bmc.height < m.bu
      <4>1. m.bu \in Nat \ {0}
        BY <2>1
      <4> QED
        BY <1>1, <2>1, <4>1, SMT
    <3>2. ASSUME NEW h \in Heights, Reached(h, m.bu) PROVE h <= m.bu
      <4>1. h \in Nat
        BY HeightsNat
      <4> QED
        BY <1>1, <3>1, <3>2, <4>1, SMT DEF Reached
    <3> QED
      BY <1>1, <2>2, <3>1, <3>2, SMT
<1>3. CASE Verdict(m) # "SUCCESS"
  BY <1>1, <1>3, SMT DEF After
<1> QED
  BY <1>2, <1>3

-----------------------------------------------------------------------------
(***************************************************************************)
(* The steps of the destination chain and of the sender.                   *)
(***************************************************************************)
\* A transaction leaves the pool with a code.
LEMMA FinishGood ==
  ASSUME SentOut, SenderTypeOK, SenderTypeOK', bmc.height <= bmc'.height,
         NEW i \in DOMAIN txs, NEW code \in Codes \union {Uncoded}, Finish(i, code),
         code = "SUCCESS" => txs[i].id[1] <= bmc'.height
  PROVE  SentOut'
<1>1. txs \in Seq(GoodTransactions')
  BY Grows, SeqGrows DEF SentOut
<1>2. txs[i] \in Transaction
  BY SeqLen, SMT DEF SenderTypeOK
<1> DEFINE tx == [txs[i] EXCEPT !.st = "done", !.code = code]
<1>3. tx \in Transaction
  BY <1>2 DEF Transaction, States
<1>4. tx.st = "done" /\ tx.code = code /\ tx.id = txs[i].id
  BY <1>2 DEF Transaction
<1>5. tx \in GoodTransactions'
  <2> HIDE DEF tx
  <2> QED
    BY <1>3, <1>4 DEF GoodTransactions
<1>6. txs' \in Seq(GoodTransactions')
  <2>1. txs' = RemoveAt(txs, i) \/ txs' = [txs EXCEPT ![i] = tx]
    BY DEF Finish
  <2> HIDE DEF tx
  <2>2. RemoveAt(txs, i) \in Seq(GoodTransactions')
    BY <1>1, RemoveAtList
  <2>3. [txs EXCEPT ![i] = tx] \in Seq(GoodTransactions')
    BY <1>1, <1>5, UpdateList
  <2> QED
    BY <2>1, <2>2, <2>3
<1> QED
  BY <1>6 DEF SentOut

LEMMA ChainGood ==
  ASSUME TypeInv, SenderTypeOK', SentOut, ChainStep
  PROVE  SentOut' /\ bmc.height <= bmc'.height
<1>0. SenderTypeOK /\ bmc.height \in Nat
  BY DEF TypeInv, TypeOK, SenderTypeOK
<1>1. CASE OtherRelay
  <2>1. bmc.height <= bmc'.height /\ txs' = txs
    BY <1>0, <1>1, SMT DEF OtherRelay, IsNext, sndVars
  <2> QED
    BY <1>0, <2>1, Grows, SeqGrows DEF SentOut
<1>2. ASSUME NEW i \in DOMAIN txs, Execute(i) PROVE SentOut' /\ bmc.height <= bmc'.height
  <2> DEFINE m == txs[i].msg
  <2>1. txs[i] \in GoodTransactions
    BY SeqLen, SMT DEF SentOut
  <2>2. m \in Message /\ txs[i].id[1] \in Heights /\ Reached(txs[i].id[1], m.bu)
    BY <1>2, <2>1 DEF GoodTransactions, Transaction, Id, Heights, Execute, Pooled
  <2>3. bmc' = After(m) /\ Finish(i, Verdict(m))
    BY <1>2 DEF Execute
  <2>4. Verdict(m) \in Codes \union {Uncoded}
    BY DEF Verdict, Codes
  <2>5. /\ bmc.height <= bmc'.height
        /\ Verdict(m) = "SUCCESS" => txs[i].id[1] <= bmc'.height
    BY <1>0, <2>2, <2>3, VerdictHeight
  <2> QED
    BY <1>0, <2>3, <2>4, <2>5, FinishGood
<1>3. ASSUME NEW i \in DOMAIN txs, Lose(i) \/ Revert(i)
      PROVE  SentOut' /\ bmc.height <= bmc'.height
  <2>1. PICK code \in (Codes \union {Uncoded}) \ {"SUCCESS"} : Finish(i, code)
    BY <1>3 DEF Lose, Revert, Codes, Uncoded
  <2>2. bmc.height <= bmc'.height
    BY <1>0, <1>3, SMT DEF Lose, Revert
  <2> QED
    BY <1>0, <2>1, <2>2, FinishGood
<1> QED
  BY <1>1, <1>2, <1>3 DEF ChainStep

\* A goroutine of the sender moves on, or goes with its process.
LEMMA SenderGood ==
  ASSUME TypeInv, SentOut, NEW i \in DOMAIN txs, Result(i) \/ Forget(i), UNCHANGED bmc
  PROVE  SentOut'
<1>0. txs[i] \in GoodTransactions /\ txs[i] \in Transaction
  BY SeqLen, SMT DEF SentOut, GoodTransactions
<1>1. txs' = RemoveAt(txs, i) \/ (txs[i].st = "done" /\ txs' = [txs EXCEPT ![i].st = "result"])
  BY DEF Result, Forget
<1> DEFINE tx == [txs[i] EXCEPT !.st = "result"]
<1>2. [txs EXCEPT ![i].st = "result"] = [txs EXCEPT ![i] = tx]
  OBVIOUS
<1>3. tx \in Transaction /\ tx.st = "result" /\ tx.code = txs[i].code /\ tx.id = txs[i].id
  BY <1>0 DEF Transaction, States
<1> HIDE DEF tx
<1>4. tx \in GoodTransactions
  BY <1>0, <1>3 DEF GoodTransactions
<1>5. txs' \in Seq(GoodTransactions)
  <2>1. txs \in Seq(GoodTransactions)
    BY DEF SentOut
  <2>2. RemoveAt(txs, i) \in Seq(GoodTransactions)
    BY <2>1, RemoveAtList
  <2>3. [txs EXCEPT ![i] = tx] \in Seq(GoodTransactions)
    BY <1>4, <2>1, UpdateList
  <2> QED
    BY <1>1, <1>2, <2>2, <2>3
<1> QED
  BY <1>5 DEF SentOut, GoodTransactions, Reached

\* A new process: the transactions of the old one stay in the pool.
LEMMA RestartGood ==
  ASSUME TypeInv, SentOut, StartSender, UNCHANGED bmc
  PROVE  SentOut'
<1>1. ASSUME NEW i \in DOMAIN txs
      PROVE  [txs[i] EXCEPT !.st = "orphan"] \in GoodTransactions
  <2> DEFINE tx == [txs[i] EXCEPT !.st = "orphan"]
  <2>1. txs[i] \in GoodTransactions /\ txs[i] \in Transaction
    BY SeqLen, SMT DEF SentOut, GoodTransactions
  <2>2. /\ tx \in Transaction /\ tx.st = "orphan" /\ tx.code = txs[i].code
        /\ tx.id = txs[i].id /\ tx.msg = txs[i].msg
    BY <2>1 DEF Transaction, States
  <2>3. txs[i].st \in {"pool", "orphan"}
    BY DEF StartSender
  <2> HIDE DEF tx
  <2>4. tx \in GoodTransactions
    BY <2>1, <2>2, <2>3 DEF GoodTransactions
  <2> QED
    BY <2>4 DEF tx
<1>2. txs' \in Seq(GoodTransactions)
  BY <1>1, SeqLen, SMT DEF StartSender, SentOut
<1> QED
  BY <1>2 DEF SentOut, GoodTransactions, Reached
-----------------------------------------------------------------------------
(***************************************************************************)
(* The mutex.                                                              *)
(***************************************************************************)
\* Goroutine p goes to l with local variables v, and the mutex goes to m.
LEMMA LockedStep ==
  ASSUME TypeInv, Locked, NEW p \in Procs, NEW l \in Places, NEW v \in Locals,
         Goto(p, l), SetLoc(p, v),
         \/ mtx' = mtx
         \/ mtx = "none" /\ mtx' = p
         \/ mtx = p /\ mtx' = "none",
         l \in {"send", "suspend", "loop", "next", "build", "update"} \/ v.bu => mtx' = p
  PROVE  Locked'
<1>1. /\ pc' = [pc EXCEPT ![p] = l]
      /\ loc' = [loc EXCEPT ![p] = v]
      /\ pc \in [Procs -> Places] /\ loc \in [Procs -> Locals]
  BY DEF Goto, SetLoc, TypeInv, TypeOK, LinkTypeOK
<1>2. ASSUME NEW q \in Procs,
             pc'[q] \in {"send", "suspend", "loop", "next", "build", "update"} \/ loc'[q].bu
      PROVE  mtx' = q
  <2>1. CASE q = p
    BY <1>1, <1>2, <2>1
  <2>2. CASE q # p
    <3>1. mtx = q
      BY <1>1, <1>2, <2>2 DEF Locked
    <3> QED
      BY <2>2, <3>1 DEF Procs
  <2> QED
    BY <2>1, <2>2
<1> QED
  BY <1>2 DEF Locked

-----------------------------------------------------------------------------
(***************************************************************************)
(* The steps of the link's goroutines.                                     *)
(***************************************************************************)
LinkInv ==
  /\ Locked /\ Building /\ Built
  /\ \A p \in Procs : loc[p].done.height <= bmc.height

\* What goroutine p may make of its own local variables ...
GoodLocals(v) ==
  /\ v \in Locals
  /\ v.todo \in Seq(GoodMessages) /\ v.rms \in Seq(GoodMessages)
  /\ v.done.height <= bmc.height

LEMMA OwnLocals ==
  ASSUME TypeInv, LinkInv, NEW p \in Procs
  PROVE  GoodLocals(loc[p])
BY DEF TypeInv, TypeOK, LinkTypeOK, LinkInv, Built, GoodLocals

LEMMA IdleLocals ==
  ASSUME TypeInv
  PROVE  GoodLocals(Idle) /\ ~Idle.bu
<1>1. bmc.height \in Nat
  BY DEF TypeInv, TypeOK, SenderTypeOK
<1>2. <<>> \in Seq(GoodMessages)
  BY SMT
<1> QED
  BY <1>1, <1>2, IdleType, SMT DEF GoodLocals, Idle, NoPosition

\* ... and of the rest, so that everything stays in order.
LEMMA LinkInvStep ==
  ASSUME TypeInv, LinkInv, NEW p \in Procs, NEW l \in Places, NEW v, GoodLocals(v),
         Goto(p, l), SetLoc(p, v), UNCHANGED bmc,
         \/ mtx' = mtx
         \/ mtx = "none" /\ mtx' = p
         \/ mtx = p /\ mtx' = "none",
         l \in {"send", "suspend", "loop", "next", "build", "update"} \/ v.bu => mtx' = p,
         rms' \in Seq(GoodMessages),
         Reached(bls'.height, rmi'.bu),
         l = "addproof" /\ v.bu => Reached(v.item.height, rmi'.bu),
         rmi'.bu \in {rmi.bu, 0} \/ mtx = p
  PROVE  LinkInv'
<1>1. Locked'
  BY LockedStep DEF LinkInv, GoodLocals
<1>2. /\ pc' = [pc EXCEPT ![p] = l]
      /\ loc' = [loc EXCEPT ![p] = v]
      /\ pc \in [Procs -> Places] /\ loc \in [Procs -> Locals]
  BY DEF Goto, SetLoc, TypeInv, TypeOK, LinkTypeOK
<1>3. ASSUME NEW h, NEW bu, Reached(h, bu) PROVE Reached(h, bu)'
  BY <1>3 DEF Reached
<1>4. GoodMessages' = GoodMessages
  BY DEF GoodMessages, Reached
<1>5. Building'
  <2>1. Reached(bls.height, rmi.bu)'
    BY <1>3 DEF Reached
  <2>2. ASSUME NEW q \in Procs, pc'[q] = "addproof", loc'[q].bu
        PROVE  Reached(loc[q].item.height, rmi.bu)'
    <3>1. CASE q = p
      BY <1>2, <2>2, <3>1 DEF Reached
    <3>2. CASE q # p
      <4>1. pc[q] = "addproof" /\ loc[q].bu /\ loc'[q] = loc[q]
        BY <1>2, <2>2, <3>2
      <4>2. mtx = q /\ Reached(loc[q].item.height, rmi.bu)
        BY <4>1 DEF LinkInv, Locked, Building
      <4>3. rmi'.bu \in {rmi.bu, 0}
        BY <3>2, <4>2
      <4> QED
        BY <4>1, <4>2, <4>3 DEF Reached
    <3> QED
      BY <3>1, <3>2
  <2> QED
    BY <2>1, <2>2 DEF Building
<1>6. ASSUME NEW q \in Procs
      PROVE  /\ loc'[q].todo \in Seq(GoodMessages) /\ loc'[q].rms \in Seq(GoodMessages)
             /\ loc'[q].done.height <= bmc.height
  <2>1. loc'[q] = v \/ loc'[q] = loc[q]
    BY <1>2
  <2> QED
    BY <2>1 DEF LinkInv, Built, GoodLocals
<1>7. Built'
  BY <1>4, <1>6 DEF Built
<1> QED
  BY <1>1, <1>5, <1>6, <1>7 DEF LinkInv

\* The message that is appended is good, and the next one starts empty.
LEMMA GoodAppend ==
  ASSUME TypeInv, LinkInv, appendRelayMessage
  PROVE  rms' \in Seq(GoodMessages) /\ rmi'.bu = 0
<1> DEFINE rm == [id |-> MessageId(bls), bls |-> bls,
                  msg |-> [bu |-> rmi.bu, first |-> rmi.first, last |-> rmi.last],
                  sent |-> FALSE]
<1>1. rm \in RelayMessage
  BY DEF TypeInv, TypeOK, LinkTypeOK, RelayMessage, MessageId, Id, Position, Heights,
     Message
<1>2. rm.id[1] = rm.bls.height /\ Reached(rm.bls.height, rm.msg.bu)
  BY DEF MessageId, LinkInv, Building
<1>3. rms' = Append(rms, rm) /\ rmi' = EmptyRmi /\ rms \in Seq(GoodMessages)
  BY DEF appendRelayMessage, LinkInv, Built
<1> HIDE DEF rm
<1>4. rm \in GoodMessages
  BY <1>1, <1>2 DEF GoodMessages
<1> QED
  BY <1>3, <1>4, SeqAppend DEF EmptyRmi

LEMMA NewLocals ==
  ASSUME TypeInv, TypeInv', NEW p \in Procs, NEW v, SetLoc(p, v),
         v.todo \in Seq(GoodMessages), v.rms \in Seq(GoodMessages),
         v.done.height <= bmc.height
  PROVE  GoodLocals(v)
BY DEF TypeInv, TypeOK, LinkTypeOK, SetLoc, GoodLocals

\* A step that touches neither the messages nor the mutex.
LEMMA PlainStep ==
  ASSUME TypeInv, TypeInv', LinkInv, NEW p \in Procs, NEW l \in Places, NEW v,
         Goto(p, l), SetLoc(p, v), UNCHANGED <<bls, rms, rmi, mtx, bmc>>,
         v.todo \in Seq(GoodMessages), v.rms \in Seq(GoodMessages),
         v.done.height <= bmc.height,
         v.bu => mtx = p,
         l \in {"send", "suspend", "loop", "next", "build", "update"} => mtx = p,
         l # "addproof"
  PROVE  LinkInv'
<1>1. GoodLocals(v)
  BY NewLocals
<1>2. Reached(bls'.height, rmi'.bu) /\ rms' \in Seq(GoodMessages)
  BY DEF LinkInv, Building, Built
<1> QED
  BY <1>1, <1>2, LinkInvStep

\* What is known of goroutine p before a step.
LEMMA Before ==
  ASSUME TypeInv, LinkInv, NEW p \in Procs
  PROVE  /\ loc[p] \in Locals
         /\ loc[p].todo \in Seq(GoodMessages) /\ loc[p].rms \in Seq(GoodMessages)
         /\ loc[p].done.height <= bmc.height
         /\ loc[p].bu => mtx = p
         /\ pc[p] \in {"send", "suspend", "loop", "next", "build", "update"} => mtx = p
         /\ rms \in Seq(GoodMessages)
         /\ Reached(bls.height, rmi.bu)
BY DEF TypeInv, TypeOK, LinkTypeOK, LinkInv, Locked, Built, Building

\* startReceiverChannel.
LEMMA RecvGood ==
  ASSUME TypeInv, TypeInv', LinkInv, Recv, UNCHANGED bmc
  PROVE  LinkInv'
<1> DEFINE w == loc["recv"]
<1>0. "recv" \in Procs
  BY DEF Procs
<1>1. /\ w \in Locals /\ w.todo \in Seq(GoodMessages) /\ w.rms \in Seq(GoodMessages)
      /\ w.done.height <= bmc.height
      /\ w.bu => mtx = "recv"
  BY <1>0, Before
<1>2. CASE ReceiveFromReceiver
  <2> DEFINE v == [w EXCEPT !.rs = rsc, !.rss = rss]
  <2>1. v.todo = w.todo /\ v.rms = w.rms /\ v.done = w.done /\ v.bu = w.bu
    BY <1>1 DEF Locals
  <2>2. SetLoc("recv", v) /\ Goto("recv", "append") /\ UNCHANGED <<bls, rms, rmi, mtx>>
    BY <1>2 DEF ReceiveFromReceiver
  <2>3. "append" \in Places
    BY DEF Places
  <2> HIDE DEF v
  <2> QED
    BY <1>0, <1>1, <2>1, <2>2, <2>3, PlainStep
<1>3. CASE AppendReceiveStatus
  <2> DEFINE v == [w EXCEPT !.rss = <<>>]
             l == IF once THEN "check" ELSE "once"
  <2>1. v.todo = w.todo /\ v.rms = w.rms /\ v.done = w.done /\ v.bu = w.bu
    BY <1>1 DEF Locals
  <2>2. SetLoc("recv", v) /\ Goto("recv", l) /\ UNCHANGED <<bls, rms, rmi, mtx>>
    BY <1>3 DEF AppendReceiveStatus
  <2>3. l \in Places /\ l \in {"check", "once"}
    BY DEF Places
  <2> HIDE DEF v, l
  <2> QED
    BY <1>0, <1>1, <2>1, <2>2, <2>3, PlainStep
<1>4. CASE OnceDo
  <2> DEFINE v1 == [w EXCEPT !.seq = Last(rss).seq, !.ret = "check"]
             v2 == [w EXCEPT !.ret = "check"]
  <2>1. /\ v1.todo = w.todo /\ v1.rms = w.rms /\ v1.done = w.done /\ v1.bu = w.bu
        /\ v2.todo = w.todo /\ v2.rms = w.rms /\ v2.done = w.done /\ v2.bu = w.bu
    BY <1>1 DEF Locals
  <2>2. /\ \/ SetLoc("recv", v1) /\ Goto("recv", "proof")
           \/ SetLoc("recv", v2) /\ Goto("recv", "handle")
        /\ UNCHANGED <<bls, rms, rmi, mtx>>
    BY <1>4 DEF OnceDo
  <2>3. {"proof", "handle"} \subseteq Places
    BY DEF Places, Waiting
  <2> HIDE DEF v1, v2
  <2> QED
    BY <1>0, <1>1, <2>1, <2>2, <2>3, PlainStep
<1>5. CASE CheckBehind
  <2>1. /\ SetLoc("recv", Idle)
        /\ Goto("recv", "handle") \/ Goto("recv", "idle")
        /\ UNCHANGED <<bls, rms, rmi, mtx>>
    BY <1>5 DEF CheckBehind
  <2>2. {"handle", "idle"} \subseteq Places
    BY DEF Places, Waiting
  <2> QED
    BY <1>0, <2>1, <2>2, IdleLocals, PlainStep DEF GoodLocals
<1> QED
  BY <1>2, <1>3, <1>4, <1>5 DEF Recv

\* handleRelayMessage returns.
LEMMA ReturnGood ==
  ASSUME TypeInv, TypeInv', LinkInv, NEW p \in Procs, Return(p),
         UNCHANGED <<bls, rms, rmi, bmc>>,
         mtx' = mtx \/ (mtx = p /\ mtx' = "none")
  PROVE  LinkInv'
<1> DEFINE v == [Idle EXCEPT !.rs = loc[p].rs, !.done = loc[p].done]
           l == loc[p].ret
<1>1. v.todo = Idle.todo /\ v.rms = Idle.rms /\ v.done = loc[p].done /\ ~v.bu
  BY DEF Idle
<1>2. SetLoc(p, v) /\ Goto(p, l)
  BY DEF Return
<1>3. l \in {"idle", "check", "report"} /\ l \in Places
  BY Before DEF Locals, Places, Waiting
<1> HIDE DEF v, l
<1>4. GoodLocals(v)
  BY <1>1, <1>2, Before, IdleLocals, NewLocals DEF GoodLocals
<1>5. rms' \in Seq(GoodMessages) /\ Reached(bls'.height, rmi'.bu)
  BY Before
<1> QED
  BY <1>1, <1>2, <1>3, <1>4, <1>5, LinkInvStep

\* A good message that is marked as sent is good.
LEMMA MarkGood ==
  ASSUME NEW list \in Seq(GoodMessages), NEW rm
  PROVE  MarkSent(list, rm) \in Seq(GoodMessages)
<1>1. ASSUME NEW r \in GoodMessages PROVE [r EXCEPT !.sent = TRUE] \in GoodMessages
  <2> DEFINE s == [r EXCEPT !.sent = TRUE]
  <2>1. s \in RelayMessage /\ s.id = r.id /\ s.bls = r.bls /\ s.msg = r.msg
    BY DEF GoodMessages, RelayMessage
  <2> HIDE DEF s
  <2>2. s \in GoodMessages
    BY <2>1 DEF GoodMessages
  <2> QED
    BY <2>2 DEF s
<1> QED
  BY <1>1, MarkSentType

\* handleRelayMessage, the steps that send.
LEMMA SendingGood ==
  ASSUME TypeInv, TypeInv', LinkInv, NEW p \in Procs, UNCHANGED bmc,
         \/ Lock(p) \/ SendRelayMessage(p) \/ Suspend(p) \/ SetPending(p) \/ SendDone(p)
  PROVE  LinkInv'
<1> DEFINE w == loc[p]
<1>1. /\ w \in Locals /\ w.todo \in Seq(GoodMessages) /\ w.rms \in Seq(GoodMessages)
      /\ w.done.height <= bmc.height
      /\ w.bu => mtx = p
      /\ pc[p] \in {"send", "suspend", "loop", "next", "build", "update"} => mtx = p
      /\ rms \in Seq(GoodMessages)
      /\ Reached(bls.height, rmi.bu)
  BY Before
<1>2. {"send", "suspend", "loop"} \subseteq Places
  BY DEF Places, Waiting
<1>3. CASE Lock(p)
  <2>1. CASE relayState = "PENDING"
    BY <1>3, <2>1, ReturnGood DEF Lock
  <2>2. CASE relayState # "PENDING"
    <3> DEFINE todo == Unsent(rms)
               v == [w EXCEPT !.todo = todo, !.first = TRUE]
    <3>1. v.todo = todo /\ v.rms = w.rms /\ v.done = w.done
      BY <1>1 DEF Locals
    <3>2. /\ SetLoc(p, v) /\ Goto(p, "send")
          /\ UNCHANGED <<bls, rms, rmi>> /\ mtx = "none" /\ mtx' = p
      BY <1>3, <2>2 DEF Lock
    <3>3. todo \in Seq(GoodMessages)
      BY <1>1, UnsentType
    <3> HIDE DEF v, todo
    <3>4. GoodLocals(v)
      BY <1>1, <3>1, <3>2, <3>3, NewLocals
    <3> QED
      BY <1>1, <1>2, <3>2, <3>4, LinkInvStep
  <2> QED
    BY <2>1, <2>2
<1>4. CASE SendRelayMessage(p)
  <2> DEFINE v == [w EXCEPT !.todo = Tail(w.todo)]
  <2>1. v.todo = Tail(w.todo) /\ v.rms = w.rms /\ v.done = w.done /\ v.bu = w.bu
    BY <1>1 DEF Locals
  <2>2. /\ SetLoc(p, v) /\ Goto(p, "send")
        /\ UNCHANGED <<bls, rmi, mtx>> /\ mtx = p
        /\ rms' = MarkSent(rms, Head(w.todo))
        /\ w.todo # <<>>
    BY <1>1, <1>4 DEF SendRelayMessage, Goto, TypeInv, TypeOK, LinkTypeOK
  <2>3. Tail(w.todo) \in Seq(GoodMessages) /\ rms' \in Seq(GoodMessages)
    BY <1>1, <2>2, SeqHeadTail, MarkGood
  <2> HIDE DEF v
  <2>4. GoodLocals(v)
    BY <1>1, <2>1, <2>2, <2>3, NewLocals
  <2> QED
    BY <1>1, <1>2, <2>2, <2>3, <2>4, LinkInvStep
<1>5. CASE Suspend(p)
  <2> DEFINE v == [w EXCEPT !.todo = <<>>]
  <2>1. v.todo = <<>> /\ v.rms = w.rms /\ v.done = w.done /\ v.bu = w.bu
    BY <1>1 DEF Locals
  <2>2. SetLoc(p, v) /\ Goto(p, "suspend") /\ UNCHANGED <<bls, rms, rmi, mtx>> /\ mtx = p
    BY <1>1, <1>5 DEF Suspend
  <2>3. <<>> \in Seq(GoodMessages)
    BY SMTT(60)
  <2> HIDE DEF v
  <2> QED
    BY <1>1, <1>2, <2>1, <2>2, <2>3, PlainStep
<1>6. CASE SetPending(p) \/ SendDone(p)
  <2>1. SetLoc(p, w) /\ Goto(p, "loop") /\ UNCHANGED <<bls, rms, rmi, mtx>> /\ mtx = p
    BY <1>1, <1>6 DEF SetPending, SendDone, SetLoc, TypeInv, TypeOK, LinkTypeOK
  <2> QED
    BY <1>1, <1>2, <2>1, PlainStep
<1> QED
  BY <1>3, <1>4, <1>5, <1>6

\* A proof is one of the link's block.
LEMMA ProofHeight ==
  ASSUME NEW pos, NEW limit, BuildMessageProof(pos, limit) # NoItem
  PROVE  BuildMessageProof(pos, limit).height = pos.height
BY DEF BuildMessageProof

\* handleRelayMessage, the steps that build.
LEMMA BuildingGood ==
  ASSUME TypeInv, TypeInv', LinkInv, NEW p \in Procs, UNCHANGED bmc,
         \/ Loop(p) \/ NextReceiveStatus(p) \/ BuildBlockUpdate(p) \/ UpdateBMCLinkStatus(p)
         \/ BuildProof(p) \/ BuildProofNil(p) \/ AddProof(p) \/ AppendRelayMessage(p)
  PROVE  LinkInv'
<1> DEFINE w == loc[p]
<1>1. /\ w \in Locals /\ w.todo \in Seq(GoodMessages) /\ w.rms \in Seq(GoodMessages)
      /\ w.done.height <= bmc.height
      /\ w.bu => mtx = p
      /\ pc[p] \in {"send", "suspend", "loop", "next", "build", "update"} => mtx = p
      /\ rms \in Seq(GoodMessages)
      /\ Reached(bls.height, rmi.bu)
  BY Before
<1>2. {"send", "handle", "next", "build", "update", "proof", "addproof"} \subseteq Places
  BY DEF Places, Waiting
<1>3. CASE Loop(p)
  <2> DEFINE seq == Last(rss).seq
             v == [w EXCEPT !.bu = FALSE, !.seq = seq]
  <2>0. mtx = p
    BY <1>1, <1>3 DEF Loop
  <2>1. v.todo = w.todo /\ v.rms = w.rms /\ v.done = w.done /\ v.bu = FALSE
    <3> HIDE DEF seq
    <3> QED
      BY <1>1 DEF Locals
  <2>2. /\ UNCHANGED <<bls, rms, rmi>>
        /\ \/ SetLoc(p, w) /\ Goto(p, "next") /\ UNCHANGED mtx
           \/ SetLoc(p, v) /\ Goto(p, "proof") /\ UNCHANGED mtx
           \/ Return(p) /\ mtx' = "none"
    BY <1>3 DEF Loop, SetLoc, TypeInv, TypeOK, LinkTypeOK
  <2> HIDE DEF v
  <2>3. CASE SetLoc(p, w) /\ Goto(p, "next") /\ UNCHANGED mtx
    BY <1>1, <1>2, <2>0, <2>2, <2>3, PlainStep
  <2>4. CASE SetLoc(p, v) /\ Goto(p, "proof") /\ UNCHANGED mtx
    BY <1>1, <1>2, <2>1, <2>2, <2>4, PlainStep
  <2> QED
    BY <2>0, <2>2, <2>3, <2>4, ReturnGood
<1>4. CASE NextReceiveStatus(p)
  <2> DEFINE index == nextReceiveIndex(bls)
             v == [w EXCEPT !.index = index]
  <2>1. v.todo = w.todo /\ v.rms = w.rms /\ v.done = w.done /\ v.bu = w.bu
    <3> HIDE DEF index
    <3> QED
      BY <1>1 DEF Locals
  <2>2. SetLoc(p, v) /\ Goto(p, "build") /\ UNCHANGED <<bls, rms, rmi, mtx>> /\ mtx = p
    BY <1>1, <1>4 DEF NextReceiveStatus
  <2> HIDE DEF v
  <2> QED
    BY <1>1, <1>2, <2>1, <2>2, PlainStep
<1>5. CASE BuildBlockUpdate(p)
  <2> DEFINE bu == [NoItem EXCEPT !.height = brss[w.index].height, !.rxSeq = bls.rxSeq]
             v  == [w EXCEPT !.index = 0, !.item = bu]
  <2>1. SetLoc(p, v) /\ Goto(p, "update") /\ UNCHANGED <<bls, rms, rmi, mtx>> /\ mtx = p
    BY <1>1, <1>5 DEF BuildBlockUpdate
  <2> HIDE DEF bu
  <2>2. v.todo = w.todo /\ v.rms = w.rms /\ v.done = w.done /\ v.bu = w.bu
    BY <1>1 DEF Locals
  <2> HIDE DEF v
  <2> QED
    BY <1>1, <1>2, <2>1, <2>2, PlainStep
<1>6. CASE UpdateBMCLinkStatus(p)
  <2> DEFINE rs  == getReceiveStatusForHeight(rss, w.item.height)
             seq == IF rs # NoStatus THEN rs.seq ELSE Last(rss).seq
             v   == [w EXCEPT !.item = NoItem, !.bu = TRUE, !.seq = seq]
  <2>1. /\ SetLoc(p, v) /\ Goto(p, "proof") /\ UNCHANGED <<rms, mtx>> /\ mtx = p
        /\ bls'.height = w.item.height
        /\ rmi' = addBlockUpdate(w.item)
    BY <1>1, <1>6 DEF UpdateBMCLinkStatus
  <2>2. rmi'.bu = w.item.height
    BY <2>1 DEF addBlockUpdate, TypeInv, TypeOK, LinkTypeOK
  <2>3. Reached(bls'.height, rmi'.bu)
    <3>1. w.item.height \in Nat
      BY <1>1, HeightsNat DEF Locals, Item
    <3> QED
      BY <2>1, <2>2, <3>1, SMTT(60) DEF Reached
  <2> HIDE DEF seq
  <2>4. v.todo = w.todo /\ v.rms = w.rms /\ v.done = w.done
    BY <1>1 DEF Locals
  <2> HIDE DEF v
  <2>5. GoodLocals(v)
    BY <1>1, <2>1, <2>4, NewLocals
  <2> QED
    BY <1>1, <1>2, <2>1, <2>3, <2>5, LinkInvStep
<1>7. CASE BuildProof(p)
  <2> DEFINE mp == NextProof
             v  == [w EXCEPT !.item = mp]
  <2>1. SetLoc(p, v) /\ Goto(p, "addproof") /\ UNCHANGED <<bls, rms, rmi, mtx>>
    BY <1>7 DEF BuildProof
  <2>2. mp.height = bls.height
    BY <1>7, ProofHeight DEF BuildProof, NextProof
  <2> HIDE DEF mp
  <2>3. /\ v.todo = w.todo /\ v.rms = w.rms /\ v.done = w.done /\ v.bu = w.bu
        /\ v.item = mp
    BY <1>1 DEF Locals
  <2> HIDE DEF v
  <2>4. GoodLocals(v)
    BY <1>1, <2>1, <2>3, NewLocals
  <2>5. Reached(v.item.height, rmi'.bu)
    BY <1>1, <2>1, <2>2, <2>3
  <2> QED
    BY <1>1, <1>2, <2>1, <2>3, <2>4, <2>5, LinkInvStep
<1>8. CASE BuildProofNil(p)
  <2>1. /\ SetLoc(p, w) /\ Goto(p, "proof") /\ UNCHANGED <<bls, mtx>>
        /\ appendRelayMessage
    BY <1>8 DEF BuildProofNil, SetLoc, Goto, TypeInv, TypeOK, LinkTypeOK
  <2>2. rms' \in Seq(GoodMessages) /\ rmi'.bu = 0
    BY <2>1, GoodAppend
  <2>3. GoodLocals(w) /\ Reached(bls'.height, rmi'.bu)
    BY <2>2, OwnLocals DEF Reached
  <2> QED
    BY <1>1, <1>2, <2>1, <2>2, <2>3, LinkInvStep
<1>9. CASE AddProof(p)
  <2> DEFINE v == [w EXCEPT !.item = NoItem]
  <2>1. /\ SetLoc(p, v) /\ Goto(p, "proof") /\ UNCHANGED <<rms, mtx>>
        /\ bls'.height = w.item.height
        /\ rmi' = addMessageProof(w.item)
        /\ pc[p] = "addproof" /\ w.bu
    BY <1>9 DEF AddProof
  <2>2. rmi'.bu = rmi.bu
    BY <2>1 DEF addMessageProof, TypeInv, TypeOK, LinkTypeOK
  <2>3. Reached(bls'.height, rmi'.bu)
    BY <2>1, <2>2 DEF LinkInv, Building
  <2>4. v.todo = w.todo /\ v.rms = w.rms /\ v.done = w.done /\ v.bu = w.bu
    BY <1>1 DEF Locals
  <2> HIDE DEF v
  <2>5. GoodLocals(v)
    BY <1>1, <2>1, <2>4, NewLocals
  <2> QED
    BY <1>1, <1>2, <2>1, <2>2, <2>3, <2>4, <2>5, LinkInvStep
<1>10. CASE AppendRelayMessage(p)
  <2> DEFINE todo == IF mtx = p THEN Unsent(rms') ELSE <<>>
             l == IF mtx = p THEN "send" ELSE "handle"
             v == [w EXCEPT !.bu = FALSE, !.seq = 0, !.first = FALSE, !.todo = todo]
  <2>1. /\ SetLoc(p, v) /\ Goto(p, l) /\ UNCHANGED <<bls, mtx>>
        /\ appendRelayMessage \/ UNCHANGED <<rms, rmi>>
    BY <1>10 DEF AppendRelayMessage
  <2>2. rms' \in Seq(GoodMessages) /\ rmi'.bu \in {rmi.bu, 0}
    BY <1>1, <2>1, GoodAppend
  <2>3. Reached(bls'.height, rmi'.bu)
    BY <1>1, <2>1, <2>2 DEF Reached
  <2>4. todo \in Seq(GoodMessages)
    <3>1. <<>> \in Seq(GoodMessages)
      BY SMT
    <3> QED
      BY <2>2, <3>1, UnsentType
  <2> HIDE DEF todo
  <2>5. v.todo = todo /\ v.rms = w.rms /\ v.done = w.done /\ v.bu = FALSE
    BY <1>1 DEF Locals
  <2> HIDE DEF v
  <2>6. GoodLocals(v)
    BY <1>1, <2>1, <2>4, <2>5, NewLocals
  <2>7. l \in Places /\ l # "addproof" /\ (l \in {"send", "handle"}) /\ (l = "send" => mtx = p)
    BY <1>2
  <2> HIDE DEF l
  <2> QED
    BY <2>1, <2>2, <2>3, <2>5, <2>6, <2>7, LinkInvStep
<1> QED
  BY <1>3, <1>4, <1>5, <1>6, <1>7, <1>8, <1>9, <1>10

\* Steps that leave the link alone, with the BMC where it is or further on.
LEMMA LinkInvStutter ==
  ASSUME TypeInv, TypeInv', LinkInv, UNCHANGED lnkVars, bmc.height <= bmc'.height
  PROVE  LinkInv'
<1>1. SenderTypeOK /\ SenderTypeOK' /\ loc \in [Procs -> Locals]
      /\ bls.height \in Heights /\ rmi.bu \in Heights
  BY DEF TypeInv, TypeOK, LinkTypeOK, Position
<1>2. UNCHANGED <<bls, rms, rmi, mtx, pc, loc>>
  BY DEF lnkVars
<1>3. /\ \A h, bu \in Heights : Reached(h, bu) => Reached(h, bu)'
      /\ GoodMessages \subseteq GoodMessages'
  BY <1>1, Grows
<1>4. Locked'
  BY <1>2 DEF LinkInv, Locked
<1>5. Building'
  <2>1. \A p \in Procs : loc[p].item.height \in Heights
    BY <1>1 DEF Locals, Item
  <2>2. Reached(bls.height, rmi.bu)'
    BY <1>1, <1>2, <1>3 DEF LinkInv, Building, Reached
  <2>3. ASSUME NEW p \in Procs, pc[p] = "addproof", loc[p].bu
        PROVE  Reached(loc[p].item.height, rmi.bu)'
    <3>1. Reached(loc[p].item.height, rmi.bu)
      BY <2>3 DEF LinkInv, Building
    <3> QED
      BY <1>1, <1>2, <1>3, <2>1, <3>1 DEF Reached
  <2> QED
    BY <1>2, <2>2, <2>3 DEF Building
<1>6. Built'
  BY <1>2, <1>3, SeqGrows DEF LinkInv, Built
<1>7. ASSUME NEW p \in Procs PROVE loc'[p].done.height <= bmc'.height
  <2>1. loc[p].done.height \in Nat
    BY <1>1, HeightsNat DEF Locals, Position
  <2>2. bmc.height \in Nat /\ bmc'.height \in Nat
    BY <1>1 DEF SenderTypeOK
  <2>3. loc[p].done.height <= bmc.height
    BY DEF LinkInv
  <2> QED
    BY <1>2, <2>1, <2>2, <2>3, SMTT(60)
<1> QED
  BY <1>4, <1>5, <1>6, <1>7 DEF LinkInv

\* startSenderChannel and result.
LEMMA ResultGood ==
  ASSUME TypeInv, TypeInv', LinkInv, SentOut, NEW i \in DOMAIN txs, TakeResult(i),
         UNCHANGED bmc
  PROVE  LinkInv' /\ SentOut'
<1> DEFINE w == loc["send"]
<1>0. "send" \in Procs
  BY DEF Procs
<1>1. /\ w \in Locals /\ w.todo \in Seq(GoodMessages) /\ w.rms \in Seq(GoodMessages)
      /\ w.done.height <= bmc.height
      /\ w.bu => mtx = "send"
      /\ rms \in Seq(GoodMessages)
  BY <1>0, Before
<1>2. SentOut'
  <2>1. txs' = RemoveAt(txs, i)
    BY DEF TakeResult, IgnoreResult, ResultSuccess, ResultRejected
  <2>2. txs' \in Seq(GoodTransactions)
    BY <2>1, RemoveAtList DEF SentOut
  <2> QED
    BY <2>2 DEF SentOut, GoodTransactions, Reached
<1>3. CASE IgnoreResult(i)
  <2>1. bmc.height \in Nat /\ UNCHANGED lnkVars
    BY <1>3 DEF TypeInv, TypeOK, SenderTypeOK, IgnoreResult
  <2>2. bmc.height <= bmc'.height
    BY <2>1, SMT
  <2> QED
    BY <1>2, <2>1, <2>2, LinkInvStutter
<1>4. CASE ResultSuccess(i)
  <2> DEFINE k    == getRelayMessageForId(txs[i].id)
             pos  == rms[k].bls
             done == removeRelayMessage(rms, pos)
             left == removeReceiveStatus(rss, pos)
             v    == [w EXCEPT !.done = pos, !.rms = done, !.rss = left]
  <2>1. /\ SetLoc("send", v) /\ Goto("send", "success") /\ UNCHANGED <<bls, rms, rmi, mtx>>
        /\ k # 0 /\ txs[i].code = "SUCCESS"
    BY <1>4 DEF ResultSuccess, KnownResult
  <2>2. rms \in Seq(RelayMessage)
    BY DEF TypeInv, TypeOK, LinkTypeOK
  <2>3. k \in DOMAIN rms /\ rms[k].id = txs[i].id
    BY <2>1, <2>2, RelayMessageForId
  <2>4. rms[k] \in GoodMessages /\ txs[i] \in GoodTransactions
    BY <1>1, <2>3, SeqLen, SMTT(60) DEF SentOut
  <2>5. pos.height <= bmc.height
    <3>1. rms[k].id[1] = pos.height
      BY <2>4 DEF GoodMessages
    <3>2. txs[i].id[1] <= bmc.height
      BY <2>1, <2>4 DEF GoodTransactions
    <3> QED
      BY <2>3, <3>1, <3>2
  <2>6. done \in Seq(GoodMessages)
    BY <1>1, RemoveRelayMessageType
  <2> HIDE DEF pos, done, left
  <2>7. v.todo = w.todo /\ v.rms = done /\ v.done = pos /\ v.bu = w.bu
    BY <1>1 DEF Locals
  <2>8. "success" \in Places
    BY DEF Places
  <2> HIDE DEF v
  <2> QED
    BY <1>0, <1>1, <1>2, <2>1, <2>5, <2>6, <2>7, <2>8, PlainStep
<1>5. CASE ResultRejected(i)
  <2> DEFINE code == txs[i].code
             v == [w EXCEPT !.done = bmc, !.code = code]
  <2>1. SetLoc("send", v) /\ Goto("send", "resync") /\ UNCHANGED <<bls, rms, rmi, mtx>>
    BY <1>5 DEF ResultRejected
  <2> HIDE DEF code
  <2>2. v.todo = w.todo /\ v.rms = w.rms /\ v.done = bmc /\ v.bu = w.bu
    BY <1>1 DEF Locals
  <2>3. "resync" \in Places /\ bmc.height \in Nat
    BY DEF Places, Waiting, TypeInv, TypeOK, SenderTypeOK
  <2> HIDE DEF v
  <2>4. v.done.height <= bmc.height
    BY <2>2, <2>3, SMT
  <2> QED
    BY <1>0, <1>1, <1>2, <2>1, <2>2, <2>3, <2>4, PlainStep
<1> QED
  BY <1>2, <1>3, <1>4, <1>5 DEF TakeResult

LEMMA SendGood ==
  ASSUME TypeInv, TypeInv', LinkInv, UNCHANGED bmc,
         SuccessRelayMessage \/ ReportFinalized \/ UpdateStatus
  PROVE  LinkInv'
<1> DEFINE w == loc["send"]
<1>0. "send" \in Procs /\ {"handle", "idle"} \subseteq Places
  BY DEF Procs, Places, Waiting
<1>1. /\ w \in Locals /\ w.todo \in Seq(GoodMessages) /\ w.rms \in Seq(GoodMessages)
      /\ w.done.height <= bmc.height
      /\ rms \in Seq(GoodMessages)
      /\ Reached(bls.height, rmi.bu)
  BY <1>0, Before
<1>2. GoodLocals(Idle) /\ ~Idle.bu
  BY IdleLocals
<1>3. CASE SuccessRelayMessage
  <2> DEFINE v == [Idle EXCEPT !.done = w.done, !.ret = "report"]
  <2>1. /\ SetLoc("send", v) /\ Goto("send", "handle") /\ UNCHANGED <<bls, rmi, mtx>>
        /\ rms' = w.rms
    BY <1>3 DEF SuccessRelayMessage
  <2>2. v.todo = Idle.todo /\ v.rms = Idle.rms /\ v.done = w.done /\ ~v.bu
    BY DEF Idle
  <2> HIDE DEF v
  <2>3. GoodLocals(v)
    BY <1>0, <1>1, <1>2, <2>1, <2>2, NewLocals DEF GoodLocals
  <2> QED
    BY <1>0, <1>1, <2>1, <2>2, <2>3, LinkInvStep
<1>4. CASE ReportFinalized
  <2>1. SetLoc("send", Idle) /\ Goto("send", "idle") /\ UNCHANGED <<bls, rms, rmi, mtx>>
    BY <1>4 DEF ReportFinalized
  <2> QED
    BY <1>0, <1>1, <1>2, <2>1, PlainStep DEF GoodLocals
<1>5. CASE UpdateStatus
  <2> DEFINE l == IF w.code = "BMVNotVerifiable" THEN "handle" ELSE "idle"
  <2>1. /\ SetLoc("send", Idle) /\ Goto("send", l) /\ UNCHANGED <<rmi, mtx>>
        /\ bls' = w.done /\ rms' = <<>>
    BY <1>5 DEF UpdateStatus
  <2>2. l \in Places /\ l \in {"handle", "idle"}
    BY <1>0
  <2>3. rms' \in Seq(GoodMessages)
    BY <2>1, SMT
  <2>4. Reached(bls'.height, rmi'.bu)
    BY <1>1, <2>1 DEF Reached
  <2> HIDE DEF l
  <2> QED
    BY <1>0, <1>2, <2>1, <2>2, <2>3, <2>4, LinkInvStep
<1> QED
  BY <1>3, <1>4, <1>5

-----------------------------------------------------------------------------
(***************************************************************************)
(* FinalizedIsDelivered.                                                   *)
(***************************************************************************)
LEMMA DeliveryParts ==
  /\ DeliveryInv <=> (LinkInv /\ SentOut /\ blsc.height <= bmc.height)
  /\ DeliveryInv' <=> (LinkInv' /\ SentOut' /\ blsc'.height <= bmc'.height)
BY DEF DeliveryInv, LinkInv, Reported

LEMMA DeliveryInit == Init /\ TypeInv => DeliveryInv
<1> SUFFICES ASSUME Init, TypeInv PROVE DeliveryInv
  OBVIOUS
<1>1. TypeInv /\ bmc.height \in Nat
  BY DEF TypeInv, TypeOK, SenderTypeOK
<1>2. LinkInit(bmc) /\ txs = <<>> /\ blsc = NoPosition
  BY DEF Init, SenderInit
<1>3. GoodLocals(Idle) /\ ~Idle.bu
  BY <1>1, IdleLocals
<1>4. LinkInv
  <2>1. rms \in Seq(GoodMessages)
    BY <1>2, SMT DEF LinkInit
  <2>2. \A p \in Procs : loc[p] = Idle /\ pc[p] = "idle"
    BY <1>2 DEF LinkInit
  <2>3. Reached(bls.height, rmi.bu)
    BY <1>2 DEF LinkInit, EmptyRmi, Reached
  <2> QED
    BY <1>3, <2>1, <2>2, <2>3 DEF LinkInv, Locked, Building, Built, GoodLocals
<1>5. SentOut
  BY <1>2, SMT DEF SentOut
<1>6. blsc.height <= bmc.height
  BY <1>1, <1>2, SMT DEF NoPosition
<1> QED
  BY <1>4, <1>5, <1>6, DeliveryParts

\* What the link's goroutines hand to the sender and to FinalizedStatus.
LEMMA LinkCallsGood ==
  ASSUME TypeInv, TypeInv', DeliveryInv, NEW p \in Procs, LinkStep(p)
  PROVE  SentOut' /\ blsc'.height <= bmc'.height
<1>0. UNCHANGED bmc /\ LinkInv /\ SentOut /\ blsc.height <= bmc.height
  BY DeliveryParts DEF LinkStep
<1>1. txs' = txs => SentOut'
  BY <1>0 DEF SentOut, GoodTransactions, Reached
<1>2. CASE UNCHANGED <<rcvVars, sndVars>>
  BY <1>0, <1>1, <1>2 DEF rcvVars, sndVars
<1>3. CASE SendRelayMessage(p)
  <2> DEFINE rm == Head(loc[p].todo)
             tx == [st |-> "pool", id |-> rm.id, msg |-> rm.msg, code |-> NoCode]
  <2>1. loc[p].todo \in Seq(GoodMessages) /\ loc[p].todo # <<>>
    BY <1>0, <1>3, Before DEF SendRelayMessage
  <2>2. rm \in GoodMessages
    BY <2>1, SeqHeadTail
  <2>3. txs' = Append(txs, tx) /\ blsc' = blsc
    BY <1>3 DEF SendRelayMessage, Relay, rcvVars
  <2> HIDE DEF rm
  <2>4. tx \in Transaction
    BY <2>2 DEF GoodMessages, RelayMessage, Transaction, States
  <2>5. Reached(tx.id[1], tx.msg.bu) /\ tx.code # "SUCCESS"
    BY <2>2 DEF GoodMessages, NoCode
  <2> HIDE DEF tx
  <2>6. tx \in GoodTransactions
    BY <2>4, <2>5 DEF GoodTransactions
  <2>7. txs' \in Seq(GoodTransactions)
    BY <1>0, <2>3, <2>6, SeqAppend DEF SentOut
  <2>8. GoodTransactions' = GoodTransactions
    BY <1>0 DEF GoodTransactions, Reached
  <2> QED
    BY <1>0, <2>3, <2>7, <2>8 DEF SentOut
<1>4. CASE ReceiveFromReceiver
  BY <1>0, <1>1, <1>4 DEF ReceiveFromReceiver, sndVars
<1>5. CASE ReportFinalized
  <2>1. blsc' = loc["send"].done /\ txs' = txs
    BY <1>5 DEF ReportFinalized, sndVars
  <2> QED
    BY <1>0, <1>1, <2>1 DEF LinkInv, Procs
<1>6. ASSUME NEW i \in DOMAIN txs, TakeResult(i) PROVE SentOut' /\ blsc' = blsc
  BY <1>0, <1>6, ResultGood
     DEF TakeResult, IgnoreResult, ResultSuccess, ResultRejected, rcvVars
<1>7. \/ UNCHANGED <<rcvVars, sndVars>>
      \/ SendRelayMessage(p) \/ ReceiveFromReceiver \/ ReportFinalized
      \/ \E i \in DOMAIN txs : TakeResult(i)
  BY DEF LinkStep, Recv, Send, HandleRelayMessage, AppendReceiveStatus, OnceDo,
     CheckBehind,
         Lock, Suspend, SetPending, SendDone, Loop, NextReceiveStatus, BuildBlockUpdate,
         UpdateBMCLinkStatus, BuildProof, BuildProofNil, AddProof, AppendRelayMessage,
         SuccessRelayMessage, UpdateStatus
<1> QED
  BY <1>0, <1>2, <1>3, <1>4, <1>5, <1>6, <1>7

LEMMA DeliveryStep ==
  ASSUME TypeInv, TypeInv', DeliveryInv, [Next]_vars
  PROVE  DeliveryInv' /\ bmc.height <= bmc'.height
<1>0. /\ LinkInv /\ SentOut /\ blsc.height <= bmc.height
      /\ bmc.height \in Nat /\ bmc'.height \in Nat /\ blsc.height \in Nat
  BY DeliveryParts, HeightsNat
     DEF TypeInv, TypeOK, SenderTypeOK, ReceiverTypeOK, Position
<1>1. bmc' = bmc => GoodTransactions' = GoodTransactions
  BY DEF GoodTransactions, Reached
<1>2. ASSUME NEW p \in Procs, LinkStep(p) PROVE DeliveryInv' /\ bmc.height <= bmc'.height
  <2>1. UNCHANGED bmc
    BY <1>2 DEF LinkStep
  <2>2. LinkInv'
    BY <1>0, <1>2, <2>1, RecvGood, SendingGood, BuildingGood, ResultGood, SendGood
       DEF LinkStep, Send, HandleRelayMessage
  <2> QED
    BY <1>0, <1>2, <2>1, <2>2, LinkCallsGood, DeliveryParts, SMT
<1>3. CASE ReceiverStep
  <2>1. UNCHANGED <<lnkVars, bmc>> /\ txs' = txs /\ blsc' \in {blsc, NoPosition}
    BY <1>3 DEF ReceiverStep, sndVars, MonitorBlock, MonitorProgress, SendReceiveStatus,
                FinalizedStatus, clearReceiveStatus
  <2>2. LinkInv' /\ bmc.height <= bmc'.height
    BY <1>0, <2>1, LinkInvStutter, SMTT(60)
  <2>3. SentOut' /\ blsc'.height <= bmc'.height
    BY <1>0, <1>1, <2>1, SMTT(60) DEF SentOut, NoPosition
  <2> QED
    BY <2>2, <2>3, DeliveryParts
<1>4. CASE ChainStep
  <2>1. SentOut' /\ bmc.height <= bmc'.height
    BY <1>0, <1>4, ChainGood DEF TypeInv, TypeOK
  <2>2. UNCHANGED lnkVars /\ blsc' = blsc
    BY <1>4 DEF ChainStep, rcvVars
  <2>3. LinkInv' /\ blsc'.height <= bmc'.height
    BY <1>0, <2>1, <2>2, LinkInvStutter, SMTT(60)
  <2> QED
    BY <2>1, <2>3, DeliveryParts
<1>5. CASE SenderStep \/ Cleanup
  <2>1. UNCHANGED <<lnkVars, bmc>> /\ blsc' = blsc
    BY <1>5 DEF SenderStep, Cleanup, rcvVars
  <2>2. SentOut'
    BY <1>0, <1>5, <2>1, SenderGood DEF SenderStep, Cleanup
  <2>3. LinkInv' /\ bmc.height <= bmc'.height
    BY <1>0, <2>1, LinkInvStutter, SMTT(60)
  <2> QED
    BY <1>0, <2>1, <2>2, <2>3, DeliveryParts
<1>6. CASE Stop \/ Panic \/ Crash \/ UNCHANGED vars
  <2>1. UNCHANGED <<lnkVars, bmc>> /\ blsc' = blsc /\ txs' = txs
    BY <1>6 DEF Stop, Panic, Crash, End, vars, rcvVars, sndVars
  <2>2. LinkInv' /\ bmc.height <= bmc'.height
    BY <1>0, <2>1, LinkInvStutter, SMTT(60)
  <2> QED
    BY <1>0, <1>1, <2>1, <2>2, DeliveryParts DEF SentOut
<1>7. CASE Restart
  <2>1. UNCHANGED bmc /\ blsc' = NoPosition /\ StartSender
    BY <1>7 DEF Restart, StartReceiver
  <2>2. SentOut' /\ bmc.height <= bmc'.height
    BY <1>0, <2>1, RestartGood, SMTT(60)
  <2>3. LinkInv'
    <3>1. GoodLocals(Idle)' /\ ~Idle.bu
      BY <2>1, IdleLocals DEF GoodLocals, GoodMessages, Reached
    <3>2. /\ \A p \in Procs : loc'[p] = Idle /\ pc'[p] = "idle"
          /\ rms' = <<>> /\ rmi'.bu = 0
      BY <1>7 DEF Restart, EmptyRmi
    <3>3. rms' \in Seq(GoodMessages')
      BY <3>2, SMT
    <3>4. Reached(bls.height, rmi.bu)'
      BY <3>2 DEF Reached
    <3> QED
      BY <3>1, <3>2, <3>3, <3>4 DEF LinkInv, Locked, Building, Built, GoodLocals
  <2> QED
    BY <1>0, <2>1, <2>2, <2>3, DeliveryParts, SMTT(60) DEF NoPosition
<1> QED
  BY <1>2, <1>3, <1>4, <1>5, <1>6, <1>7 DEF Next

-----------------------------------------------------------------------------
(***************************************************************************)
(* BlocksRetained.                                                         *)
(***************************************************************************)
\* removeReceiveBlockByHeight keeps the blocks above height.
LEMMA RemoveKeeps ==
  ASSUME KeysOrdered, NEW heights \in SUBSET BlockHeights, NEW height \in Heights,
         NEW h \in heights, height < h
  PROVE  h \in removeReceiveBlockByHeight(heights, height)
<1>1. h \in Nat /\ height \in Nat /\ h \in Heights
  BY HeightsNat DEF Heights
<1>2. ~KeyBefore(h, height)
  BY <1>1, SMT DEF KeysOrdered, Heights
<1>3. h # height
  BY <1>1, SMT
<1> QED
  BY <1>2, <1>3 DEF removeReceiveBlockByHeight

\* While the BMC moves on and blocks above it stay stored.
LEMMA KeptGrows ==
  ASSUME TypeInv, TypeInv', bmc.height <= bmc'.height,
         \A h \in db : bmc.height < h => h \in db'
  PROVE  Kept \subseteq Kept'
<1>1. bmc.height \in Nat /\ bmc'.height \in Nat
  BY DEF TypeInv, TypeOK, SenderTypeOK
<1>2. ASSUME NEW rs \in Kept PROVE rs \in Kept'
  <2>1. rs \in ReceiveStatus /\ rs.height \in Nat
    BY DEF Kept, ReceiveStatus
  <2>2. CASE rs.height > bmc'.height
    <3>1. rs.height > bmc.height
      BY <1>1, <2>1, <2>2, SMT
    <3>2. rs.height \in db'
      BY <1>1, <2>1, <3>1 DEF Kept
    <3> QED
      BY <2>1, <3>2 DEF Kept
  <2>3. CASE ~(rs.height > bmc'.height)
    BY <2>1, <2>3 DEF Kept
  <2> QED
    BY <2>2, <2>3
<1> QED
  BY <1>2

LEMMA RetainedInit == Init => RetainedInv
<1> SUFFICES ASSUME Init PROVE RetainedInv
  OBVIOUS
<1>1. brss \in Seq(Kept)
  BY SMT DEF Init
<1> QED
  BY <1>1 DEF Init, NoSlices, RetainedInv

\* A step that leaves the receiver's lists alone.
LEMMA RetainedStutter ==
  ASSUME RetainedInv, Kept \subseteq Kept', UNCHANGED <<brss, slices, cursor, db>>,
         TypeInv, TypeInv', bmc.height <= bmc'.height
  PROVE  RetainedInv'
<1>1. cursor \in Nat /\ bmc.height \in Nat /\ bmc'.height \in Nat
  BY DEF TypeInv, TypeOK, ReceiverTypeOK, SenderTypeOK
<1>2. brss' \in Seq(Kept')
  BY SeqGrows DEF RetainedInv
<1>3. slices.mon # <<>> => slices.mon[1] \in Seq(Kept')
  BY SeqGrows, ZenonT(60) DEF RetainedInv
<1>4. slices.fin # <<>> => slices.fin[1] \in Seq(Kept')
  BY SeqGrows, ZenonT(60) DEF RetainedInv
<1>5. slices.mon # <<>> /\ cursor > bmc'.height => cursor \in db
  BY <1>1, SMT DEF RetainedInv
<1> QED
  BY <1>2, <1>3, <1>4, <1>5 DEF RetainedInv

\* The receiver's goroutines.
LEMMA ReceiverRetains ==
  ASSUME KeysOrdered, TypeInv, TypeInv', DeliveryInv, RetainedInv, ReceiverStep
  PROVE  RetainedInv'
<1>0. /\ brss \in Seq(Kept)
      /\ slices.mon # <<>> => slices.mon[1] \in Seq(Kept)
      /\ slices.mon # <<>> => (cursor > bmc.height => cursor \in db)
      /\ slices.fin # <<>> => slices.fin[1] \in Seq(Kept)
  BY DEF RetainedInv
<1>1. /\ db \in SUBSET BlockHeights /\ bmc.height \in Nat /\ bmc' = bmc
      /\ blsc.height \in Heights /\ blsc.height <= bmc.height
      /\ slices \in [{"mon", "fin"} -> {<<>>} \union [{1} -> Seq(ReceiveStatus)]]
  BY DEF TypeInv, TypeOK, ReceiverTypeOK, SenderTypeOK, Position, ReceiverStep,
         DeliveryInv, Reported
<1>2. \A h \in db : bmc.height < h => h \in db'
  <2>1. CASE FinalizedStatus
    <3>1. db' = removeReceiveBlockByHeight(db, blsc.height)
      BY <2>1 DEF FinalizedStatus
    <3>2. ASSUME NEW h \in db, bmc.height < h PROVE blsc.height < h
      <4>1. h \in Nat /\ blsc.height \in Nat
        BY <1>1, HeightsNat
      <4> QED
        BY <1>1, <3>2, <4>1, SMT
    <3> QED
      BY <1>1, <3>1, <3>2, RemoveKeeps
  <2>2. CASE ~FinalizedStatus
    BY <2>2 DEF ReceiverStep, MonitorBlock, MonitorProgress, SendReceiveStatus,
                clearReceiveStatus
  <2> QED
    BY <2>1, <2>2
<1>3. bmc.height <= bmc'.height
  BY <1>1, SMT
<1>4. Kept \subseteq Kept'
  BY <1>2, <1>3, KeptGrows
<1>5. /\ brss \in Seq(Kept')
      /\ slices.mon # <<>> => slices.mon[1] \in Seq(Kept')
      /\ slices.fin # <<>> => slices.fin[1] \in Seq(Kept')
  BY <1>0, <1>4, SeqGrows, ZenonT(60)
<1>6. CASE MonitorProgress
  BY <1>5, <1>6 DEF MonitorProgress, Notified, RetainedInv
<1>7. CASE MonitorBlock
  <2>1. PICK k \in BlockHeights : MonitorBlock!2!(k)
    BY <1>7 DEF MonitorBlock
  <2>2. slices.mon = <<>> /\ brss' = brss /\ cursor' = k
    BY <1>7, <2>1 DEF MonitorBlock, Notified
  <2>3. CASE k = StartHeight
    BY <1>5, <2>1, <2>2, <2>3 DEF RetainedInv
  <2>4. CASE k # StartHeight
    <3>1. db' = db \union {k} /\ slices' = [slices EXCEPT !.mon = <<brss>>]
      BY <2>1, <2>4
    <3>2. slices'.mon = <<brss>> /\ slices'.fin = slices.fin /\ k \in db'
      BY <1>1, <3>1
    <3> QED
      BY <1>5, <2>2, <3>2, SMT DEF RetainedInv
  <2> QED
    BY <2>3, <2>4
<1>8. CASE SendReceiveStatus
  <2>1. /\ slices.mon # <<>> /\ rsc' = [height |-> cursor, seq |-> bseq]
        /\ brss' = Append(slices.mon[1], rsc')
        /\ slices'.mon = <<>> /\ slices'.fin = slices.fin
        /\ db' = db
    BY <1>1, <1>8 DEF SendReceiveStatus
  <2>2. rsc' \in ReceiveStatus
    BY <2>1 DEF TypeInv, TypeOK, CursorOK, ReceiverTypeOK, ReceiveStatus
  <2>3. rsc' \in Kept'
    <3>1. rsc'.height = cursor
      BY <2>1
    <3> QED
      BY <1>0, <1>1, <2>1, <2>2, <3>1 DEF Kept
  <2>4. brss' \in Seq(Kept')
    BY <1>5, <2>1, <2>3, SeqAppend
  <2> QED
    BY <1>5, <2>1, <2>4 DEF RetainedInv
<1>9. CASE FinalizedStatus
  <2>1. Cleared(blsc) \in Seq(Kept')
    BY <1>5, CoveredType
  <2>2. /\ slices'.mon = slices.mon /\ brss' = brss /\ cursor' = cursor
        /\ slices'.fin = <<Cleared(blsc)>> \/ slices'.fin = slices.fin
    BY <1>1, <1>9 DEF FinalizedStatus
  <2>3. slices'.fin # <<>> => slices'.fin[1] \in Seq(Kept')
    BY <1>5, <2>1, <2>2, SMT
  <2> QED
    BY <1>0, <1>1, <1>2, <1>5, <2>2, <2>3 DEF RetainedInv
<1>10. CASE clearReceiveStatus
  <2>1. /\ slices.fin # <<>> /\ brss' = slices.fin[1] /\ slices'.fin = <<>>
        /\ slices'.mon = slices.mon /\ cursor' = cursor /\ db' = db
    BY <1>1, <1>10 DEF clearReceiveStatus
  <2> QED
    BY <1>0, <1>1, <1>5, <2>1 DEF RetainedInv
<1> QED
  BY <1>6, <1>7, <1>8, <1>9, <1>10 DEF ReceiverStep

LEMMA RetainedStep ==
  ASSUME KeysOrdered, TypeInv, TypeInv', DeliveryInv, RetainedInv, [Next]_vars
  PROVE  RetainedInv'
<1>1. bmc.height <= bmc'.height
  BY DeliveryStep
<1>2. CASE ReceiverStep
  BY <1>2, ReceiverRetains
<1>3. CASE Restart
  <2>1. brss' = <<>> /\ slices' = NoSlices
    BY <1>3 DEF Restart, StartReceiver
  <2>2. brss' \in Seq(Kept')
    BY <2>1, SMT
  <2> QED
    BY <2>1, <2>2 DEF RetainedInv, NoSlices
<1>4. CASE UNCHANGED <<brss, slices, cursor, db>>
  <2>1. Kept \subseteq Kept'
    BY <1>1, <1>4, KeptGrows
  <2> QED
    BY <1>1, <1>4, <2>1, RetainedStutter
<1>5. ASSUME NEW p \in Procs, LinkStep(p) PROVE UNCHANGED <<brss, slices, cursor, db>>
  BY <1>5 DEF LinkStep, Recv, Send, TakeResult, HandleRelayMessage, ReceiveFromReceiver,
         AppendReceiveStatus, OnceDo, CheckBehind, Lock, SendRelayMessage, Suspend, SetPending,
         SendDone, Loop, NextReceiveStatus, BuildBlockUpdate, UpdateBMCLinkStatus, BuildProof,
         BuildProofNil, AddProof, AppendRelayMessage, IgnoreResult, ResultSuccess,
         ResultRejected, SuccessRelayMessage, ReportFinalized, UpdateStatus, rcvVars
<1>6. ASSUME SenderStep \/ ChainStep \/ Stop \/ Panic \/ Crash \/ Cleanup \/ UNCHANGED vars
      PROVE  UNCHANGED <<brss, slices, cursor, db>>
  BY <1>6 DEF SenderStep, ChainStep, Stop, Panic, Crash, Cleanup, End, vars, rcvVars
<1> QED
  BY <1>2, <1>3, <1>4, <1>5, <1>6 DEF Next

LEMMA RetainedBlocks == RetainedInv => BlocksRetained
<1> SUFFICES ASSUME RetainedInv, NEW i \in DOMAIN brss, brss[i].height > bmc.height
             PROVE  brss[i].height \in db
  BY DEF BlocksRetained
<1>1. brss[i] \in Kept
  BY SeqLen, SMT DEF RetainedInv
<1> QED
  BY <1>1 DEF Kept

-----------------------------------------------------------------------------
(***************************************************************************)
(* Delivery: each step of the relay is a step of it or changes nothing it  *)
(* sees.                                                                   *)
(***************************************************************************)
seenVars == <<bmc.height, cursor, db, crashes>>

-----------------------------------------------------------------------------
(***************************************************************************)
(* The BMC, and the receiver's goroutines.                                 *)
(***************************************************************************)
\* The only block between a height and the block that follows it is that block.
LEMMA NextBetween ==
  ASSUME NEW h \in Nat, NEW k, IsNext(h, k)
  PROVE  k \in BlockHeights /\ h < k /\ Promise!Between(h, k) = {k}
<1>1. k \in Nat /\ h < k /\ k \in BlockHeights
  BY DEF IsNext
<1>2. ASSUME NEW j \in BlockHeights, h < j, j <= k PROVE j = k
  BY <1>1, <1>2, SMTT(60) DEF IsNext
<1>3. {j \in BlockHeights : h < j /\ j <= k} = {k}
  <2>1. k <= k
    BY <1>1, SMT
  <2> QED
    BY <1>1, <1>2, <2>1
<1> QED
  BY <1>1, <1>3 DEF Promise!Between

\* The BMC takes a block only if it is the next one.
LEMMA ChainTakes ==
  ASSUME TypeInv, ChainStep
  PROVE  Promise!Take \/ UNCHANGED seenVars
<1>0. bmc.height \in Nat /\ UNCHANGED <<cursor, db, crashes>>
  BY DEF TypeInv, TypeOK, SenderTypeOK, ChainStep, rcvVars
<1>1. ASSUME NEW k, IsNext(bmc.height, k), bmc'.height = k
      PROVE  Promise!Take
  BY <1>0, <1>1, NextBetween DEF Promise!Take
<1>2. CASE OtherRelay
  <2>1. PICK k \in BlockHeights :
          /\ IsNext(bmc.height, k)
          /\ bmc' = [height |-> k, rxSeq |-> EndSeq[k] - SequenceOffset]
    BY <1>2 DEF OtherRelay
  <2>2. bmc'.height = k
    BY <2>1
  <2> QED
    BY <1>1, <2>1, <2>2
<1>3. ASSUME NEW i \in DOMAIN txs, Execute(i) PROVE Promise!Take \/ UNCHANGED seenVars
  <2> DEFINE m == txs[i].msg
  <2>1. bmc' = After(m)
    BY <1>3 DEF Execute
  <2>2. CASE Verdict(m) = "SUCCESS"
    <3>1. IsNext(bmc.height, m.bu)
      BY <2>2 DEF Verdict
    <3>2. bmc'.height = m.bu
      BY <2>1, <2>2 DEF After
    <3> QED
      BY <1>1, <3>1, <3>2
  <2>3. CASE Verdict(m) # "SUCCESS"
    BY <1>0, <2>1, <2>3 DEF After, seenVars
  <2> QED
    BY <2>2, <2>3
<1>4. ASSUME NEW i \in DOMAIN txs, Lose(i) \/ Revert(i) PROVE UNCHANGED seenVars
  BY <1>0, <1>4 DEF Lose, Revert, seenVars
<1> QED
  BY <1>2, <1>3, <1>4 DEF ChainStep

\* The monitor's callback stores every block it passes but the network's first.
LEMMA MonitorReads ==
  ASSUME TypeInv, MonitorBlock \/ MonitorProgress, UNCHANGED <<bmc, crashes>>
  PROVE  Promise!Read
<1>0. cursor \in Nat
  BY DEF TypeInv, TypeOK, ReceiverTypeOK
<1>1. CASE MonitorBlock
  <2>1. PICK k \in BlockHeights :
          /\ IsNext(cursor, k) /\ cursor' = k
          /\ k = StartHeight => db' = db
          /\ k # StartHeight => db' = db \union {k}
    BY <1>1 DEF MonitorBlock
  <2>2. cursor < cursor' /\ Promise!Between(cursor, cursor') = {k}
    BY <1>0, <2>1, NextBetween
  <2>3. db' = db \union ({k} \ {StartHeight})
    BY <2>1
  <2> QED
    BY <2>1, <2>2, <2>3 DEF Promise!Read
<1>2. CASE MonitorProgress
  <2>1. PICK n \in (cursor + 1)..(Max(BlockHeights) + 1) :
          BlockHeights \intersect (cursor + 1)..n = {} /\ cursor' = n
    BY <1>2 DEF MonitorProgress
  <2>2. n \in Int /\ cursor < n
    BY <1>0, <2>1, SMT
  <2>3. Promise!Between(cursor, cursor') = {}
    <3>1. ASSUME NEW k \in BlockHeights, cursor < k, k <= n PROVE FALSE
      BY <1>0, <2>1, <2>2, <3>1, SMT
    <3>2. {k \in BlockHeights : cursor < k /\ k <= n} = {}
      BY <3>1
    <3> QED
      BY <2>1, <3>2 DEF Promise!Between
  <2>4. db' = db
    BY <1>2 DEF MonitorProgress
  <2> QED
    BY <2>1, <2>2, <2>3, <2>4 DEF Promise!Read
<1> QED
  BY <1>1, <1>2

\* FinalizedStatus deletes what the BMC has: what it was told is what the BMC
\* has taken, and the keys it deletes are those of lower heights.
LEMMA FinalizedReleases ==
  ASSUME KeysOrdered, TypeInv, DeliveryInv, FinalizedStatus, UNCHANGED <<bmc, crashes>>
  PROVE  Promise!Release
<1>1. /\ db \in SUBSET BlockHeights /\ blsc.height \in Heights
      /\ bmc.height \in Nat /\ blsc.height <= bmc.height
  BY DEF TypeInv, TypeOK, ReceiverTypeOK, SenderTypeOK, Position, DeliveryInv, Reported
<1>2. db' = removeReceiveBlockByHeight(db, blsc.height) /\ cursor' = cursor
  BY DEF FinalizedStatus
<1>3. db' \subseteq db
  BY <1>2 DEF removeReceiveBlockByHeight
<1>4. ASSUME NEW h \in db \ db' PROVE h <= bmc.height
  <2>1. ~(blsc.height < h)
    BY <1>1, <1>2, <1>4, RemoveKeeps
  <2>2. h \in Nat /\ blsc.height \in Nat
    BY <1>1, HeightsNat
  <2> QED
    BY <1>1, <2>1, <2>2, SMT
<1> QED
  BY <1>2, <1>3, <1>4 DEF Promise!Release

-----------------------------------------------------------------------------
(***************************************************************************)
(* All steps.                                                              *)
(***************************************************************************)
\* The link changes none of it: it only talks to the receiver and the sender.
LEMMA LinkKeeps ==
  ASSUME NEW p \in Procs, LinkStep(p)
  PROVE  UNCHANGED seenVars
<1>0. UNCHANGED <<bmc, crashes>>
  BY DEF LinkStep
<1>1. CASE Recv
  BY <1>0, <1>1 DEF Recv, ReceiveFromReceiver, AppendReceiveStatus, OnceDo, CheckBehind,
                    rcvVars, seenVars
<1>2. CASE Send
  <2>1. ASSUME NEW i \in DOMAIN txs, TakeResult(i) PROVE UNCHANGED <<cursor, db>>
    BY <2>1 DEF TakeResult, IgnoreResult, ResultSuccess, ResultRejected, rcvVars
  <2>2. CASE SuccessRelayMessage \/ ReportFinalized \/ UpdateStatus
    BY <1>0, <2>2 DEF SuccessRelayMessage, ReportFinalized, UpdateStatus, rcvVars,
       seenVars
  <2> QED
    BY <1>0, <1>2, <2>1, <2>2 DEF Send, seenVars
<1>3. CASE HandleRelayMessage(p)
  <2>1. CASE Lock(p) \/ SendRelayMessage(p) \/ Suspend(p) \/ SetPending(p) \/ SendDone(p)
    BY <1>0, <2>1 DEF Lock, SendRelayMessage, Suspend, SetPending, SendDone, rcvVars,
       seenVars
  <2>2. CASE Loop(p) \/ NextReceiveStatus(p) \/ BuildBlockUpdate(p) \/ UpdateBMCLinkStatus(p)
    BY <1>0, <2>2 DEF Loop, NextReceiveStatus, BuildBlockUpdate, UpdateBMCLinkStatus,
       rcvVars,
                      seenVars
  <2>3. CASE BuildProof(p) \/ BuildProofNil(p) \/ AddProof(p) \/ AppendRelayMessage(p)
    BY <1>0, <2>3 DEF BuildProof, BuildProofNil, AddProof, AppendRelayMessage,
       rcvVars, seenVars
  <2> QED
    BY <1>3, <2>1, <2>2, <2>3 DEF HandleRelayMessage
<1> QED
  BY <1>1, <1>2, <1>3 DEF LinkStep

\* A new process deletes blocks from the database and adds none.
LEMMA RestartStarts ==
  ASSUME Restart
  PROVE  Promise!Start
<1>1. StartReceiver(bmc) /\ crashes' = crashes + 1 /\ bmc' = bmc
  BY DEF Restart
<1>2. db' \subseteq db
  BY <1>1 DEF StartReceiver, removeAllReceiveBlock
<1> QED
  BY <1>1, <1>2 DEF Promise!Start

LEMMA DeliverySteps ==
  ASSUME KeysOrdered, TypeInv, DeliveryInv, [Next]_vars
  PROVE  [Promise!Next]_seenVars
<1>1. ASSUME NEW p \in Procs, LinkStep(p) PROVE UNCHANGED seenVars
  BY <1>1, LinkKeeps
<1>2. CASE ReceiverStep
  <2>0. UNCHANGED <<bmc, crashes>>
    BY <1>2 DEF ReceiverStep
  <2>1. CASE MonitorBlock \/ MonitorProgress
    BY <2>0, <2>1, MonitorReads DEF Promise!Next
  <2>2. CASE FinalizedStatus
    BY <2>0, <2>2, FinalizedReleases DEF Promise!Next
  <2>3. CASE SendReceiveStatus \/ clearReceiveStatus
    BY <2>0, <2>3 DEF SendReceiveStatus, clearReceiveStatus, seenVars
  <2> QED
    BY <1>2, <2>1, <2>2, <2>3 DEF ReceiverStep
<1>3. CASE ChainStep
  BY <1>3, ChainTakes DEF Promise!Next
<1>4. CASE Restart
  BY <1>4, RestartStarts DEF Promise!Next
<1>5. CASE SenderStep \/ Cleanup
  BY <1>5 DEF SenderStep, Cleanup, rcvVars, seenVars
<1>6. CASE Stop \/ Panic \/ Crash
  BY <1>6 DEF Stop, Panic, Crash, End, rcvVars, seenVars
<1>7. CASE UNCHANGED vars
  BY <1>7 DEF vars, rcvVars, seenVars
<1> QED
  BY <1>1, <1>2, <1>3, <1>4, <1>5, <1>6, <1>7 DEF Next

LEMMA DeliveryStarts == Init => Promise!Init
<1> SUFFICES ASSUME Init PROVE Promise!Init
  OBVIOUS
<1>1. PICK h \in BlockHeights :
        /\ bmc = [height |-> h, rxSeq |-> EndSeq[h] - SequenceOffset]
        /\ cursor = h
  BY DEF Init
<1>2. bmc.height = h
  BY <1>1
<1> QED
  BY <1>1, <1>2 DEF Init, Promise!Init

-----------------------------------------------------------------------------
(***************************************************************************)
(* RestartCovers.                                                          *)
(***************************************************************************)
\* getFirstHeightForReceiveBlock finds the lowest height.
LEMMA FirstIsLowest ==
  ASSUME KeysOrdered, NEW heights \in SUBSET BlockHeights
  PROVE  LET fb == getFirstHeightForReceiveBlock(heights)
         IN  IF heights = {} THEN fb = 0 ELSE fb \in heights /\ \A h \in heights : fb <= h
<1>1. CASE heights = {}
  BY <1>1 DEF getFirstHeightForReceiveBlock, FirstKeys
<1>2. CASE heights # {}
  <2>0. heights \subseteq Nat /\ heights \subseteq Heights
    BY DEF Heights
  <2>1. PICK m \in heights : \A h \in heights : m <= h
    BY <1>2, <2>0, NatMin
  <2>2. m \in FirstKeys(heights)
    <3>1. ASSUME NEW g \in heights \ {m} PROVE m < g
      BY <2>0, <2>1, SMT
    <3> QED
      BY <2>0, <3>1 DEF FirstKeys, KeysOrdered, Heights
  <2>3. ASSUME NEW k \in FirstKeys(heights), NEW h \in heights PROVE k \in heights /\ k <= h
    <3>1. k \in heights /\ (h # k => KeyBefore(k, h))
      BY <2>3 DEF FirstKeys
    <3>2. h # k => k < h
      BY <2>0, <3>1 DEF KeysOrdered, Heights
    <3> QED
      BY <2>0, <3>1, <3>2, SMT
  <2>4. getFirstHeightForReceiveBlock(heights) \in FirstKeys(heights)
    BY <2>2 DEF getFirstHeightForReceiveBlock
  <2> QED
    BY <1>2, <2>3, <2>4
<1> QED
  BY <1>1, <1>2

LEMMA CoveringInit == Init => CoveringInv
<1> SUFFICES ASSUME Init PROVE CoveringInv
  OBVIOUS
<1>1. PICK h \in BlockHeights :
        /\ bmc = [height |-> h, rxSeq |-> EndSeq[h] - SequenceOffset]
        /\ cursor = h
  BY DEF Init
<1>2. bmc.height = h /\ lastHeight = 0 /\ db = {} /\ h \in Nat
  BY <1>1 DEF Init
<1> QED
  BY <1>1, <1>2, SMT DEF CoveringInv

\* LastReceiveHeight is where the monitor was, and only it moves.
LEMMA LastHeightStep ==
  ASSUME TypeInv, [Next]_vars, lastHeight <= cursor, ~Restart
  PROVE  lastHeight' <= cursor'
<1>0. lastHeight \in Nat /\ cursor \in Nat
  BY DEF TypeInv, TypeOK, ReceiverTypeOK
<1>1. CASE MonitorBlock
  <2>1. PICK k \in BlockHeights : IsNext(cursor, k) /\ cursor' = k
    BY <1>1 DEF MonitorBlock
  <2>2. lastHeight' = lastHeight /\ cursor < k /\ k \in Nat
    BY <1>1, <2>1 DEF MonitorBlock, IsNext
  <2> QED
    BY <1>0, <2>1, <2>2, SMT
<1>2. CASE MonitorProgress
  <2>1. PICK n \in (cursor + 1)..(Max(BlockHeights) + 1) : lastHeight' = n /\ cursor' = n
    BY <1>2 DEF MonitorProgress
  <2>2. n \in Int
    BY <2>1, SMT
  <2> QED
    BY <2>1, <2>2, SMT
<1>3. CASE UNCHANGED <<lastHeight, cursor>>
  BY <1>3
<1>4. ASSUME NEW p \in Procs, LinkStep(p) PROVE UNCHANGED <<lastHeight, cursor>>
  BY <1>4 DEF LinkStep, Recv, Send, TakeResult, HandleRelayMessage, ReceiveFromReceiver,
         AppendReceiveStatus, OnceDo, CheckBehind, Lock, SendRelayMessage, Suspend, SetPending,
         SendDone, Loop, NextReceiveStatus, BuildBlockUpdate, UpdateBMCLinkStatus, BuildProof,
         BuildProofNil, AddProof, AppendRelayMessage, IgnoreResult, ResultSuccess,
         ResultRejected, SuccessRelayMessage, ReportFinalized, UpdateStatus, rcvVars
<1>5. ASSUME SendReceiveStatus \/ FinalizedStatus \/ clearReceiveStatus
      PROVE  UNCHANGED <<lastHeight, cursor>>
  BY <1>5 DEF SendReceiveStatus, FinalizedStatus, clearReceiveStatus
<1>6. ASSUME SenderStep \/ ChainStep \/ Stop \/ Panic \/ Crash \/ Cleanup \/ UNCHANGED vars
      PROVE  UNCHANGED <<lastHeight, cursor>>
  BY <1>6 DEF SenderStep, ChainStep, Stop, Panic, Crash, Cleanup, End, vars, rcvVars
<1> QED
  BY <1>1, <1>2, <1>3, <1>4, <1>5, <1>6 DEF Next, ReceiverStep

\* A step of Delivery that is not the start of a process.
LEMMA CoveringStep ==
  ASSUME KeysOrdered, TypeInv, TypeInv', DeliveryInv, CoveringInv, [Next]_vars
  PROVE  CoveringInv'
<1> SUFFICES ASSUME crashes' = 0 PROVE CoveringInv'
  BY DEF CoveringInv
<1>0. /\ bmc.height \in Nat /\ bmc'.height \in Nat /\ cursor \in Nat /\ cursor' \in Nat
      /\ db \subseteq BlockHeights /\ crashes \in Nat
  BY DEF TypeInv, TypeOK, ReceiverTypeOK, SenderTypeOK
<1>1. ~Restart
  <2>1. Restart => crashes' = crashes + 1
    BY DEF Restart
  <2> QED
    BY <1>0, <2>1, SMT
<1>2. [Promise!Next]_seenVars
  BY DeliverySteps
<1>3. crashes = 0 /\ ~Promise!Start
  <2>1. Promise!Start => crashes' = crashes + 1
    BY DEF Promise!Start
  <2>2. ~Promise!Start
    BY <1>0, <2>1, SMT
  <2>3. crashes' = crashes
    BY <1>2, <2>2 DEF Promise!Next, Promise!Take, Promise!Read, Promise!Release, seenVars
  <2> QED
    BY <2>2, <2>3
<1>4. /\ lastHeight <= cursor /\ \A h \in db : h <= cursor
      /\ \A h \in BlockHeights \ {StartHeight} : bmc.height < h /\ h <= cursor => h \in db
  BY <1>3 DEF CoveringInv
<1>5. lastHeight' <= cursor'
  BY <1>1, <1>4, LastHeightStep
<1>6. CASE Promise!Take
  <2>1. Promise!Between(bmc.height, bmc'.height) = {bmc'.height} /\ cursor' = cursor /\ db' = db
    BY <1>6 DEF Promise!Take
  <2>2. bmc.height < bmc'.height
    BY <2>1 DEF Promise!Between
  <2>3. ASSUME NEW h \in BlockHeights, bmc'.height < h PROVE bmc.height < h
    BY <1>0, <2>2, <2>3, SMT
  <2> QED
    BY <1>4, <1>5, <2>1, <2>3 DEF CoveringInv
<1>7. CASE Promise!Read
  <2>1. /\ cursor < cursor' /\ bmc'.height = bmc.height
        /\ db' = db \union (Promise!Between(cursor, cursor') \ {StartHeight})
    BY <1>7 DEF Promise!Read
  <2>2. ASSUME NEW h \in db' PROVE h <= cursor'
    <3>1. h \in db \/ h \in Promise!Between(cursor, cursor')
      BY <2>1
    <3>2. CASE h \in db
      <4>1. h <= cursor /\ h \in Nat
        BY <1>0, <1>4, <3>2
      <4> QED
        BY <1>0, <2>1, <4>1, SMT
    <3> QED
      BY <3>1, <3>2 DEF Promise!Between
  <2>3. ASSUME NEW h \in BlockHeights \ {StartHeight}, bmc'.height < h, h <= cursor' PROVE h \in db'
    <3>1. CASE h <= cursor
      BY <1>4, <2>1, <2>3, <3>1
    <3>2. CASE cursor < h
      BY <2>1, <2>3, <3>2 DEF Promise!Between
    <3> QED
      BY <1>0, <3>1, <3>2, SMT
  <2> QED
    BY <1>5, <2>2, <2>3 DEF CoveringInv
<1>8. CASE Promise!Release
  <2>1. /\ db' \subseteq db /\ \A h \in db \ db' : h <= bmc.height
        /\ bmc'.height = bmc.height /\ cursor' = cursor
    BY <1>8 DEF Promise!Release
  <2>2. ASSUME NEW h \in BlockHeights, bmc.height < h PROVE h \in db => h \in db'
    <3>1. ~(h <= bmc.height)
      BY <1>0, <2>2, SMT
    <3> QED
      BY <2>1, <3>1
  <2> QED
    BY <1>4, <1>5, <2>1, <2>2 DEF CoveringInv
<1>9. CASE UNCHANGED seenVars
  BY <1>4, <1>5, <1>9 DEF CoveringInv, seenVars
<1> QED
  BY <1>2, <1>3, <1>6, <1>7, <1>8, <1>9 DEF Promise!Next

\* monitoring looks at LastReceiveHeight and at the lowest of the stored blocks: if they
\* have block h, or all end below it, it asks for a height that is not above h, unless the
\* lowest one is exactly the BMC's.
LEMMA ResumesBelow ==
  ASSUME KeysOrdered, NEW blocks \in SUBSET BlockHeights,
         NEW last \in Nat, NEW top \in Nat, NEW h \in BlockHeights,
         bmc.height \in Nat, bmc.height < h,
         last <= top, \A g \in blocks : g <= top, h <= top => h \in blocks,
         bmc.height > last \/ blocks = {} \/ bmc.height # getFirstHeightForReceiveBlock(blocks)
  PROVE  resumeHeight(bmc, blocks, last) < h
<1> DEFINE fb == getFirstHeightForReceiveBlock(blocks)
<1>1. IF blocks = {} THEN fb = 0 ELSE fb \in blocks /\ \A g \in blocks : fb <= g
  BY FirstIsLowest
<1>2. resumeHeight(bmc, blocks, last) =
        IF bmc.height > last THEN bmc.height
        ELSE IF fb # 0 /\ bmc.height > fb THEN bmc.height
        ELSE IF fb > bmc.height THEN fb - 1 ELSE last
  BY DEF resumeHeight
<1>3. bmc.height > last \/ blocks = {} \/ bmc.height # fb
  OBVIOUS
<1> HIDE DEF fb
<1>4. h \in Nat
  OBVIOUS
<1>5. CASE blocks = {}
  BY <1>1, <1>2, <1>4, <1>5, SMT
<1>6. CASE blocks # {}
  <2>1. fb \in Nat /\ fb # 0 /\ fb <= top /\ (h \in blocks => fb <= h)
    BY <1>1, <1>6
  <2> QED
    BY <1>2, <1>3, <1>4, <1>6, <2>1, SMT
<1> QED
  BY <1>5, <1>6

\* removeAllReceiveBlock deletes the lowest block, and no block above it.
LEMMA FirstIsRemoved ==
  ASSUME KeysOrdered, NEW heights \in SUBSET BlockHeights, heights # {}
  PROVE  LET fb == getFirstHeightForReceiveBlock(heights)
         IN  /\ fb \notin removeAllReceiveBlock(heights)
             /\ \A h \in heights : fb < h => h \in removeAllReceiveBlock(heights)
<1> DEFINE fb == getFirstHeightForReceiveBlock(heights)
<1>1. fb \in heights /\ \A g \in heights : fb <= g
  BY FirstIsLowest
<1>2. heights \subseteq Nat /\ heights \subseteq Heights
  BY DEF Heights
<1>0. fb = getFirstHeightForReceiveBlock(heights)
  OBVIOUS
<1> HIDE DEF fb
<1>3. fb \in FirstKeys(heights)
  <2>1. ASSUME NEW g \in heights \ {fb} PROVE fb < g
    BY <1>1, <1>2, <2>1, SMT
  <2> QED
    BY <1>1, <1>2, <2>1 DEF FirstKeys, KeysOrdered, Heights
<1>4. ASSUME NEW h \in heights, fb < h PROVE h \notin FirstKeys(heights)
  <2>1. fb # h /\ ~(h < fb)
    BY <1>1, <1>2, <1>4, SMT
  <2>2. ~KeyBefore(h, fb)
    BY <1>1, <1>2, <2>1 DEF KeysOrdered, Heights
  <2> QED
    BY <1>1, <2>1, <2>2 DEF FirstKeys
<1> QED
  BY <1>0, <1>3, <1>4 DEF removeAllReceiveBlock

\* What monitoring makes of the database until the first restart.
LEMMA CoveringResumes ==
  ASSUME KeysOrdered, FirstIsStart, TypeInv, CoveringInv, crashes = 0
  PROVE  RestartCovers
<1> DEFINE wiped  == bmc.rxSeq < 1
           last   == IF wiped THEN 0 ELSE lastHeight
           stored == IF wiped THEN {} ELSE db
           top    == IF wiped THEN 0 ELSE cursor
           fb     == getFirstHeightForReceiveBlock(stored)
           Early(blocks) ==
             \A h \in BlockHeights : bmc.height < h => resumeHeight(bmc, blocks, last) < h
<1>1. /\ bmc.height \in BlockHeights /\ cursor \in Nat /\ lastHeight \in Nat
      /\ db \in SUBSET BlockHeights
  BY DEF TypeInv, TypeOK, ReceiverTypeOK, SenderTypeOK
<1>2. bmc.height \in Nat /\ StartHeight \in Nat /\ BlockHeights \subseteq Nat \ {0}
  BY <1>1, ReceiverAssumption
<1>3. stored \in SUBSET BlockHeights /\ last \in Nat /\ top \in Nat
  BY <1>1
<1>4. last <= top /\ \A g \in stored : g <= top
  <2>1. lastHeight <= cursor /\ \A g \in db : g <= cursor
    BY DEF CoveringInv
  <2> QED
    BY <2>1, SMT
<1>5. ASSUME NEW h \in BlockHeights, bmc.height < h, h <= top PROVE h \in stored
  <2>1. h \in Nat /\ h # 0
    BY <1>2
  <2>2. h # StartHeight
    BY <1>1, <1>2, <1>5, <2>1, SMT DEF FirstIsStart
  <2>3. ~wiped
    BY <1>5, <2>1, SMT
  <2> QED
    BY <1>5, <2>2, <2>3 DEF CoveringInv
<1>6. RestartCovers <=> \/ Early(stored)
                        \/ /\ bmc.height <= last /\ bmc.height = fb
                           /\ Early(removeAllReceiveBlock(stored))
  BY DEF RestartCovers
<1> HIDE DEF wiped, last, stored, top
<1>7. CASE bmc.height > last \/ stored = {} \/ bmc.height # fb
  <2>1. ASSUME NEW h \in BlockHeights, bmc.height < h PROVE resumeHeight(bmc, stored, last) < h
    BY <1>2, <1>3, <1>4, <1>5, <1>7, <2>1, ResumesBelow
  <2> QED
    BY <1>6, <2>1
<1>8. CASE ~(bmc.height > last) /\ stored # {} /\ bmc.height = fb
  <2> DEFINE others == removeAllReceiveBlock(stored)
  <2>1. others \in SUBSET BlockHeights
    BY <1>3 DEF removeAllReceiveBlock
  <2>2. /\ bmc.height \notin others
        /\ \A h \in stored : bmc.height < h => h \in others
    BY <1>3, <1>8, FirstIsRemoved
  <2>3. others = {} \/ bmc.height # getFirstHeightForReceiveBlock(others)
    BY <2>1, <2>2, FirstIsLowest
  <2>4. \A g \in others : g <= top
    BY <1>4 DEF removeAllReceiveBlock
  <2> HIDE DEF others
  <2>5. ASSUME NEW h \in BlockHeights, bmc.height < h PROVE resumeHeight(bmc, others, last) < h
    <3>1. h <= top => h \in others
      BY <1>5, <2>2, <2>5
    <3> QED
      BY <1>2, <1>3, <1>4, <2>1, <2>3, <2>5, <2>4, <3>1, ResumesBelow
  <2>6. bmc.height <= last
    BY <1>2, <1>3, <1>8, SMT
  <2> QED
    BY <1>6, <1>8, <2>5, <2>6 DEF others
<1> QED
  BY <1>7, <1>8

-----------------------------------------------------------------------------
(***************************************************************************)
(* The results.                                                            *)
(***************************************************************************)
\* A height that successRelayMessage reports to FinalizedStatus has been taken
\* by the BMC, although the position a message is labelled with is written by
\* both goroutines and only one of them holds rmsMtx.
THEOREM Finalized == Spec => []FinalizedIsDelivered
<1>1. TypeInv /\ DeliveryInv /\ [Next]_vars => (TypeInv /\ DeliveryInv)'
  BY TypeStep, DeliveryStep, SMT
<1>2. TypeInv /\ DeliveryInv => FinalizedIsDelivered
  BY SMT DEF DeliveryInv, Reported, FinalizedIsDelivered
<1> QED
  BY <1>1, <1>2, TypeInit, DeliveryInit, PTL DEF Spec

\* What the link, the receiver, the sender and the BMC hold at any time fits
\* together: the parts of the inductive invariant that speak of the delivery, of what
\* the receiver keeps, and of what a restart finds.
THEOREM Inductive == KeysOrdered => (Spec => []IInv)
<1> SUFFICES ASSUME KeysOrdered PROVE Spec => []IInv
  BY SMT
<1> DEFINE Inv == TypeInv /\ DeliveryInv /\ RetainedInv /\ CoveringInv
<1>1. Init => Inv
  BY TypeInit, DeliveryInit, RetainedInit, CoveringInit
<1>2. Inv /\ [Next]_vars => Inv'
  BY TypeStep, DeliveryStep, RetainedStep, CoveringStep
<1>3. Inv => IInv
  BY SMT DEF IInv
<1> HIDE DEF Inv
<1> QED
  BY <1>1, <1>2, <1>3, PTL DEF Spec

\* A block that the BMC has not taken and whose status is in b.rss is in the
\* database, where a new process looks for it, as long as LevelDB's order of
\* the keys of the network's heights is that of the heights.
THEOREM Retained == KeysOrdered => (Spec => []BlocksRetained)
<1> SUFFICES ASSUME KeysOrdered PROVE Spec => []BlocksRetained
  BY SMT
<1>1. IInv => BlocksRetained
  BY RetainedBlocks, SMT DEF IInv
<1> QED
  BY <1>1, Inductive, PTL

\* The relay implements Delivery, as long as LevelDB's order of the keys of the
\* network's heights is that of the heights: whatever the faults, the crashes and
\* the order of the goroutines' steps, the monitor stores each block it passes,
\* FinalizedStatus deletes only blocks the BMC has taken, and only a new process
\* gives up others.
THEOREM Delivers == KeysOrdered => (Spec => RefinesDelivery)
<1> SUFFICES ASSUME KeysOrdered PROVE Spec => RefinesDelivery
  BY SMT
<1> DEFINE Inv == TypeInv /\ DeliveryInv
<1>1. Init => Inv /\ Promise!Init
  BY TypeInit, DeliveryInit, DeliveryStarts, SMT
<1>2. Inv /\ [Next]_vars => Inv' /\ [Promise!Next]_<<bmc.height, cursor, db, crashes>>
  BY TypeStep, DeliveryStep, DeliverySteps, SMT DEF seenVars
<1> HIDE DEF Inv
<1> QED
  BY <1>1, <1>2, PTL DEF Spec, RefinesDelivery, Promise!Spec

\* Until the first restart, whatever the faults and the order of the goroutines'
\* steps, the database is such that a process which starts on it asks the source for
\* a height that is not above a block the BMC has not taken.  The exception is a
\* process that was killed between a delivery and its FinalizedStatus (the first stored
\* block is exactly the BMC's): then the start after the next one is early enough.
THEOREM Covered == KeysOrdered /\ FirstIsStart => (Spec => [](crashes = 0 => RestartCovers))
<1> SUFFICES ASSUME KeysOrdered, FirstIsStart PROVE Spec => [](crashes = 0 => RestartCovers)
  BY SMT
<1> DEFINE Inv == TypeInv /\ DeliveryInv /\ CoveringInv
<1>1. Init => Inv
  BY TypeInit, DeliveryInit, CoveringInit
<1>2. Inv /\ [Next]_vars => Inv'
  BY TypeStep, DeliveryStep, CoveringStep
<1>3. Inv => (crashes = 0 => RestartCovers)
  BY CoveringResumes
<1> HIDE DEF Inv
<1> QED
  BY <1>1, <1>2, <1>3, PTL DEF Spec
=============================================================================
