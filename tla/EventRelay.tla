----------------------------- MODULE EventRelay -----------------------------
(***************************************************************************)
(* A link whose receiver proves messages by events (ethbr or bridge), with *)
(* the sender and the BMC.  Link has the interleavings inside the link;    *)
(* here the calls of its goroutines exclude each other, and the rest of    *)
(* the system moves between their steps.                                   *)
(*                                                                         *)
(* lk is the link: bls, rss, rms, items and size (l.rmi), state, once, the *)
(* sender's transactions txs, what it has to report to the receiver when   *)
(* the call returns, and                                                   *)
(*   given  see Given                                                     *)
(*   pc   idle, handle, loop, proof or built: where handleRelayMessage is         *)
(*   end  how the process ended: "" while it runs, panic, error, or spin   *)
(*        for the loop without end of buildProof                           *)
(***************************************************************************)
EXTENDS EventProofs, FiniteSets, FiniteSetsExt

CONSTANTS Receiver,        \* "ethbr" or "bridge"
          TxSizeLimit, MarginForLimit, MaxQueueSize

EventRelayAssumption ==
  /\ Receiver \in {"ethbr", "bridge"}
  /\ {TxSizeLimit, MarginForLimit, MessageSize} \subseteq Nat
  /\ {PointerSize, MaxQueueSize} \subseteq Nat \ {0}

VARIABLES lk,
          brss,                 \* the receiver's list of statuses
          rsc,                  \* a status the receiver waits to hand over, or <<>>
          blsc,                 \* a position the link waits to hand over, or <<>>
          bmc                   \* [height, rxSeq] at the BMC

relayVars == <<lk, brss, rsc, blsc, bmc>>

-----------------------------------------------------------------------------
\* Mutant: the status of the position's own height counts as the next one.
nextReceiveStatusSame(bls) ==
  LET i == SelectInSeq(brss, LAMBDA rs : bls.height <= rs.height)
  IN  IF i = Len(brss) THEN [end |-> "panic", height |-> 0]
      ELSE [end |-> "", height |-> brss[i + 1].height]

\* nextReceiveStatus in BuildBlockUpdate: a status, or how the process ends.
nextReceiveStatus(bls) ==
  LET i == SelectInSeq(brss, LAMBDA rs : bls.height <= rs.height)
  IN  IF i = 0 THEN [end |-> IF Receiver = "ethbr" THEN "error" ELSE "panic", height |-> 0]
      ELSE IF brss[i].height > bls.height THEN [end |-> "", height |-> brss[i].height]
      ELSE IF i = Len(brss) THEN [end |-> "panic", height |-> 0]
      ELSE [end |-> "", height |-> brss[i + 1].height]

\* Mutant: one status more is dropped.
clearedFar(list, bls) ==
  LET i == SelectInSeq(list, LAMBDA rs : rs.height <= bls.height /\ rs.seq <= bls.rxSeq)
  IN  IF i = 0 THEN list ELSE SubSeq(list, i + 2, Len(list))

\* clearReceiveStatus and removeReceiveStatus: up to the first one that is covered.
cleared(list, bls) ==
  LET i == SelectInSeq(list, LAMBDA rs : rs.height <= bls.height /\ rs.seq <= bls.rxSeq)
  IN  IF i = 0 THEN list ELSE SubSeq(list, i + 1, Len(list))

BuildMessageProof(bls, limit) ==
  IF Receiver = "ethbr" THEN EthMessageProof(brss, bls, limit) ELSE BridgeMessageProof(brss, bls, limit)

\* Both receivers answer the bytes of the first message proof, or nil.
BuildRelayMessage(items) ==
  LET i == SelectInSeq(items, LAMBDA it : it.kind = "mp")
  IN  IF i = 0 THEN <<>> ELSE items[i].events

appendRelayMessageItem(x, it) == [x EXCEPT !.items = Append(@, it), !.size = @ + it.size]

appendRelayMessage(x) ==
  [x EXCEPT !.rms = Append(@, [bls |-> x.bls, msg |-> BuildRelayMessage(x.items), sent |-> FALSE]),
            !.items = <<>>, !.size = 0]

\* sendRelayMessage, with Relay of the sender: a full queue makes it PENDING.
sendRelayMessage(x) ==
  LET unsent == {i \in DOMAIN x.rms : ~x.rms[i].sent}
      free == MaxQueueSize - Len(SelectSeq(x.txs, LAMBDA t : ~t.orphan))
      now == {i \in unsent : Cardinality({j \in unsent : j < i}) < free}
      order == SetToSortSeq(now, <)
  IN  [x EXCEPT !.rms = [i \in DOMAIN @ |-> [@[i] EXCEPT !.sent = @ \/ i \in now]],
                !.txs = @ \o [k \in DOMAIN order |-> [id |-> x.rms[order[k]].bls, msg |-> x.rms[order[k]].msg,
                                                      code |-> "", orphan |-> FALSE]],
                !.state = IF now = unsent THEN @ ELSE "PENDING"]

Behind(x, rs) == x.bls.height < rs.height \/ x.bls.rxSeq < rs.seq

-----------------------------------------------------------------------------
\* NewLink and Start.  Transactions of an earlier process stay in the pool.
NewLink(pos, old) ==
  [bls |-> pos, rss |-> <<>>, rms |-> <<>>, items |-> <<>>, size |-> 0, state |-> "INIT",
   once |-> FALSE, txs |-> old, report |-> <<>>, pc |-> "idle", seq |-> 0, end |-> "", given |-> <<>>]

\* The position that Start gave to the receiver: it is the link's own object,
\* which moves with the link until updateBMCLinkStatus replaces it.
Given == IF lk.given = <<>> THEN lk.bls ELSE lk.given[1]

Orphans ==
  LET pool == SelectSeq(lk.txs, LAMBDA t : t.code = "")
  IN  [i \in DOMAIN pool |-> [pool[i] EXCEPT !.orphan = TRUE]]

RelayInit(pos) == lk = NewLink(pos, <<>>) /\ brss = <<>> /\ rsc = <<>> /\ blsc = <<>> /\ bmc = pos

Running == lk.end = ""

\* What buildProof without a block update comes to, when there is something to
\* prove: a block proof, which is nil, or the loop without end.
ProofAlone(bls, size) ==
  IF BuildMessageProof(bls, TxSizeLimit - MarginForLimit - size).kind = "nil" THEN "spin" ELSE "panic"

\* startReceiverChannel takes a status.  Before its first call of handleRelayMessage
\* it handles messages of the position's own block.
LinkReceive ==
  LET rs == rsc[1]
      undelivered == ~lk.once /\ rs.height = lk.bls.height /\ lk.bls.rxSeq < rs.seq
  IN  /\ Running /\ lk.pc = "idle" /\ rsc # <<>>
      /\ lk' = [lk EXCEPT !.rss = Append(@, rs), !.once = TRUE,
                          !.end = IF undelivered THEN ProofAlone(lk.bls, lk.size) ELSE "",
                          !.pc = IF ~lk.once \/ Behind(lk, rs) THEN "handle" ELSE "idle"]
      /\ rsc' = <<>>
      /\ UNCHANGED <<brss, blsc, bmc>>

\* handleRelayMessage sends what is left, unless the link is PENDING, and what it
\* has built; after the very first message the link is PENDING.
Send ==
  /\ Running /\ lk.pc \in {"handle", "built"}
  /\ lk' = IF lk.state = "PENDING" THEN [lk EXCEPT !.pc = "loop"]
           ELSE [sendRelayMessage(lk) EXCEPT !.pc = "loop",
                   !.state = IF @ = "INIT" /\ lk.pc = "built" THEN "PENDING" ELSE @]
  /\ UNCHANGED <<brss, rsc, blsc, bmc>>

Work == lk.state # "PENDING" /\ lk.rss # <<>> /\ Behind(lk, Last(lk.rss))

\* Its loop: a block update and what it is to be proved up to.
BuildBlockUpdates ==
  LET next == nextReceiveStatus(lk.bls)
      i == SelectInSeq(lk.rss, LAMBDA rs : rs.height = next.height)
  IN  /\ Running /\ lk.pc = "loop" /\ Work /\ lk.bls.height < Last(lk.rss).height
      /\ lk' = IF next.end # "" THEN [lk EXCEPT !.end = next.end]
               ELSE [appendRelayMessageItem(lk, NewBlockUpdate)
                       EXCEPT !.bls.height = next.height, !.pc = "proof",
                              !.seq = lk.rss[IF i = 0 THEN Len(lk.rss) ELSE i].seq]
      /\ UNCHANGED <<brss, rsc, blsc, bmc>>

\* Or a proof without a block update.
BuildProofAlone ==
  /\ Running /\ lk.pc = "loop" /\ Work /\ lk.bls.height >= Last(lk.rss).height
  /\ lk' = [lk EXCEPT !.end = ProofAlone(lk.bls, lk.size)]
  /\ UNCHANGED <<brss, rsc, blsc, bmc>>

\* buildProof, one message proof at a time; at the end the message is appended.
BuildProof ==
  LET mp == BuildMessageProof(lk.bls, TxSizeLimit - MarginForLimit - lk.size)
  IN  /\ Running /\ lk.pc = "proof"
      /\ lk' = IF lk.seq <= lk.bls.rxSeq
               THEN [appendRelayMessage(lk) EXCEPT !.pc = "built"]
               ELSE IF mp.kind = "nil" THEN [lk EXCEPT !.end = "spin"]
               ELSE IF mp.kind = "panic" \/ TxSizeLimit < lk.size THEN [lk EXCEPT !.end = "panic"]
               ELSE [appendRelayMessageItem(lk, mp) EXCEPT !.bls.rxSeq = mp.last]
      /\ UNCHANGED <<brss, rsc, blsc, bmc>>

\* handleRelayMessage returns; successRelayMessage then hands over the position.
HandleReturn ==
  /\ Running /\ lk.pc = "loop" /\ ~Work /\ blsc = <<>>
  /\ lk' = [lk EXCEPT !.pc = "idle", !.report = <<>>]
  /\ blsc' = lk.report
  /\ UNCHANGED <<brss, rsc, bmc>>

-----------------------------------------------------------------------------
\* The BMC reads the events in order: it skips what it has, and refuses a gap.
RxSeqAfter(msg) ==
  FoldLeft(LAMBDA rx, e : IF rx < 0 \/ e.seq > rx + 1 THEN -1 ELSE IF e.seq = rx + 1 THEN e.seq ELSE rx,
           bmc.rxSeq, msg)

Verdict(msg) ==
  IF msg = <<>> THEN "BMVUnknown"
  ELSE IF RxSeqAfter(msg) < 0 THEN "BMVNotVerifiable"
  ELSE IF RxSeqAfter(msg) = bmc.rxSeq THEN "BMVAlreadyVerified"
  ELSE "SUCCESS"

\* The chain executes the oldest transaction of its pool.
Execute ==
  LET i == SelectInSeq(lk.txs, LAMBDA t : t.code = "")
      msg == lk.txs[i].msg
  IN  /\ i # 0
      /\ bmc' = IF Verdict(msg) = "SUCCESS"
                THEN [height |-> Last(msg).height, rxSeq |-> RxSeqAfter(msg)] ELSE bmc
      /\ lk' = [lk EXCEPT !.txs = IF lk.txs[i].orphan THEN RemoveAt(@, i)
                                  ELSE [@ EXCEPT ![i].code = Verdict(msg)]]
      /\ UNCHANGED <<brss, rsc, blsc>>

\* Mutant: the link goes on only with the next status.
succeededWaits(x, id) ==
  LET drop == SelectInSeq(x.rms, LAMBDA rm : rm.bls.height <= id.height /\ rm.bls.rxSeq <= id.rxSeq)
  IN  [x EXCEPT !.rms = SubSeq(@, drop + 1, Len(@)), !.rss = cleared(@, id), !.state = "RUNNING"]

\* successRelayMessage before it calls handleRelayMessage.
succeeded(x, id) ==
  LET drop == SelectInSeq(x.rms, LAMBDA rm : rm.bls.height <= id.height /\ rm.bls.rxSeq <= id.rxSeq)
  IN  [x EXCEPT !.rms = SubSeq(@, drop + 1, Len(@)), !.rss = cleared(@, id),
                !.state = "RUNNING", !.pc = "handle", !.report = <<id>>]

\* updateBMCLinkStatus and removeAllRelayMessage.
resynced(x) == [x EXCEPT !.bls = bmc, !.given = <<Given>>, !.rms = <<>>, !.state = "RUNNING"]

\* result, for a message the link knows.
result(x, id, code) ==
  CASE code = "SUCCESS" -> succeeded(x, id)
    [] code = "BMVNotVerifiable" -> [resynced(x) EXCEPT !.pc = "handle"]
    [] code = "BMVAlreadyVerified" -> resynced(x)
    [] OTHER -> [x EXCEPT !.end = "panic"]

\* The oldest transaction of this process has its result.
Result ==
  LET i == SelectInSeq(lk.txs, LAMBDA t : ~t.orphan)
      t == lk.txs[i]
      x == [lk EXCEPT !.txs = RemoveAt(@, i)]
  IN  /\ Running /\ lk.pc = "idle" /\ i # 0 /\ t.code # ""
      /\ lk' = IF \E k \in DOMAIN lk.rms : lk.rms[k].bls = t.id THEN result(x, t.id, t.code) ELSE x
      /\ UNCHANGED <<brss, rsc, blsc, bmc>>

\* The goroutine of FinalizedStatus.
FinalizedStatus ==
  /\ Running /\ blsc # <<>>
  /\ brss' = cleared(brss, blsc[1])
  /\ blsc' = <<>>
  /\ UNCHANGED <<lk, rsc, bmc>>

LinkStep == LinkReceive \/ Send \/ BuildBlockUpdates \/ BuildProofAlone \/ BuildProof \/ HandleReturn \/ Result
=============================================================================
