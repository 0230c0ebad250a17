------------------------------ MODULE EthBridge ------------------------------
(***************************************************************************)
(* The ethbr receiver (chain/ethbr) with the link, the sender and the BMC  *)
(* of EventRelay.  The source chain's BMC emits Message events to several  *)
(* destinations, each with sequence numbers of its own.                    *)
(***************************************************************************)
EXTENDS EventRelay

CONSTANTS EthEnvs,         \* the surroundings, see env
          OtherSeq,        \* events the other destination has had before
          StoreInterval    \* 500 in the code

EthBridgeAssumption ==
  /\ Receiver = "ethbr" /\ OtherSeq \in Nat /\ StoreInterval \in Nat \ {0}
  /\ \A e \in EthEnvs : {e.height, e.crashes, e.errors} \subseteq Nat /\ {e.polling, e.others} \subseteq BOOLEAN

VARIABLES env,             \* what this behaviour is exposed to:
                           \*   shapes   what a block may log, sequences of [tx, own]
                           \*   polling  the endpoint is http: no subscription
                           \*   others   another relay serves the same link
                           \*   height, crashes, errors  bounds
          logs,            \* the blocks of the source chain
          mon,             \* [first, next]: the newest block when it began, the next one it notifies
          eseq,            \* e.seq
          lastHeight,      \* LastReceiveHeight in the database, 0 if absent
          crashes, errors,
          skipped          \* history: an event has been passed over that was still to be delivered

ethVars == <<env, logs, mon, eseq, lastHeight, crashes, errors, skipped>>
vars == <<relayVars, ethVars>>

-----------------------------------------------------------------------------
Height == Len(logs)
OwnSeqs(h) == {logs[h][i].seq : i \in {j \in DOMAIN logs[h] : logs[h][j].own}}
Sent == UNION {OwnSeqs(h) : h \in DOMAIN logs}
SeqAfter(own) ==
  Cardinality(UNION {{<<h, i>> : i \in {j \in DOMAIN logs[h] : logs[h][j].own = own}} : h \in DOMAIN logs})

\* Mutant: it resumes one block higher.
resumeHigher(pos, last) == (IF pos.height > last THEN pos.height ELSE last) + 1

\* monitoring: the height after which it resumes.  No block is ever stored, so
\* that getFirstHeightForReceiveBlock is 0.
resumeHeight(pos, last) == IF pos.height > last THEN pos.height ELSE last

storedAfter(pos, last) == IF pos.rxSeq < 1 \/ pos.height > last THEN 0 ELSE last

\* A process starts at position pos: MonitorBlock catches up with the first head
\* it is given, and goes on from there.
Started(pos) ==
  LET last == IF pos.rxSeq < 1 THEN 0 ELSE lastHeight
  IN  [first |-> IF env.polling THEN Height ELSE 0, next |-> resumeHeight(pos, last) + 1]

Init ==
  /\ env \in EthEnvs
  /\ RelayInit([height |-> 0, rxSeq |-> 0])
  /\ logs = <<>>
  /\ mon = [first |-> 0, next |-> 1]
  /\ eseq = 0 /\ lastHeight = 0 /\ crashes = 0 /\ errors = 0 /\ skipped = FALSE

\* The source chain has a new block.
NewHead ==
  /\ Height < env.height
  /\ \E shape \in env.shapes :
       LET nth(i) == Cardinality({j \in 1..i : shape[j].own = shape[i].own})
           log(i) == [own |-> shape[i].own, tx |-> shape[i].tx,
                      seq |-> SeqAfter(shape[i].own) + nth(i) + (IF shape[i].own THEN 0 ELSE OtherSeq)]
       IN  logs' = Append(logs, [i \in DOMAIN shape |-> log(i)])
  /\ UNCHANGED <<relayVars, env, mon, eseq, lastHeight, crashes, errors, skipped>>

\* The receipts of a block: its events for this destination by transaction.
Receipts(events, h) ==
  LET txs == SetToSortSeq({events[i].tx : i \in DOMAIN events}, <)
      of(t) == SelectSeq(events, LAMBDA e : e.tx = t)
  IN  [k \in DOMAIN txs |-> [i \in DOMAIN of(txs[k]) |-> [seq |-> of(txs[k])[i].seq, height |-> h]]]

\* The callback of MonitorBlock.  An event for another destination counts for
\* startSeq and lastSeq.
callback(h) ==
  LET new == SelectSeq(logs[h], LAMBDA e : e.seq > eseq)
      own == SelectSeq(new, LAMBDA e : e.own)
      rs == [height |-> h, startSeq |-> new[1].seq, seq |-> Last(new).seq, rps |-> Receipts(own, h)]
  IN  /\ lastHeight' = IF h % StoreInterval = 0 THEN h ELSE lastHeight
      /\ IF own = <<>> THEN UNCHANGED <<eseq, brss, rsc>>
         ELSE eseq' = rs.seq /\ brss' = Append(brss, rs) /\ rsc' = <<rs>>

\* MonitorBlock notifies the next block; the one before has been handed over.
Notify ==
  /\ Running /\ rsc = <<>> /\ mon.next <= Height
  /\ callback(mon.next)
  /\ mon' = [mon EXCEPT !.next = @ + 1]
  /\ UNCHANGED <<lk, blsc, bmc, env, logs, crashes, errors, skipped>>

HasAfter(h, seq) == \E q \in OwnSeqs(h) : q > seq

\* The logs of a block cannot be read, or the subscription ends.  With a subscription
\* the monitor returns and the link's error channel gets the error.  Poll goes on with
\* the next header (EthMonitor): after what it was to catch up with, or after this block.
MonitorError ==
  /\ Running /\ rsc = <<>> /\ errors < env.errors
  /\ errors' = errors + 1
  /\ IF env.polling
     THEN LET next == Max({mon.first, mon.next}) + 1
          IN /\ mon.next <= Height
             /\ mon' = [mon EXCEPT !.next = next]
             /\ skipped' = (skipped \/ \E h \in mon.next .. next - 1 : HasAfter(h, eseq))
             /\ UNCHANGED lk
     ELSE lk' = [lk EXCEPT !.end = "error"] /\ UNCHANGED <<mon, skipped>>
  /\ UNCHANGED <<brss, rsc, blsc, bmc, env, logs, eseq, lastHeight, crashes>>

\* The process ends, whatever it was doing, and starts again.
Restart ==
  LET start == Started(bmc)
  IN  /\ crashes < env.crashes
      /\ crashes' = crashes + 1
      /\ lk' = NewLink(bmc, Orphans)
      /\ brss' = <<>> /\ rsc' = <<>> /\ blsc' = <<>>
      /\ mon' = start
      /\ eseq' = bmc.rxSeq
      /\ lastHeight' = storedAfter(bmc, lastHeight)
      /\ skipped' = (skipped \/ \E h \in 1..Height : h < start.next /\ HasAfter(h, bmc.rxSeq))
      /\ UNCHANGED <<bmc, env, logs, errors>>

\* Another relay delivers the next block that has events for this destination.
OtherDelivers ==
  /\ env.others
  /\ \E h \in 1..Height :
       /\ bmc.rxSeq + 1 \in OwnSeqs(h)
       /\ bmc' = [height |-> h, rxSeq |-> Max(OwnSeqs(h))]
  /\ UNCHANGED <<lk, brss, rsc, blsc, ethVars>>

Relay == (LinkStep \/ Execute \/ FinalizedStatus) /\ UNCHANGED ethVars

Next == NewHead \/ Notify \/ MonitorError \/ Restart \/ OtherDelivers \/ Relay

Spec == Init /\ [][Next]_vars

\* What the schedulers and the chains are bound to do.
Proceeds == NewHead \/ Notify \/ Relay

-----------------------------------------------------------------------------
Foreign == \E h \in DOMAIN logs : \E i \in DOMAIN logs[h] : ~logs[h][i].own

\* Nothing disturbs the relay.
Alone == ~env.others /\ env.crashes = 0 /\ env.errors = 0

\* A message proof at the link's position has every event from the position to
\* its last one, and no other: removing a receipt (receiver.go:279) removes one
\* that is empty, and nothing is cut out of a block.
ProofCovers ==
  LET p == BuildMessageProof(lk.bls, TxSizeLimit - MarginForLimit)
  IN  /\ p.kind # "panic"
      /\ p.kind = "mp" => {e.seq : e \in ToSet(p.events)} = lk.bls.rxSeq + 1..p.last

\* The same while the source chain's BMC sends to this destination only.
OwnProofCovers == Foreign \/ ProofCovers

\* The BMC's position is never inside a block: the events of a block travel in
\* one message, although the payload repeats the receipt for each of its events.
DeliveredWhole == \A h \in 1..Height : bmc.rxSeq \in OwnSeqs(h) => bmc.rxSeq = Max(OwnSeqs(h))

\* An event that has been notified and that the BMC does not have is in e.rss:
\* FinalizedStatus, which drops everything up to the first status that is
\* covered, never drops one that is still needed.  (An event for another
\* destination may move e.seq past one of this destination.)
EventsKept ==
  Running /\ ~skipped /\ ~Foreign =>
    \A h \in 1..Height : \A q \in OwnSeqs(h) :
      h < mon.next /\ q > bmc.rxSeq => \E i \in DOMAIN brss : brss[i].height = h /\ \E k \in DOMAIN brss[i].rps :
                         \E j \in DOMAIN brss[i].rps[k] : brss[i].rps[k][j].seq = q

\* Nothing the link sends is rejected, when it is alone.
NothingRejected == Alone /\ ~Foreign => \A i \in DOMAIN lk.txs : lk.txs[i].code \in {"", "SUCCESS"}

\* The process ends only by an error of its monitor, after an event has been
\* skipped, or when the BMC has sent to another destination as well.
EndExplained ==
  lk.end # "" => (lk.end = "error" /\ errors > 0) \/ (skipped /\ lk.end = "spin") \/ Foreign

\* Every event is delivered, without another relay, errors and restarts.
AllDelivered == Alone => <>[](Height = env.height /\ (Foreign \/ bmc.rxSeq = Cardinality(Sent)))
=============================================================================
