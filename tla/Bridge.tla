------------------------------- MODULE Bridge -------------------------------
(***************************************************************************)
(* The bridge receiver (chain/icon/bridge) with the link, the sender and   *)
(* the BMC of EventRelay.  The receiver has no database: it starts at the  *)
(* BMC's height, and after a connection error at its last status.          *)
(***************************************************************************)
EXTENDS EventRelay

CONSTANTS BridgeEnvs,      \* the surroundings, see env
          StartHeight      \* the network's first block, which has no status

BridgeAssumption ==
  /\ Receiver = "bridge" /\ StartHeight \in Nat \ {0}
  /\ \A e \in BridgeEnvs : e.counts \subseteq Nat /\ {e.height, e.crashes, e.reconnects} \subseteq Nat

VARIABLES env,             \* what this behaviour is exposed to: the numbers of messages
                           \* (counts) a block may have; bounds (height, crashes, reconnects)
          blocks,          \* how many messages each block has
          mon,             \* [next, rxSeq]: the next height, and bls of a restarted monitor
          rs,              \* b.rs: height and sequence number of the last status
          crashes, reconnects

bridgeVars == <<env, blocks, mon, rs, crashes, reconnects>>
vars == <<relayVars, bridgeVars>>

Height == Len(blocks)

\* Messages sent before block h.
Before(h) == FoldLeft(LAMBDA n, m : n + m, 0, SubSeq(blocks, 1, h - 1))

\* newReceiveStatus: its number is that of the block's first message; only
\* messages above rxSeq become events.
newReceiveStatus(h, rxSeq) ==
  LET sn == Before(h) + 1
      events == SelectSeq([i \in 1..blocks[h] |-> [seq |-> sn + i - 1, height |-> h]],
                          LAMBDA e : e.seq > rxSeq)
  IN  [height |-> h, seq |-> sn, events |-> events]

\* monitoring at a position; ownBls says that the position is the link's object.
Monitor(pos, ownBls) == [next |-> pos.height, rxSeq |-> IF ownBls THEN <<>> ELSE <<pos.rxSeq>>]

Init ==
  /\ env \in BridgeEnvs
  /\ RelayInit([height |-> StartHeight, rxSeq |-> 0])
  /\ blocks = [h \in 1..StartHeight |-> 0]
  /\ mon = Monitor(bmc, TRUE)
  /\ rs = [height |-> bmc.height, seq |-> bmc.rxSeq]
  /\ crashes = 0 /\ reconnects = 0

\* The source network has a new block.
NewBlock ==
  /\ Height < env.height
  /\ \E n \in env.counts : blocks' = Append(blocks, n)
  /\ UNCHANGED <<relayVars, env, mon, rs, crashes, reconnects>>

\* The callback of monitorBTP2Block.
Notify ==
  LET h == mon.next
      s == newReceiveStatus(h, IF mon.rxSeq = <<>> THEN Given.rxSeq ELSE mon.rxSeq[1])
  IN  /\ Running /\ rsc = <<>> /\ h <= Height
      /\ IF h = StartHeight THEN UNCHANGED <<brss, rsc, rs>>
         ELSE /\ brss' = Append(brss, s) /\ rsc' = <<s>>
              /\ rs' = [height |-> s.height, seq |-> s.seq]
      /\ mon' = [mon EXCEPT !.next = @ + 1]
      /\ UNCHANGED <<lk, blsc, bmc, env, blocks, crashes, reconnects>>

\* The connection fails, or a callback did: onErr starts monitoring at b.rs, whose
\* block is notified again.
Reconnect ==
  /\ Running /\ rsc = <<>> /\ reconnects < env.reconnects
  /\ reconnects' = reconnects + 1
  /\ mon' = Monitor([height |-> rs.height, rxSeq |-> rs.seq], FALSE)
  /\ UNCHANGED <<relayVars, env, blocks, rs, crashes>>

\* The process ends, whatever it was doing, and starts again.
Restart ==
  /\ crashes < env.crashes
  /\ crashes' = crashes + 1
  /\ lk' = NewLink(bmc, Orphans)
  /\ brss' = <<>> /\ rsc' = <<>> /\ blsc' = <<>>
  /\ mon' = Monitor(bmc, TRUE)
  /\ rs' = [height |-> bmc.height, seq |-> bmc.rxSeq]
  /\ UNCHANGED <<bmc, env, blocks, reconnects>>

Relay == (LinkStep \/ Execute \/ FinalizedStatus) /\ UNCHANGED bridgeVars

Next == NewBlock \/ Notify \/ Reconnect \/ Restart \/ Relay

Spec == Init /\ [][Next]_vars

\* What the schedulers and the chains are bound to do.
Proceeds == NewBlock \/ Notify \/ Relay

-----------------------------------------------------------------------------
Sent == Before(Height + 1)

\* A block other than the first has not exactly one message.
Odd == \E h \in StartHeight + 1..Height : blocks[h] # 1

\* The process ends only if a block without messages or with several has been
\* received, or after a reconnect, which puts a block into b.rss twice.
EndExplained == lk.end # "" => Odd \/ reconnects > 0

\* A message is refused for a gap only if a block has several messages, of which
\* the proof carries the last one only, or after a reconnect.
GapExplained ==
  (\E i \in DOMAIN lk.txs : lk.txs[i].code = "BMVNotVerifiable") => Odd \/ reconnects > 0

\* A message that has been notified and that the BMC does not have is in b.rss.
\* The filter reads a position that the link moves ahead of the BMC, and must not
\* drop what is not delivered yet.
EventsKept ==
  Running /\ ~Odd /\ reconnects = 0 =>
    \A h \in bmc.height + 1..mon.next - 1 :
      \E i \in DOMAIN brss : brss[i].height = h /\ brss[i].events # <<>>

\* Nothing disturbs the relay.
Alone == env.crashes = 0 /\ env.reconnects = 0

\* Every message is delivered, if every block has one message.
AllDelivered == Alone => <>[](Height = env.height /\ (Odd \/ bmc.rxSeq = Sent))
=============================================================================
