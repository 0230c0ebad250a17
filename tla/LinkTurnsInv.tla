---------------------------- MODULE LinkTurnsInv -----------------------------
(***************************************************************************)
(* The invariants of a relay whose goroutines take turns, and of one that  *)
(* is moreover left alone, for the proofs in LinkTurns and LinkCalm. They  *)
(* are apart from the proofs because a proof step carries whatever comes   *)
(* after the first lemma, and little of what comes before it.              *)
(*                                                                         *)
(* A process starts at a position of the BMC, at block b, and is told of   *)
(* the blocks above a height c.  If there are messages in blocks between b *)
(* and c, which a restart has skipped, the receiver counts them wrongly;   *)
(* it then gets no further than to the next block with messages.           *)
(***************************************************************************)
EXTENDS LinkInvariant

\* Messages up to height h.
Upto(h) == StartSeq(h + 1)

Skips(b, c) == Upto(c) # EndSeq[b]

\* A status of block h, and what its seq is.
Counted(b, c, h) == IF Skips(b, c) THEN EndSeq[b] ELSE EndSeq[h]

Said(b, c, rs) ==
  /\ rs \in ReceiveStatus /\ c < rs.height
  /\ rs.seq = Counted(b, c, rs.height)
  /\ Skips(b, c) => MessageCount(rs.height) = 0

\* Where the link is between two messages, and before the messages of block k.
Between(b, c, pos) ==
  /\ pos.height \in BlockHeights /\ b <= pos.height
  /\ IF Skips(b, c) THEN EndSeq[b] <= pos.rxSeq ELSE pos.rxSeq = EndSeq[pos.height]

Ahead(b, c, k, seq) ==
  /\ k \in BlockHeights /\ c < k
  /\ IF Skips(b, c) THEN EndSeq[b] <= seq /\ MessageCount(k) = 0 ELSE seq = StartSeq(k)

\* A message for a whole block, and its size.
Whole(m) ==
  /\ m.bu \in BlockHeights
  /\ m.last = MessageCount(m.bu) /\ (m.last # 0 => m.first = 1)

Fits(n) == BlockUpdateSize + ProofSize(n) <= TxSizeLimit + MessageSize

FullMessages == {rm \in RelayMessage : Whole(rm.msg) /\ Fits(rm.msg.last)}

FullTransactions == {tx \in Transaction : Whole(tx.msg)}

Chained(list) == \A i \in 1 .. Len(list) - 1 : IsNext(list[i].msg.bu, list[i + 1].msg.bu)

FullList(list) == list \in Seq(FullMessages) /\ Chained(list)

\* Block k can be put behind the messages of the list.
Extends(list, k) == list # <<>> => IsNext(Last(list).msg.bu, k)

\* Lists of statuses.
In(list, h) == \E i \in 1 .. Len(list) : list[i].height = h

Below(list, h) == \A i \in 1 .. Len(list) : list[i].height < h

Rising(list) == \A i, j \in 1 .. Len(list) : i < j => list[i].height < list[j].height

Statuses(b, c, list) ==
  /\ list \in Seq(ReceiveStatus) /\ Rising(list)
  /\ \A i \in 1 .. Len(list) : Said(b, c, list[i])

-----------------------------------------------------------------------------
\* Places of handleRelayMessage.
Holding == {"handle", "send", "suspend", "loop", "next", "build", "update", "proof", "addproof"}

Works == {"update", "proof", "addproof"}

\* One goroutine at a time is between two waits.
Turns ==
  /\ \A p, q \in Procs : p = q \/ pc[p] \in Waiting \/ pc[q] \in Waiting
  /\ \A g \in {"mon", "fin"} : slices[g] # <<>> => \A p \in Procs : pc[p] \in Waiting
  /\ slices.mon = <<>> \/ slices.fin = <<>>

\* Nothing happens before the first status.
Fresh ==
  /\ ~once => rms = <<>> /\ pc["send"] = "idle" /\ pc["recv"] \in {"idle", "append", "once"}
  /\ pc["recv"] = "once" => ~once

\* The slices that have been read are still those of the fields.
Slices ==
  /\ slices.mon # <<>> => slices.mon[1] = brss /\ rsc = NoStatus
  /\ slices.fin # <<>> => slices.fin[1] = Cleared(blsc)
  /\ pc["recv"] = "append" => loc["recv"].rss = rss /\ rsc = NoStatus
  /\ pc["send"] = "success" => /\ loc["send"].rms = removeRelayMessage(rms, loc["send"].done)
                               /\ loc["send"].rss = removeReceiveStatus(rss, loc["send"].done)

\* What the receiver has told of, or is about to.
Telling(b, c) ==
  /\ b <= c /\ c <= cursor
  /\ bseq = IF Skips(b, c) THEN EndSeq[b] ELSE Upto(cursor)
  /\ Statuses(b, c, brss) /\ Below(brss, cursor + 1)
  /\ Statuses(b, c, rss) /\ Below(rss, cursor + 1)
  /\ slices.mon # <<>> => /\ Said(b, c, [height |-> cursor, seq |-> bseq])
                          /\ Below(brss, cursor) /\ Below(rss, cursor)
  /\ rsc # NoStatus => Said(b, c, rsc) /\ Below(rss, rsc.height) /\ rsc.height <= cursor
  /\ pc["recv"] = "append" => LET rs == loc["recv"].rs IN
                              Said(b, c, rs) /\ Below(rss, rs.height) /\ rs.height <= cursor

\* The block at h is known to the receiver, and to the link or on its way there.
Known(h) ==
  \/ slices.mon # <<>> /\ h = cursor
  \/ /\ In(brss, h)
     /\ \/ rsc.height = h
        \/ pc["recv"] = "append" /\ loc["recv"].rs.height = h
        \/ In(rss, h)

KnownAbove(c, x) == \A h \in BlockHeights : c < h /\ x < h /\ h <= cursor => Known(h)

\* The heights above which statuses are needed: of the link, of the BMC, of the
\* position that the link takes over, and of the block that goroutine p works on.
Target(at, l, mi) == IF at = "update" THEN l.item.height ELSE mi.bu

Needed(x) ==
  \/ x = bls.height \/ x = bmc.height
  \/ pc["send"] = "resync" /\ x = loc["send"].done.height
  \/ \E p \in Procs : pc[p] \in {"update", "proof", "addproof"} /\ x = Target(pc[p], loc[p], rmi)

Keeping(c) == \A x \in Heights : Needed(x) => KnownAbove(c, x)

\* Nobody needs the statuses up to height h.
Clear(h, at, l, mi) == at \in {"update", "proof", "addproof"} => h < Target(at, l, mi)

PassedAt(h, pos, places, locals, mi) ==
  h <= pos.height /\ \A p \in Procs : Clear(h, places[p], locals[p], mi)

Passed(h) == PassedAt(h, bls, pc, loc, rmi)

Passing ==
  /\ \A i \in 1 .. Len(rms) : Passed(rms[i].bls.height)
  /\ Passed(blsc.height)
  /\ loc["recv"].done = NoPosition
  /\ IF pc["send"] = "resync" THEN blsc.height <= loc["send"].done.height
     ELSE Passed(loc["send"].done.height)

\* A proof of the first n messages of block k.
Proves(k, n) ==
  /\ n \in 1 .. MessageCount(k) /\ Fits(n)
  /\ n < MessageCount(k) => TxSizeLimit < BlockUpdateSize + ProofSize(n)

NoProof(mi) == mi.first = 0 /\ mi.last = 0 /\ mi.size = BlockUpdateSize

\* Goroutine p, at place at, is about to build for the next block, about to join
\* its block update to the message, looks for a proof, or has one.
AtNext(pos, list) == list # <<>> /\ pos.height < Last(list).height

AtBuild(c, l, pos, list, blist) ==
  l.index \in 1 .. Len(blist) =>
    LET k == blist[l.index].height
    IN  c < k /\ IsNext(IF pos.height < c THEN c ELSE pos.height, k) /\ In(list, k)

AtUpdate(b, c, l, list, blist) ==
  LET k == l.item.height IN Ahead(b, c, k, l.item.rxSeq) /\ In(list, k) /\ In(blist, k)

AtProof(b, c, l, pos, blist, mi) ==
  LET k == mi.bu IN
  /\ In(blist, k) /\ pos.height = k /\ l.seq = Counted(b, c, k)
  /\ \/ NoProof(mi) /\ Ahead(b, c, k, pos.rxSeq)
     \/ /\ ~Skips(b, c) /\ mi.first = 1 /\ Proves(k, mi.last)
        /\ mi.size = BlockUpdateSize + ProofSize(mi.last)
        /\ pos.rxSeq = StartSeq(k) + mi.last

AtAddProof(b, c, l, blist, mi) ==
  LET k == mi.bu IN
  /\ In(blist, k) /\ l.seq = Counted(b, c, k)
  /\ \/ TxSizeLimit < mi.size
     \/ /\ ~Skips(b, c) /\ NoProof(mi) /\ l.item.height = k
        /\ l.item.first = 1 /\ Proves(k, l.item.last)
        /\ l.item.rxSeq = StartSeq(k) + l.item.last

At(b, c, at, l, pos, ms, list, blist, mi) ==
  /\ at = "next" => AtNext(pos, list)
  /\ at = "build" => AtBuild(c, l, pos, list, blist)
  /\ at = "update" => AtUpdate(b, c, l, list, blist)
  /\ at = "proof" => AtProof(b, c, l, pos, blist, mi)
  /\ at = "addproof" => AtAddProof(b, c, l, blist, mi)
  /\ at \in {"proof", "addproof"} => l.bu
  /\ at \in {"update", "proof", "addproof"} =>
       /\ Target(at, l, mi) \in BlockHeights /\ c < Target(at, l, mi)
       /\ Extends(ms, Target(at, l, mi)) /\ BlockUpdateSize <= TxSizeLimit

\* Between two messages, and with the messages ms built.
Rests(b, c, pos, ms, mi) ==
  /\ Between(b, c, pos) /\ mi = EmptyRmi
  /\ ms # <<>> => Last(ms).msg.bu = pos.height /\ c < pos.height

\* The link's position, and the one that it is about to take over.
Positions(b, c) ==
  /\ (\A p \in Procs : pc[p] \notin {"proof", "addproof"}) => Rests(b, c, bls, rms, rmi)
  /\ pc["send"] = "resync" => Between(b, c, loc["send"].done)

\* What is sent.
Sending ==
  /\ DeliveredWhole
  /\ txs \in Seq(FullTransactions)
  /\ FullList(rms)
  /\ \A p \in Procs : loc[p].todo \in Seq(FullMessages)

Process(b, c) ==
  /\ b <= bmc.height /\ (crashes = 0 => c = b)
  /\ Turns /\ Fresh /\ Slices /\ Telling(b, c) /\ Keeping(c) /\ Passing /\ Positions(b, c)
  /\ \A p \in Procs : At(b, c, pc[p], loc[p], bls, rms, rss, brss, rmi)

TurnsInv == Sending /\ \E b \in BlockHeights : \E c \in 0 .. cursor : Process(b, c)

-----------------------------------------------------------------------------
(***************************************************************************)
(* The relay that is left alone. Blocks are built up to t and sent up to   *)
(* f, and the BMC takes them one after the other.                          *)
(***************************************************************************)
Label(h) == <<h, EndSeq[h]>>

Has(list, h) == \E i \in 1 .. Len(list) : list[i].msg.bu = h

\* Messages or transactions, in order, for all blocks above g and up to h, and
\* perhaps for some up to g.
Covering(list, g, h) ==
  /\ \A i \in 1 .. Len(list) : list[i].id = Label(list[i].msg.bu) /\ list[i].msg.bu <= h
  /\ \A i, j \in 1 .. Len(list) : i < j => list[i].msg.bu < list[j].msg.bu
  /\ \A k \in BlockHeights : g < k /\ k <= h => Has(list, k)

Above(list, g) == \A i \in 1 .. Len(list) : g < list[i].msg.bu

\* What is sent has been taken by the BMC, or is in the pool.
Executing(f) ==
  /\ bmc.height <= f /\ Covering(txs, bmc.height, f)
  /\ \A i \in 1 .. Len(txs) :
       IF bmc.height < txs[i].msg.bu THEN txs[i].st = "pool" /\ txs[i].code = NoCode
       ELSE txs[i].st \in {"done", "result"} /\ txs[i].code = "SUCCESS"

\* What is built has been sent, or is about to be.
Sends(f, t, at, l) == at = "send" => Covering(l.todo, f, t) /\ Above(l.todo, f)

Ready(f, t) ==
  /\ f <= t /\ Covering(rms, f, t)
  /\ \A i \in 1 .. Len(rms) : rms[i].sent <=> rms[i].msg.bu <= f
  /\ \A p \in Procs : Sends(f, t, pc[p], loc[p])

\* The next block is built upon t.
Tip(t) ==
  /\ (\A p \in Procs : pc[p] \notin {"proof", "addproof"}) => t = bls.height
  /\ \A p \in Procs : pc[p] \in Works => IsNext(t, Target(pc[p], loc[p], rmi))

\* The message whose result is at hand is not the last one that was sent, unless that
\* one's transaction is gone.
Done(f) ==
  /\ pc["send"] # "resync"
  /\ pc["send"] = "success" =>
       loc["send"].done.height <= f /\ (Has(txs, f) => loc["send"].done.height < f)

\* A result is to come, or at hand.
Wake ==
  \/ pc["send"] = "success"
  \/ \E i \in 1 .. Len(txs) : \E j \in 1 .. Len(rms) : rms[j].id = txs[i].id

\* Ids up to block f, and f only at the end.
Ends(list, f) ==
  /\ \A i \in 1 .. Len(list) : list[i][1] <= f /\ (i < Len(list) => list[i][1] < f)
  /\ list # <<>> => Last(list) = Label(f)

\* The queue ends with the last message that was sent.
Awaited(f) == \E i \in 1 .. Len(txs) : txs[i].msg.bu = f /\ txs[i].st # "result"

Queued(f) ==
  /\ Ends(queue, f) /\ (queue # <<>> => Awaited(f))
  /\ Has(txs, f) => Has(rms, f)

Waking ==
  /\ relayState = "PENDING" => Wake
  /\ \A p \in Procs : pc[p] = "suspend" => Wake
  /\ relayState = "INIT" => /\ (\E i \in 1 .. Len(rms) : rms[i].sent) => Wake
                            /\ \A p \in Procs : pc[p] = "send" /\ ~loc[p].first => rms # <<>>

\* The receiver has what is asked for, and one proof is enough.
Supplies(at, l, blist, mi) ==
  /\ at = "build" => l.index \in 1 .. Len(blist)
  /\ at = "addproof" /\ BlocksFit => mi.size = BlockUpdateSize

Supplied == \A p \in Procs : Supplies(pc[p], loc[p], brss, rmi)

Held(f, t) == Ready(f, t) /\ Tip(t) /\ Done(f) /\ Queued(f) /\ Waking /\ Supplied

CalmInv ==
  crashes = 0 =>
    /\ \E f, t \in BlockHeights : Executing(f) /\ (mode = "run" => Held(f, t))
    /\ BlocksFit => mode \in {"run", "killed"}

-----------------------------------------------------------------------------
(***************************************************************************)
(* Terms of the proofs.                                                    *)
(***************************************************************************)
\* The messages of the blocks S.
SeqOf(S) ==
  LET before == {EndSeq[g] : g \in S}
  IN  IF before = {} THEN 0 ELSE CHOOSE n \in before : \A m \in before : m <= n

\* What is left of a list when elements are dropped from its start.
Rest(E, list, I, d, new) ==
  /\ d \in 0 .. Len(list) /\ (d # 0 => d \in I)
  /\ new \in Seq(E) /\ Len(new) = Len(list) - d
  /\ \A i \in 1 .. Len(list) - d : new[i] = list[d + i] /\ d + i \in 1 .. Len(list)
  /\ new # <<>> => list # <<>> /\ Last(new) = Last(list)

\* Some of the messages of a list, up to its end, with the same contents.
Shrunk(list, new) ==
  /\ FullList(new)
  /\ \A i \in 1 .. Len(new) : \E j \in 1 .. Len(list) : new[i].bls = list[j].bls
  /\ new # <<>> => list # <<>> /\ Last(new).msg.bu = Last(list).msg.bu

\* Not at work on a block.
Asides == Places \ (Works \union {"next", "build"})

\* A new process, and one that runs.
Begins ==
  /\ bmc.height \in BlockHeights /\ bmc.rxSeq = EndSeq[bmc.height]
  /\ LinkInit(bmc)
  /\ brss = <<>> /\ bseq = EndSeq[bmc.height] /\ rsc = NoStatus /\ blsc = NoPosition
  /\ slices = NoSlices
  /\ cursor \in Nat /\ bmc.height <= cursor /\ (crashes = 0 => cursor = bmc.height)

Running == \E b \in BlockHeights : \E c \in 0 .. cursor : Process(b, c)

\* new has elements of list, in their order, and all those above g.
Picks(list, new, m, g) ==
  /\ \A i \in 1 .. Len(new) : /\ m[i] \in 1 .. Len(list)
                              /\ new[i].id = list[m[i]].id /\ new[i].msg = list[m[i]].msg
  /\ \A i, j \in 1 .. Len(new) : i < j => m[i] < m[j]
  /\ \A j \in 1 .. Len(list) : g < list[j].msg.bu => \E i \in 1 .. Len(new) : m[i] = j

\* new is list without its first d elements.
Suffix(list, new, d) ==
  /\ d \in 0 .. Len(list) /\ Len(new) = Len(list) - d
  /\ \A i \in 1 .. Len(new) : new[i] = list[d + i] /\ d + i \in 1 .. Len(list)

\* new is list without its element i, which is not above g.
Removed(list, new, i, g) ==
  /\ \E m : Picks(list, new, m, g)
  /\ \A j \in 1 .. Len(new) : \E k \in 1 .. Len(list) : new[j] = list[k] /\ k # i
  /\ \A k \in 1 .. Len(list) : k # i => \E j \in 1 .. Len(new) : new[j] = list[k]

\* The same blocks, in the same order.
Same(list, new) ==
  Len(new) = Len(list) /\ \A i \in 1 .. Len(list) : new[i].id = list[i].id /\ new[i].msg = list[i].msg
=============================================================================
