------------------------------ MODULE LinkTurns ------------------------------
(***************************************************************************)
(* What the link gets right while its goroutines take turns, whatever the  *)
(* chain, other relays and crashes do: every block is delivered with all   *)
(* of its messages, the messages built ahead carry consecutive blocks, are *)
(* not too large, and are never looked for in vain.                        *)
(***************************************************************************)
EXTENDS LinkLemmas

USE BlockHeightsAssumption
\* The steps below are for Zenon where they do not name another prover.
USE Zenon

-----------------------------------------------------------------------------
(***************************************************************************)
(* The source.                                                             *)
(***************************************************************************)
\* They grow with the height.
LEMMA UptoGrows ==
  ASSUME NEW c \in Nat, NEW d \in Nat, c <= d, NEW b \in BlockHeights, b <= c
  PROVE  Upto(c) \in Nat /\ EndSeq[b] \in Nat /\ EndSeq[b] <= Upto(c) /\ Upto(c) <= Upto(d)
<1>1. b \in Nat /\ b <= d
  BY SMT
<1>2. PICK m \in BlockHeights : /\ m <= c /\ Upto(c) = EndSeq[m]
                              /\ \A j \in BlockHeights : j <= c => j <= m
  BY UptoIs
<1>3. PICK n \in BlockHeights : /\ n <= d /\ Upto(d) = EndSeq[n]
                              /\ \A j \in BlockHeights : j <= d => j <= n
  BY <1>1, UptoIs
<1>4. b <= m /\ m <= n /\ m \in Nat /\ n \in Nat
  BY <1>2, <1>3, SMT
<1>5. \A g, h \in BlockHeights : g <= h => EndSeq[g] <= EndSeq[h] /\ EndSeq[g] \in Nat
  <2> SUFFICES ASSUME NEW g \in BlockHeights, NEW h \in BlockHeights, g <= h
               PROVE  EndSeq[g] <= EndSeq[h] /\ EndSeq[g] \in Nat
    OBVIOUS
  <2>1. CASE g = h
    BY <2>1, EndSeqAssumption, SMT
  <2>2. CASE g # h
    BY <2>2, EndSeqAssumption, SMT
  <2> QED
    BY <2>1, <2>2
<1> QED
  BY <1>2, <1>3, <1>4, <1>5

\* No block between two heights.
LEMMA UptoSame ==
  ASSUME NEW g \in Nat, NEW n \in Nat, g <= n, BlockHeights \intersect (g + 1) .. n = {}
  PROVE  Upto(n) = Upto(g)
<1>1. {h \in BlockHeights : h < n + 1} = {h \in BlockHeights : h < g + 1}
  <2>1. ASSUME NEW h \in BlockHeights PROVE h < n + 1 <=> h < g + 1
    <3>1. h \in Nat /\ h \notin (g + 1) .. n
      OBVIOUS
    <3> QED
      BY <3>1, SMT
  <2> QED
    BY <2>1
<1>2. Upto(n) = SeqOf({h \in BlockHeights : h < n + 1}) /\ Upto(g) = SeqOf({h \in BlockHeights : h < g + 1})
  BY StartSeqOf DEF Upto
<1> QED
  BY ONLY <1>1, <1>2, Zenon

-----------------------------------------------------------------------------
(***************************************************************************)
(* Lists of statuses.                                                      *)
(***************************************************************************)
LEMMA StatusesAppend ==
  ASSUME NEW b, NEW c, NEW list, Statuses(b, c, list), NEW rs, Said(b, c, rs), Below(list, rs.height)
  PROVE  /\ Statuses(b, c, Append(list, rs)) /\ In(Append(list, rs), rs.height)
         /\ Append(list, rs) # <<>> /\ Last(Append(list, rs)) = rs
         /\ \A h : In(list, h) => In(Append(list, rs), h)
         /\ \A h \in Int : Below(list, h) /\ rs.height < h => Below(Append(list, rs), h)
<1> DEFINE new == Append(list, rs)
<1>1. list \in Seq(ReceiveStatus) /\ rs \in ReceiveStatus
  BY DEF Statuses, Said
<1>2. PICK n \in Nat : n = Len(list)
  BY <1>1, SeqLen
<1>3. /\ new \in Seq(ReceiveStatus) /\ Len(new) = n + 1 /\ new[n + 1] = rs
      /\ \A i \in 1 .. n : new[i] = list[i]
  BY <1>1, <1>2, SeqAppend, SMT
<1> HIDE DEF new
<1>4. \A i \in 1 .. n + 1 : i \in 1 .. n \/ i = n + 1
  BY SMT
<1>5. \A i \in 1 .. n + 1 : Said(b, c, new[i])
  BY <1>2, <1>3, <1>4 DEF Statuses
<1>6. ASSUME NEW i \in 1 .. n + 1, NEW j \in 1 .. n + 1, i < j
      PROVE  new[i].height < new[j].height
  <2>1. i \in 1 .. n
    BY <1>6, SMT
  <2>2. CASE j = n + 1
    BY <1>2, <1>3, <2>1, <2>2 DEF Below
  <2>3. CASE j \in 1 .. n
    BY <1>2, <1>3, <1>6, <2>1, <2>3 DEF Statuses, Rising
  <2> QED
    BY <1>4, <2>2, <2>3
<1>7. Statuses(b, c, new)
  BY <1>3, <1>5, <1>6 DEF Statuses, Rising
<1>8. n + 1 \in 1 .. n + 1 /\ 1 .. n \subseteq 1 .. n + 1
  BY SMT
<1>9. In(new, rs.height) /\ \A h : In(list, h) => In(new, h)
  BY <1>2, <1>3, <1>8 DEF In
<1>10. \A h \in Int : Below(list, h) /\ rs.height < h => Below(new, h)
  BY <1>2, <1>3, <1>4 DEF Below
<1>11. new # <<>> /\ Last(new) = rs
  BY <1>3, SMT DEF Last
<1> QED
  BY <1>7, <1>9, <1>10, <1>11 DEF new

\* A list whose first elements are dropped, up to one that pos covers.
LEMMA StatusesDrop ==
  ASSUME NEW b, NEW c, NEW list, Statuses(b, c, list), NEW pos, pos.height \in Int,
         NEW new, new = removeReceiveStatus(list, pos)
  PROVE  /\ Statuses(b, c, new)
         /\ \A h : Below(list, h) => Below(new, h)
         /\ \A h \in Int : In(list, h) /\ pos.height < h => In(new, h)
<1> DEFINE I == {i \in 1 .. Len(list) : Covers(pos, list[i])}
           d == IF I # {} THEN Min(I) ELSE 0
<1>1. list \in Seq(ReceiveStatus)
  BY DEF Statuses
<1>2. PICK n \in Nat : n = Len(list)
  BY <1>1, SeqLen
<1>3. new = SubSeq(list, d + 1, Len(list))
  BY DEF removeReceiveStatus, DropThrough, SelectInSeq
<1>4. I \in SUBSET (1 .. Len(list)) /\ \A i \in I : list[i].height <= pos.height
  BY DEF Covers
<1> HIDE DEF I
<1>9. d = IF I # {} THEN Min(I) ELSE 0
  OBVIOUS
<1> HIDE DEF d
<1>5. /\ d \in 0 .. n /\ (d # 0 => d \in I)
      /\ new \in Seq(ReceiveStatus) /\ Len(new) = n - d
      /\ \A i \in 1 .. n - d : new[i] = list[d + i] /\ d + i \in 1 .. n
  <2>1. I \in SUBSET (1 .. Len(list))
    BY <1>4
  <2>2. Rest(ReceiveStatus, list, I, d, SubSeq(list, d + 1, Len(list)))
    BY ONLY <1>1, <1>9, <2>1, DropList, Zenon
  <2>3. Rest(ReceiveStatus, list, I, d, new)
    BY ONLY <1>3, <2>2, Zenon
  <2> QED
    BY ONLY <1>2, <2>3, Zenon DEF Rest
<1>6. Statuses(b, c, new)
  <2>1. \A i \in 1 .. n - d : Said(b, c, new[i])
    BY <1>2, <1>5 DEF Statuses
  <2>2. ASSUME NEW i \in 1 .. n - d, NEW j \in 1 .. n - d, i < j PROVE new[i].height < new[j].height
    <3>1. d + i < d + j
      BY <1>5, <2>2, SMT
    <3> QED
      BY <1>2, <1>5, <3>1 DEF Statuses, Rising
  <2> QED
    BY <1>5, <2>1, <2>2 DEF Statuses, Rising
<1>7. \A h : Below(list, h) => Below(new, h)
  BY <1>2, <1>5 DEF Below
<1>8. ASSUME NEW h \in Int, In(list, h), pos.height < h PROVE In(new, h)
  <2>1. PICK i \in 1 .. n : list[i].height = h
    BY <1>2, <1>8 DEF In
  <2>2. d < i
    <3>1. CASE d = 0
      BY <3>1, SMT
    <3>2. CASE d # 0
      <4>1. d \in 1 .. n /\ list[d].height <= pos.height
        BY <1>4, <1>5, <3>2, SMT
      <4>2. list[d].height \in Int
        <5>1. list[d] \in ReceiveStatus
          BY <1>1, <1>2, <4>1, SMT
        <5>2. list[d].height \in BlockHeights
          BY ONLY <5>1, Zenon DEF ReceiveStatus
        <5> QED
          BY ONLY <5>2, HeightIsInt, Zenon
      <4>3. i < d => h < list[d].height
        BY <1>2, <2>1, <4>1 DEF Statuses, Rising
      <4>4. list[d].height < h
        BY <1>8, <4>1, <4>2, SMT
      <4>5. i # d
        BY <2>1, <4>2, <4>4, SMT
      <4> QED
        BY <1>8, <4>1, <4>2, <4>3, <4>4, <4>5, SMT
    <3> QED
      BY <3>1, <3>2
  <2>3. i - d \in 1 .. n - d /\ d + (i - d) = i
    BY <1>5, <2>2, SMT
  <2> QED
    BY <1>5, <2>1, <2>3 DEF In
<1> QED
  BY <1>6, <1>7, <1>8

LEMMA ClearedIs == \A pos : Cleared(pos) = removeReceiveStatus(brss, pos)
BY DEF Cleared, removeReceiveStatus

-----------------------------------------------------------------------------
(***************************************************************************)
(* Lists of relay messages.                                                *)
(***************************************************************************)
LEMMA MessagesDrop ==
  ASSUME NEW list, FullList(list), NEW pos
  PROVE  Shrunk(list, removeRelayMessage(list, pos))
<1> DEFINE I == {i \in 1 .. Len(list) : list[i].bls.height <= pos.height /\ list[i].bls.rxSeq <= pos.rxSeq}
           d == IF I # {} THEN Min(I) ELSE 0
<1>1. list \in Seq(FullMessages)
  BY DEF FullList
<1>2. PICK n \in Nat : n = Len(list)
  BY <1>1, SeqLen
<1>3. PICK new : new = removeRelayMessage(list, pos)
  OBVIOUS
<1>4. new = SubSeq(list, d + 1, Len(list))
  BY <1>3 DEF removeRelayMessage, DropThrough, SelectInSeq
<1>5. I \in SUBSET (1 .. Len(list))
  OBVIOUS
<1> HIDE DEF I
<1>6. d = IF I # {} THEN Min(I) ELSE 0
  OBVIOUS
<1> HIDE DEF d
<1>7. Rest(FullMessages, list, I, d, SubSeq(list, d + 1, Len(list)))
  BY ONLY <1>1, <1>5, <1>6, DropList, Zenon
<1>8. Rest(FullMessages, list, I, d, new)
  BY ONLY <1>4, <1>7, Zenon
<1>9. /\ d \in 0 .. n
      /\ new \in Seq(FullMessages) /\ Len(new) = n - d
      /\ \A i \in 1 .. n - d : new[i] = list[d + i] /\ d + i \in 1 .. n
      /\ new # <<>> => list # <<>> /\ Last(new) = Last(list)
  BY ONLY <1>2, <1>8, Zenon DEF Rest
<1>10. ASSUME NEW i \in 1 .. Len(new) - 1 PROVE IsNext(new[i].msg.bu, new[i + 1].msg.bu)
  <2>1. i \in 1 .. n - d /\ i + 1 \in 1 .. n - d /\ d + i \in 1 .. n - 1 /\ d + (i + 1) = (d + i) + 1
    BY <1>9, <1>10, SMT
  <2>2. IsNext(list[d + i].msg.bu, list[(d + i) + 1].msg.bu)
    BY <1>2, <2>1 DEF FullList, Chained
  <2>3. new[i] = list[d + i] /\ new[i + 1] = list[(d + i) + 1]
    BY <1>9, <2>1, SMT
  <2> QED
    BY ONLY <2>2, <2>3, Zenon
<1>11. Chained(new)
  BY ONLY <1>10, Zenon DEF Chained
<1>12. \A i \in 1 .. Len(new) : \E j \in 1 .. Len(list) : new[i].bls = list[j].bls
  BY <1>2, <1>9
<1> QED
  BY ONLY <1>3, <1>9, <1>11, <1>12, Zenon DEF Shrunk, FullList

LEMMA SameMessages == ASSUME NEW list, FullList(list) PROVE Shrunk(list, list)
BY DEF Shrunk

LEMMA MessagesMark ==
  ASSUME NEW list, FullList(list), NEW rm
  PROVE  Shrunk(list, MarkSent(list, rm))
<1> DEFINE I == {i \in 1 .. Len(list) : list[i].id = rm.id /\ ~list[i].sent}
           d == IF I # {} THEN Min(I) ELSE 0
<1>1. list \in Seq(FullMessages)
  BY DEF FullList
<1>2. PICK n \in Nat : n = Len(list) /\ DOMAIN list = 1 .. n
  BY <1>1, SeqLen
<1>3. PICK new : new = MarkSent(list, rm)
  OBVIOUS
<1>4. new = IF d = 0 THEN list ELSE [list EXCEPT ![d].sent = TRUE]
  BY <1>3 DEF MarkSent, SelectInSeq
<1>5. I \in SUBSET (1 .. Len(list)) /\ d = IF I # {} THEN Min(I) ELSE 0
  OBVIOUS
<1>6. new \in Seq(FullMessages)
  BY <1>1, <1>3, MarkSentType, MarkedFull
<1> HIDE DEF I
<1>7. d \in 0 .. n
  <2>1. d \in 0 .. Len(list)
    BY <1>1, <1>5, SelectList
  <2> QED
    BY <1>2, <2>1
<1> HIDE DEF d
<1>8. CASE d = 0
  BY <1>3, <1>4, <1>8, SameMessages
<1>9. CASE d # 0
  <2>1. d \in 1 .. n
    BY <1>7, <1>9, SMT
  <2>2. new = [list EXCEPT ![d] = [list[d] EXCEPT !.sent = TRUE]]
    BY <1>4, <1>9
  <2>3. /\ DOMAIN new = 1 .. n
        /\ \A i \in 1 .. n : new[i] = IF i = d THEN [list[i] EXCEPT !.sent = TRUE] ELSE list[i]
    BY <1>2, <2>1, <2>2
  <2>4. Len(new) = n
    BY <1>2, <1>6, <2>3, SeqLen, SMT
  <2>5. ASSUME NEW i \in 1 .. n PROVE new[i].msg = list[i].msg /\ new[i].bls = list[i].bls
    <3>1. list[i] \in RelayMessage
      BY <1>1, <1>2, SMT DEF FullMessages
    <3>2. [list[i] EXCEPT !.sent = TRUE].msg = list[i].msg /\ [list[i] EXCEPT !.sent = TRUE].bls = list[i].bls
      BY <3>1 DEF RelayMessage
    <3> QED
      BY <2>3, <3>2
  <2>6. ASSUME NEW i \in 1 .. Len(new) - 1 PROVE IsNext(new[i].msg.bu, new[i + 1].msg.bu)
    <3>1. i \in 1 .. n /\ i + 1 \in 1 .. n /\ i \in 1 .. Len(list) - 1
      BY <1>2, <2>4, SMT
    <3>2. IsNext(list[i].msg.bu, list[i + 1].msg.bu)
      BY <3>1 DEF FullList, Chained
    <3> QED
      BY <2>5, <3>1, <3>2
  <2>7. Chained(new)
    BY ONLY <2>6, Zenon DEF Chained
  <2>8. list # <<>> /\ Last(new).msg.bu = Last(list).msg.bu
    BY <1>2, <2>1, <2>4, <2>5, SMT DEF Last
  <2>9. \A i \in 1 .. Len(new) : \E j \in 1 .. Len(list) : new[i].bls = list[j].bls
    BY <1>2, <2>4, <2>5
  <2> QED
    BY ONLY <1>3, <1>6, <2>7, <2>8, <2>9, Zenon DEF Shrunk, FullList
<1> QED
  BY <1>8, <1>9

LEMMA MessagesAppend ==
  ASSUME NEW list, FullList(list), NEW rm \in FullMessages, Extends(list, rm.msg.bu)
  PROVE  /\ FullList(Append(list, rm)) /\ Append(list, rm) # <<>>
         /\ Last(Append(list, rm)) = rm
         /\ \A i \in 1 .. Len(Append(list, rm)) :
              \/ Append(list, rm)[i] = rm
              \/ \E j \in 1 .. Len(list) : Append(list, rm)[i] = list[j]
<1>1. list \in Seq(FullMessages)
  BY DEF FullList
<1>2. PICK n \in Nat : n = Len(list)
  BY <1>1, SeqLen
<1>3. PICK new : new = Append(list, rm)
  OBVIOUS
<1>4. /\ new \in Seq(FullMessages) /\ Len(new) = n + 1 /\ new[n + 1] = rm
      /\ \A i \in 1 .. n : new[i] = list[i]
  BY <1>1, <1>2, <1>3, SeqAppend, SMT
<1>5. ASSUME NEW i \in 1 .. Len(new) - 1 PROVE IsNext(new[i].msg.bu, new[i + 1].msg.bu)
  <2>1. CASE i = n
    <3>1. n \in 1 .. n /\ list # <<>> /\ Last(list) = list[n]
      BY <1>2, <1>4, <1>5, <2>1, SMT DEF Last
    <3>2. IsNext(list[n].msg.bu, rm.msg.bu)
      BY <3>1 DEF Extends
    <3> QED
      BY <1>4, <2>1, <3>1, <3>2
  <2>2. CASE i # n
    <3>1. i \in 1 .. n /\ i + 1 \in 1 .. n /\ i \in 1 .. Len(list) - 1
      BY <1>2, <1>4, <1>5, <2>2, SMT
    <3>2. IsNext(list[i].msg.bu, list[i + 1].msg.bu)
      BY <3>1 DEF FullList, Chained
    <3> QED
      BY <1>4, <3>1, <3>2
  <2> QED
    BY <2>1, <2>2
<1>6. Chained(new)
  BY ONLY <1>5, Zenon DEF Chained
<1>7. new # <<>> /\ Last(new) = rm
  BY <1>4, SMT DEF Last
<1>8. ASSUME NEW i \in 1 .. Len(new) PROVE new[i] = rm \/ \E j \in 1 .. Len(list) : new[i] = list[j]
  BY <1>2, <1>4, SMT
<1> QED
  BY ONLY <1>3, <1>4, <1>6, <1>7, <1>8, Zenon DEF FullList

-----------------------------------------------------------------------------
(***************************************************************************)
(* Steps of handleRelayMessage, by the goroutine that holds the mutex.     *)
(***************************************************************************)
LEMMA HolderStep ==
  ASSUME TypeInv, TypeInv', DeliveryInv, ~Preemptive,
         NEW b \in BlockHeights, NEW c \in Nat, Process(b, c),
         NEW p \in Procs, MayRun(p), pc[p] \in Holding, pc[p] = "handle" => mtx = "none",
         NEW at \in Holding \union {"idle", "check", "report"}, NEW v, v.done = loc[p].done,
         Goto(p, at), SetLoc(p, v), UNCHANGED <<once, rss, rcvVars, bmc, crashes>>,
         \A x \in Heights : x = bls'.height \/ (at \in Works /\ x = Target(at, v, rmi')) => KnownAbove(c, x),
         \A h \in Heights : Passed(h) => h <= bls'.height /\ Clear(h, at, v, rmi'),
         \A i \in 1 .. Len(rms') : LET h == rms'[i].bls.height IN h <= bls'.height /\ Clear(h, at, v, rmi'),
         at \notin {"proof", "addproof"} => Rests(b, c, bls', rms', rmi'),
         At(b, c, at, v, bls', rms', rss, brss, rmi')
  PROVE  Process(b, c)'
<1>1. /\ slices.mon = <<>> /\ slices.fin = <<>> /\ once
      /\ \A q \in Procs \ {p} : pc[q] \in {"idle", "handle", "report", "resync"}
      /\ pc["recv"] # "append"
  BY OtherWaits
<1>2. /\ pc'[p] = at /\ loc'[p] = v
      /\ \A q \in Procs \ {p} : pc'[q] = pc[q] /\ loc'[q] = loc[q]
  BY DEF Goto, SetLoc, TypeInv, TypeOK, LinkTypeOK
<1>3. /\ UNCHANGED <<once, rss, bmc, crashes, brss, bseq, cursor, rsc, blsc, slices>>
  BY DEF rcvVars
<1>4. /\ \A q \in Procs \ {p} : pc'[q] \in {"idle", "handle", "report", "resync"}
      /\ pc'["recv"] # "append" /\ pc'["send"] # "success"
  BY <1>1, <1>2 DEF Holding, Procs
<1>5. Turns'
  BY <1>1, <1>3, <1>4 DEF Turns, Waiting
<1>6. Fresh'
  <2>1. pc'["recv"] # "once"
    BY <1>2, <1>4 DEF Holding, Procs
  <2> QED
    BY <1>1, <1>3, <2>1, SMT DEF Fresh
<1>7. Slices'
  BY <1>1, <1>3, <1>4 DEF Slices
<1>8. Telling(b, c)'
  BY <1>1, <1>3, <1>4 DEF Process, Telling
<1>9. Keeping(c)'
  <2>1. ASSUME NEW x \in Heights, KnownAbove(c, x) PROVE KnownAbove(c, x)'
    BY <1>1, <1>3, <1>4, <2>1 DEF KnownAbove, Known
  <2>2. ASSUME NEW x \in Heights, Needed(x)' PROVE KnownAbove(c, x)
    <3>1. CASE x = bls'.height \/ (at \in Works /\ x = Target(at, v, rmi'))
      BY <3>1
    <3>2. CASE x = bmc'.height \/ (pc'["send"] = "resync" /\ x = loc'["send"].done.height)
      <4>1. Needed(x)
        BY <1>2, <1>3, <3>2 DEF Needed, Procs, Holding
      <4> QED
        BY <4>1 DEF Process, Keeping
    <3> QED
      BY <1>2, <1>4, <2>2, <3>1, <3>2 DEF Needed, Works
  <2> QED
    BY <2>1, <2>2 DEF Keeping
<1>10. Passing'
  <2> DEFINE New(h) == PassedAt(h, bls', pc', loc', rmi')
  <2>1. \A h \in Heights : h <= bls'.height /\ Clear(h, at, v, rmi') => New(h)
    BY <1>2, <1>4 DEF PassedAt, Clear
  <2>2. ASSUME NEW i \in 1 .. Len(rms') PROVE rms'[i].bls.height \in Heights
    <3>1. rms' \in Seq(RelayMessage)
      BY DEF TypeInv, TypeOK, LinkTypeOK
    <3>2. rms'[i] \in RelayMessage
      BY <3>1, SMT
    <3>3. rms'[i].bls \in Position
      BY ONLY <3>2, Zenon DEF RelayMessage
    <3> QED
      BY ONLY <3>3, Zenon DEF Position
  <2>4. blsc.height \in Heights /\ loc["send"].done.height \in Heights
    BY DEF TypeInv, TypeOK, LinkTypeOK, ReceiverTypeOK, Locals, Position, Procs
  <2>10. Passed(blsc.height) /\ loc["recv"].done = NoPosition
    BY DEF Process, Passing
  <2> HIDE DEF New
  <2>3. \A i \in 1 .. Len(rms') : New(rms'[i].bls.height)
    BY <2>1, <2>2
  <2>5. New(blsc'.height)
    BY <1>3, <2>1, <2>4, <2>10
  <2>6. loc'["recv"].done = loc["recv"].done /\ loc'["send"].done = loc["send"].done
    BY <1>2 DEF Procs
  <2>7. (pc'["send"] = "resync") <=> (pc["send"] = "resync")
    BY <1>2 DEF Procs, Holding
  <2>8. CASE pc["send"] = "resync"
    <3>1. blsc'.height <= loc'["send"].done.height
      BY <1>3, <2>6, <2>8 DEF Process, Passing
    <3> QED
      BY <2>3, <2>5, <2>6, <2>7, <2>8, <2>10, <3>1 DEF Passing, Passed, New
  <2>9. CASE pc["send"] # "resync"
    <3>1. Passed(loc["send"].done.height)
      BY <2>9 DEF Process, Passing
    <3>2. New(loc'["send"].done.height)
      BY <2>1, <2>4, <2>6, <3>1
    <3> QED
      BY <2>3, <2>5, <2>6, <2>7, <2>9, <2>10, <3>2 DEF Passing, Passed, New
  <2> QED
    BY <2>8, <2>9
<1>11. Positions(b, c)'
  <2>1. pc'["send"] = "resync" => pc["send"] = "resync" /\ loc'["send"].done = loc["send"].done
    BY <1>2 DEF Procs, Holding
  <2>2. pc["send"] = "resync" => Between(b, c, loc["send"].done)
    BY DEF Process, Positions
  <2>3. (\A q \in Procs : pc'[q] \notin {"proof", "addproof"}) => Rests(b, c, bls', rms', rmi')
    BY <1>2
  <2> QED
    BY <2>1, <2>2, <2>3 DEF Positions
<1>12. ASSUME NEW q \in Procs PROVE At(b, c, pc'[q], loc'[q], bls', rms', rss', brss', rmi')
  <2>1. CASE q = p
    BY <1>2, <1>3, <2>1
  <2>2. CASE q # p
    BY <1>4, <2>2 DEF At
  <2> QED
    BY <2>1, <2>2
<1>13. b <= bmc'.height /\ (crashes' = 0 => c = b)
  BY <1>3 DEF Process
<1> QED
  BY <1>5, <1>6, <1>7, <1>8, <1>9, <1>10, <1>11, <1>12, <1>13 DEF Process

LEMMA SendingStep ==
  ASSUME TypeInv, Sending, NEW p \in Procs, NEW v, SetLoc(p, v), UNCHANGED bmc,
         v.todo \in Seq(FullMessages), FullList(rms'), txs' \in Seq(FullTransactions)
  PROVE  Sending'
<1>1. \A q \in Procs : loc'[q] = IF q = p THEN v ELSE loc[q]
  BY DEF SetLoc, TypeInv, TypeOK, LinkTypeOK
<1>2. \A q \in Procs : loc'[q].todo \in Seq(FullMessages)
  BY <1>1 DEF Sending
<1> QED
  BY <1>2 DEF Sending, DeliveredWhole

\* A step that only moves on, before or after the building of a message.
LEMMA QuietStep ==
  ASSUME TypeInv, TypeInv', DeliveryInv, ~Preemptive, Sending,
         NEW b \in BlockHeights, NEW c \in Nat, Process(b, c),
         NEW p \in Procs, MayRun(p), pc[p] \in Holding \ Works, pc[p] = "handle" => mtx = "none",
         NEW at \in (Holding \ Works) \union {"idle", "check", "report"},
         NEW v, v.done = loc[p].done, v.todo \in Seq(FullMessages),
         Goto(p, at), SetLoc(p, v), UNCHANGED <<bls, rmi, once, rss, rcvVars, bmc, crashes>>,
         Shrunk(rms, rms'), txs' \in Seq(FullTransactions),
         at = "next" => AtNext(bls, rss), at = "build" => AtBuild(c, v, bls, rss, brss)
  PROVE  Process(b, c)' /\ Sending'
<1>1. \A q \in Procs : pc[q] \notin {"proof", "addproof"}
  BY OtherWaits DEF Holding, Works
<1>2. Rests(b, c, bls', rms', rmi')
  BY <1>1 DEF Process, Positions, Rests, Shrunk
<1>3. At(b, c, at, v, bls', rms', rss, brss, rmi')
  BY DEF At, Holding, Works
<1>4. at \notin Works /\ at \in Holding \union {"idle", "check", "report"}
  BY DEF Works
<1>5. \A h : Passed(h) => h <= bls'.height
  BY DEF Passed, PassedAt
<1>6. \A h : Clear(h, at, v, rmi')
  BY <1>4 DEF Clear, Works
<1>7. \A i \in 1 .. Len(rms') : rms'[i].bls.height <= bls'.height
  BY <1>5 DEF Shrunk, Process, Passing
<1>8. bls.height \in Heights /\ KnownAbove(c, bls.height)
  BY DEF TypeInv, TypeOK, LinkTypeOK, Position, Process, Keeping, Needed
<1>9. Process(b, c)'
  BY <1>2, <1>3, <1>4, <1>5, <1>6, <1>7, <1>8, HolderStep
<1>10. Sending'
  BY SendingStep DEF Shrunk
<1> QED
  BY <1>9, <1>10

LEMMA ReturnTurns ==
  ASSUME TypeInv, TypeInv', DeliveryInv, ~Preemptive, Sending,
         NEW b \in BlockHeights, NEW c \in Nat, Process(b, c),
         NEW p \in Procs, MayRun(p), pc[p] \in Holding \ Works, pc[p] = "handle" => mtx = "none",
         Return(p), UNCHANGED <<bls, rmi, once, rss, rms, txs, rcvVars, bmc, crashes>>
  PROVE  Process(b, c)' /\ Sending'
<1> DEFINE at == loc[p].ret
           v == [Idle EXCEPT !.rs = loc[p].rs, !.done = loc[p].done]
<1>1. at \in {"idle", "check", "report"}
  BY DEF TypeInv, TypeOK, LinkTypeOK, Locals
<1>2. Goto(p, at) /\ SetLoc(p, v) /\ v.done = loc[p].done /\ v.todo = <<>>
  BY DEF Return, Idle
<1>3. <<>> \in Seq(FullMessages)
  BY SMT
<1>4. Shrunk(rms, rms') /\ txs' \in Seq(FullTransactions)
  BY SameMessages DEF Sending
<1> HIDE DEF at, v
<1> QED
  BY <1>1, <1>2, <1>3, <1>4, QuietStep, ZenonT(60)

LEMMA SendingTurns ==
  ASSUME TypeInv, TypeInv', DeliveryInv, ~Preemptive, Sending,
         NEW b \in BlockHeights, NEW c \in Nat, Process(b, c),
         NEW p \in Procs, MayRun(p), UNCHANGED <<bmc, crashes>>,
         \/ Lock(p) \/ SendRelayMessage(p) \/ Suspend(p) \/ SetPending(p) \/ SendDone(p)
  PROVE  Process(b, c)' /\ Sending'
<1>1. /\ rms \in Seq(FullMessages) /\ txs \in Seq(FullTransactions)
      /\ loc[p].todo \in Seq(FullMessages) /\ Shrunk(rms, rms)
      /\ <<>> \in Seq(FullMessages)
  BY SameMessages, SMT DEF Sending, FullList
<1>2. /\ loc \in [Procs -> Locals] /\ loc[p] \in Locals /\ pc \in [Procs -> Places]
  BY DEF TypeInv, TypeOK, LinkTypeOK
<1>3. CASE Lock(p)
  <2>1. pc[p] \in Holding \ Works /\ mtx = "none"
    BY <1>3 DEF Lock, Holding, Works
  <2>2. UNCHANGED <<bls, rms, rss, rmi, once, txs, rcvVars>>
    BY <1>3 DEF Lock, sndVars
  <2>3. CASE relayState = "PENDING"
    <3>1. Return(p)
      BY <1>3, <2>3 DEF Lock
    <3> QED
      BY <2>1, <2>2, <3>1, ReturnTurns
  <2>4. CASE relayState # "PENDING"
    <3> DEFINE v == [loc[p] EXCEPT !.todo = Unsent(rms), !.first = TRUE]
    <3>1. Goto(p, "send") /\ SetLoc(p, v)
      BY <1>3, <2>4 DEF Lock
    <3>2. v.todo = Unsent(rms) /\ v.done = loc[p].done
      BY <1>2 DEF Locals
    <3>3. v.todo \in Seq(FullMessages)
      BY <1>1, <3>2, UnsentType
    <3> HIDE DEF v
    <3>4. "send" \in Holding \ Works
      BY DEF Holding, Works
    <3> QED
      BY <1>1, <2>1, <2>2, <3>1, <3>2, <3>3, <3>4, QuietStep
  <2> QED
    BY <2>3, <2>4
<1>4. CASE SendRelayMessage(p)
  <2> DEFINE rm == Head(loc[p].todo)
             v == [loc[p] EXCEPT !.todo = Tail(loc[p].todo)]
  <2>1. pc[p] = "send" /\ pc[p] \in Holding \ Works /\ loc[p].todo # <<>>
    BY <1>4 DEF SendRelayMessage, Holding, Works
  <2>2. UNCHANGED <<bls, rss, rmi, once, rcvVars>> /\ pc' = pc
    BY <1>4 DEF SendRelayMessage
  <2>3. rm \in FullMessages /\ Tail(loc[p].todo) \in Seq(FullMessages)
    BY <1>1, <2>1, SeqHeadTail
  <2>4. Goto(p, "send") /\ SetLoc(p, v)
    BY <1>2, <1>4, <2>1, <2>2 DEF SendRelayMessage, Goto
  <2>5. v.todo = Tail(loc[p].todo) /\ v.done = loc[p].done
    BY <1>2 DEF Locals
  <2>6. Relay(rm.id, rm.msg) /\ rms' = MarkSent(rms, rm)
    BY <1>4 DEF SendRelayMessage
  <2> HIDE DEF rm, v
  <2>7. txs' \in Seq(FullTransactions)
    BY <1>1, <2>3, <2>6, SentTransactions
  <2>8. Shrunk(rms, rms')
    BY <2>6, MessagesMark DEF Sending
  <2>9. v.todo \in Seq(FullMessages)
    BY <2>3, <2>5
  <2> QED
    BY <2>1, <2>2, <2>4, <2>5, <2>7, <2>8, <2>9, QuietStep
<1>5. CASE Suspend(p)
  <2> DEFINE v == [loc[p] EXCEPT !.todo = <<>>]
  <2>1. pc[p] = "send" /\ pc[p] \in Holding \ Works /\ "suspend" \in Holding \ Works
    BY <1>5 DEF Suspend, Holding, Works
  <2>2. UNCHANGED <<bls, rms, rss, rmi, once, txs, rcvVars>>
    BY <1>5 DEF Suspend, sndVars
  <2>3. Goto(p, "suspend") /\ SetLoc(p, v)
    BY <1>5 DEF Suspend
  <2>4. v.todo = <<>> /\ v.done = loc[p].done
    BY <1>2 DEF Locals
  <2> HIDE DEF v
  <2> QED
    BY <1>1, <2>1, <2>2, <2>3, <2>4, QuietStep
<1>6. CASE SetPending(p) \/ SendDone(p)
  <2>1. pc[p] # "handle" /\ pc[p] \in Holding \ Works /\ "loop" \in Holding \ Works
    BY <1>6 DEF SetPending, SendDone, Holding, Works
  <2>2. UNCHANGED <<bls, rms, rss, rmi, once, txs, rcvVars>>
    BY <1>6 DEF SetPending, SendDone, sndVars
  <2>3. Goto(p, "loop") /\ loc' = loc
    BY <1>6 DEF SetPending, SendDone
  <2>4. SetLoc(p, loc[p])
    BY <1>2, <2>3 DEF SetLoc
  <2> QED
    BY <1>1, <2>1, <2>2, <2>3, <2>4, QuietStep
<1> QED
  BY <1>3, <1>4, <1>5, <1>6

LEMMA LoopTurns ==
  ASSUME TypeInv, TypeInv', DeliveryInv, ~Preemptive, Sending,
         NEW b \in BlockHeights, NEW c \in Nat, Process(b, c),
         NEW p \in Procs, MayRun(p), UNCHANGED <<bmc, crashes>>, Loop(p)
  PROVE  Process(b, c)' /\ Sending'
<1>1. pc[p] = "loop" /\ pc[p] \in Holding \ Works /\ "next" \in Holding \ Works
  BY DEF Loop, Holding, Works
<1>2. UNCHANGED <<bls, rms, rss, rmi, once, txs, rcvVars>>
  BY DEF Loop, sndVars
<1>3. CASE relayState # "PENDING" /\ rss # <<>> /\ Behind(bls, Last(rss))
  <2>1. rss \in Seq(ReceiveStatus) /\ bls \in Position /\ loc \in [Procs -> Locals]
    BY DEF TypeInv, TypeOK, LinkTypeOK
  <2>2. PICK n \in Nat : n = Len(rss)
    BY <2>1, SeqLen
  <2>3. n \in 1 .. n
    BY <1>3, <2>1, <2>2, SeqEmpty, SMT
  <2>4. Said(b, c, Last(rss)) /\ Last(rss) \in ReceiveStatus
    BY <2>2, <2>3 DEF Process, Telling, Statuses, Last, Said
  <2>5. bls.height < Last(rss).height
    <3>1. SUFFICES ASSUME ~(bls.height < Last(rss).height) PROVE FALSE
      OBVIOUS
    <3>2. \A q \in Procs : pc[q] \notin {"proof", "addproof"}
      BY <1>1, OtherWaits DEF Holding, Works
    <3>3. Between(b, c, bls)
      BY <3>2 DEF Process, Positions, Rests
    <3>4. bls.height \in Int /\ Last(rss).height \in Int /\ bls.rxSeq \in Int /\ Last(rss).seq \in Int
      BY <2>1, <2>4, PositionIs, StatusIs, SMT
    <3>5. Last(rss).seq <= bls.rxSeq
      BY <2>1, <2>4, <3>1, <3>3, <3>4, NotBehind, SMT
    <3> QED
      BY <1>3, <3>1, <3>4, <3>5, SMT DEF Behind
  <2>6. Goto(p, "next") /\ loc' = loc
    BY <1>3, <2>5 DEF Loop
  <2>7. SetLoc(p, loc[p])
    BY <2>1, <2>6 DEF SetLoc
  <2>8. AtNext(bls, rss)
    BY <1>3, <2>5 DEF AtNext
  <2>9. loc[p].todo \in Seq(FullMessages) /\ Shrunk(rms, rms') /\ txs' \in Seq(FullTransactions)
    BY <1>2, SameMessages DEF Sending
  <2> QED
    BY <1>1, <1>2, <2>6, <2>7, <2>8, <2>9, QuietStep
<1>4. CASE ~(relayState # "PENDING" /\ rss # <<>> /\ Behind(bls, Last(rss)))
  <2>1. Return(p)
    BY <1>4 DEF Loop
  <2> QED
    BY <1>1, <1>2, <2>1, ReturnTurns
<1> QED
  BY <1>3, <1>4

\* nextReceiveStatus finds the lowest status above the link's position.
LEMMA NextIndex ==
  ASSUME NEW b, NEW c, Statuses(b, c, brss), NEW pos \in Position,
         NEW i, i = nextReceiveIndex(pos), i \in 1 .. Len(brss)
  PROVE  /\ pos.height < brss[i].height
         /\ \A j \in 1 .. Len(brss) : pos.height < brss[j].height => brss[i].height <= brss[j].height
<1> DEFINE J == {j \in 1 .. Len(brss) : pos.height <= brss[j].height}
           d == IF J # {} THEN Min(J) ELSE 0
<1>1. brss \in Seq(ReceiveStatus)
  BY DEF Statuses
<1>2. PICK n \in Nat : n = Len(brss)
  BY <1>1, SeqLen
<1>3. i = IF d # 0 /\ brss[d].height = pos.height THEN d + 1 ELSE d
  BY DEF nextReceiveIndex, SelectInSeq
<1>4. J \subseteq Nat /\ 0 \notin J /\ J \subseteq 1 .. n
  BY <1>2, SMT
<1>5. d # 0 => d \in J /\ \A j \in J : d <= j
  <2> HIDE DEF J
  <2> QED
    BY <1>4, NatMin
<1>6. \A j \in 1 .. n : (j \in J <=> pos.height <= brss[j].height) /\ brss[j].height \in Nat
  BY <1>1, <1>2, StatusIs, SMT
<1>7. pos.height \in Nat
  BY PositionIs
<1>8. \A j, k \in 1 .. n : j < k => brss[j].height < brss[k].height
  BY <1>2 DEF Statuses, Rising
<1> HIDE DEF J, d
<1>9. i \in 1 .. n /\ d # 0 /\ d \in 1 .. n
  <2>1. i \in 1 .. n
    BY <1>2
  <2>2. d # 0
    BY ONLY <1>3, <2>1
  <2> QED
    BY ONLY <1>4, <1>5, <2>1, <2>2, Zenon
<1>10. pos.height < brss[i].height
  <2>1. CASE brss[d].height = pos.height
    <3>1. i = d + 1 /\ d < i
      BY <1>3, <1>9, <2>1, SMT
    <3> QED
      BY <1>8, <1>9, <2>1, <3>1
  <2>2. CASE brss[d].height # pos.height
    BY <1>3, <1>5, <1>6, <1>7, <1>9, <2>2, SMT
  <2> QED
    BY <2>1, <2>2
<1>11. ASSUME NEW j \in 1 .. n, pos.height < brss[j].height PROVE brss[i].height <= brss[j].height
  <2>1. j \in J /\ d <= j
    BY <1>5, <1>6, <1>7, <1>9, <1>11, SMT
  <2>2. i <= j
    <3>1. CASE brss[d].height = pos.height
      <4>1. d # j
        BY <1>7, <1>11, <3>1, SMT
      <4> QED
        BY <1>3, <1>9, <2>1, <3>1, <4>1, SMT
    <3>2. CASE brss[d].height # pos.height
      BY <1>3, <1>9, <2>1, <3>2
    <3> QED
      BY <3>1, <3>2
  <2>3. CASE i = j
    BY <1>6, <2>3, SMT
  <2>4. CASE i < j
    BY <1>6, <1>8, <1>9, <2>4, SMT
  <2> QED
    BY <1>9, <2>2, <2>3, <2>4, SMT
<1> QED
  BY <1>2, <1>10, <1>11

\* That status is the next block's, and the link has it.
LEMMA NextIsNext ==
  ASSUME TypeInv, NEW b \in BlockHeights, NEW c \in Nat, Process(b, c),
         slices.mon = <<>>, pc["recv"] # "append", AtNext(bls, rss),
         NEW i, i = nextReceiveIndex(bls), i \in 1 .. Len(brss),
         NEW k, k = brss[i].height, NEW g, g = IF bls.height < c THEN c ELSE bls.height
  PROVE  c < k /\ IsNext(g, k) /\ In(rss, k)
<1>1. /\ brss \in Seq(ReceiveStatus) /\ rss \in Seq(ReceiveStatus) /\ bls \in Position /\ cursor \in Nat
      /\ rsc \in ReceiveStatus \union {NoStatus}
  BY DEF TypeInv, TypeOK, LinkTypeOK, ReceiverTypeOK
<1>2. /\ Statuses(b, c, brss) /\ Below(brss, cursor + 1) /\ Statuses(b, c, rss) /\ Below(rss, cursor + 1)
      /\ rsc # NoStatus => Below(rss, rsc.height)
  BY DEF Process, Telling
<1>3. /\ bls.height < k /\ \A j \in 1 .. Len(brss) : bls.height < brss[j].height => k <= brss[j].height
  BY <1>1, <1>2, NextIndex
<1>4. brss[i] \in ReceiveStatus /\ k \in BlockHeights /\ k \in Nat /\ c < k /\ k < cursor + 1
  BY <1>1, <1>2, StatusIs DEF Statuses, Said, Below
<1>5. bls.height \in Nat /\ bls.height \in Heights /\ g \in Nat /\ g < k /\ bls.height <= g /\ c <= g
  BY <1>1, <1>3, <1>4, PositionIs, SMT
<1>6. ASSUME NEW j \in BlockHeights, g < j, j <= cursor
      PROVE  In(brss, j) /\ (rsc.height = j \/ In(rss, j))
  <2>1. j \in Nat /\ bls.height < j /\ c < j
    <3>1. j \in Nat
      BY HeightIsInt
    <3> QED
      BY ONLY <1>5, <1>6, <3>1, c \in Nat
  <2>2. KnownAbove(c, bls.height)
    BY <1>5 DEF Process, Keeping, Needed
  <2>3. Known(j)
    BY <1>6, <2>1, <2>2 DEF KnownAbove
  <2> QED
    BY <2>3 DEF Known
<1>7. ASSUME NEW j \in BlockHeights, g < j PROVE k <= j
  <2>1. j \in Nat
    OBVIOUS
  <2>2. CASE j <= cursor
    <3>1. PICK m \in 1 .. Len(brss) : brss[m].height = j
      BY <1>6, <1>7, <2>2 DEF In
    <3> QED
      BY <1>3, <1>5, <1>7, <2>1, <3>1, SMT
  <2>3. CASE ~(j <= cursor)
    BY <1>1, <1>4, <2>1, <2>3, SMT
  <2> QED
    BY <2>2, <2>3
<1>8. IsNext(g, k)
  BY <1>4, <1>5, <1>7 DEF IsNext
<1>9. k <= cursor
  BY <1>1, <1>4, SMT
<1>10. In(rss, k)
  <2>1. SUFFICES ASSUME rsc.height = k PROVE In(rss, k)
    BY <1>4, <1>5, <1>6, <1>9
  <2>2. rsc # NoStatus
    BY <1>4, <2>1, HeightIsInt, SMT DEF NoStatus
  <2>3. PICK n \in Nat : n = Len(rss)
    BY <1>1, SeqLen
  <2>4. n \in 1 .. n /\ Last(rss) = rss[n]
    BY <1>1, <2>3, SeqEmpty, SMT DEF AtNext, Last
  <2>5. rss[n] \in ReceiveStatus /\ rss[n].height < k /\ Said(b, c, rss[n])
    BY <1>1, <1>2, <2>1, <2>2, <2>3, <2>4, SMT DEF Below, Statuses
  <2>6. rss[n].height \in BlockHeights /\ rss[n].height \in Nat /\ c < rss[n].height /\ bls.height < rss[n].height
    BY <2>4, <2>5, StatusIs DEF Said, AtNext
  <2>7. g < rss[n].height
    BY <2>6
  <2>8. k <= rss[n].height
    BY <1>7, <2>6, <2>7
  <2> QED
    BY <1>4, <2>5, <2>6, <2>8, SMT
<1> QED
  BY <1>4, <1>8, <1>10

LEMMA NextTurns ==
  ASSUME TypeInv, TypeInv', DeliveryInv, ~Preemptive, Sending,
         NEW b \in BlockHeights, NEW c \in Nat, Process(b, c),
         NEW p \in Procs, MayRun(p), UNCHANGED <<bmc, crashes>>, NextReceiveStatus(p)
  PROVE  Process(b, c)' /\ Sending'
<1> DEFINE v == [loc[p] EXCEPT !.index = nextReceiveIndex(bls)]
<1>1. pc[p] = "next" /\ pc[p] \in Holding \ Works /\ "build" \in Holding \ Works
  BY DEF NextReceiveStatus, Holding, Works
<1>2. UNCHANGED <<bls, rms, rss, rmi, once, txs, rcvVars>>
  BY DEF NextReceiveStatus, sndVars
<1>3. Goto(p, "build") /\ SetLoc(p, v)
  BY DEF NextReceiveStatus
<1>4. loc[p] \in Locals
  BY DEF TypeInv, TypeOK, LinkTypeOK
<1>5. v.done = loc[p].done /\ v.todo = loc[p].todo /\ v.index = nextReceiveIndex(bls)
  BY <1>4 DEF Locals
<1> HIDE DEF v
<1>6. slices.mon = <<>> /\ pc["recv"] # "append" /\ pc[p] \in Holding
  BY <1>1, OtherWaits
<1>7. AtNext(bls, rss)
  BY <1>1 DEF Process, At
<1>8. AtBuild(c, v, bls, rss, brss)
  BY <1>5, <1>6, <1>7, NextIsNext, ZenonT(60) DEF AtBuild
<1>9. loc[p].todo \in Seq(FullMessages) /\ Shrunk(rms, rms') /\ txs' \in Seq(FullTransactions)
  BY <1>2, SameMessages DEF Sending
<1> QED
  BY <1>1, <1>2, <1>3, <1>5, <1>8, <1>9, QuietStep

\* The messages before block k, which follows the link's position.
LEMMA BeforeNext ==
  ASSUME NEW b \in BlockHeights, NEW c \in Nat, b <= c, NEW pos \in Position, Between(b, c, pos),
         NEW g, g = (IF pos.height < c THEN c ELSE pos.height), NEW k, IsNext(g, k), c < k,
         NEW rs, Said(b, c, rs), rs.height = k
  PROVE  Ahead(b, c, k, pos.rxSeq)
<1>1. pos.height \in BlockHeights /\ pos.height \in Nat /\ b \in Nat /\ b <= pos.height /\ g \in Nat
  BY PositionIs, HeightIsInt DEF Between
<1>2. k \in BlockHeights /\ StartSeq(k) = Upto(g)
  BY <1>1, UptoNext
<1>3. CASE Skips(b, c)
  BY <1>2, <1>3 DEF Ahead, Between, Said
<1>4. CASE ~Skips(b, c)
  <2>1. pos.rxSeq = EndSeq[pos.height] /\ Upto(c) = EndSeq[b]
    BY <1>4 DEF Between, Skips
  <2>2. CASE pos.height < c
    <3>1. g = c /\ pos.height <= c
      BY <1>1, <2>2, SMT
    <3>2. EndSeq[pos.height] \in Nat /\ EndSeq[pos.height] <= Upto(c) /\ Upto(c) \in Nat
      BY <1>1, <3>1, UptoGrows, SMT
    <3>3. EndSeq[b] <= EndSeq[pos.height]
      BY <1>1, EndSeqGrows
    <3>4. EndSeq[pos.height] = Upto(c)
      BY <2>1, <3>2, <3>3, SMT
    <3> QED
      BY <1>2, <1>4, <2>1, <3>1, <3>4 DEF Ahead
  <2>3. CASE ~(pos.height < c)
    <3>1. g = pos.height
      BY <2>3
    <3>2. Upto(pos.height) = EndSeq[pos.height]
      BY <1>1, UptoBlock
    <3> QED
      BY <1>2, <1>4, <2>1, <3>1, <3>2 DEF Ahead
  <2> QED
    BY <2>2, <2>3
<1> QED
  BY <1>3, <1>4

LEMMA BuildTurns ==
  ASSUME TypeInv, TypeInv', DeliveryInv, ~Preemptive, Sending,
         NEW b \in BlockHeights, NEW c \in Nat, Process(b, c),
         NEW p \in Procs, MayRun(p), UNCHANGED <<bmc, crashes>>, BuildBlockUpdate(p)
  PROVE  Process(b, c)' /\ Sending'
<1> DEFINE i == loc[p].index
           k == brss[i].height
           g == IF bls.height < c THEN c ELSE bls.height
           item == [NoItem EXCEPT !.height = k, !.rxSeq = bls.rxSeq]
           v == [loc[p] EXCEPT !.index = 0, !.item = item]
<1>1. pc[p] = "build" /\ pc[p] \in Holding /\ "update" \in Holding
  BY DEF BuildBlockUpdate, Holding
<1>2. UNCHANGED <<bls, rms, rss, rmi, once, txs, rcvVars>>
  BY DEF BuildBlockUpdate, sndVars
<1>3. Goto(p, "update") /\ SetLoc(p, v)
  BY DEF BuildBlockUpdate
<1>4. loc[p] \in Locals /\ bls \in Position /\ brss \in Seq(ReceiveStatus)
  BY DEF TypeInv, TypeOK, LinkTypeOK, ReceiverTypeOK
<1>5. v.done = loc[p].done /\ v.todo = loc[p].todo /\ v.item = item
  BY <1>4 DEF Locals
<1>6. item.height = k /\ item.rxSeq = bls.rxSeq
  BY DEF NoItem
<1>7. i \in 1 .. Len(brss)
  BY DEF BuildBlockUpdate
<1> HIDE DEF v, item
<1>8. c < k /\ IsNext(g, k) /\ In(rss, k)
  BY <1>1, <1>7 DEF Process, At, AtBuild
<1>9. Said(b, c, brss[i]) /\ In(brss, k) /\ b <= c
  BY <1>7 DEF Process, Telling, Statuses, In
<1>10. \A q \in Procs : pc[q] \notin {"proof", "addproof"}
  BY <1>1, OtherWaits, ZenonT(60)
<1>11. Rests(b, c, bls, rms, rmi)
  BY <1>10 DEF Process, Positions
<1> HIDE DEF k, i
<1>12. Ahead(b, c, k, bls.rxSeq)
  BY <1>4, <1>8, <1>9, <1>11, BeforeNext DEF Rests, k
<1>13. /\ k \in BlockHeights /\ k \in Nat /\ k \in Heights
       /\ bls.height \in Nat /\ bls.height \in Heights /\ bls.height < k
  BY <1>4, <1>8, PositionIs, SMT DEF IsNext, Heights
<1>14. Extends(rms, k)
  <2>1. ASSUME rms # <<>> PROVE IsNext(Last(rms).msg.bu, k)
    <3>1. Last(rms).msg.bu = bls.height /\ c < bls.height
      BY <1>11, <2>1 DEF Rests
    <3>2. g = bls.height
      BY <1>13, <3>1, SMT
    <3> QED
      BY <1>8, <3>1, <3>2
  <2> QED
    BY <2>1 DEF Extends
<1> HIDE DEF g
<1>15. BlockUpdateSize <= TxSizeLimit
  <2>1. rmi.size = 0
    BY <1>11 DEF Rests, EmptyRmi
  <2>2. BlockUpdateSize <= TxSizeLimit - rmi.size
    BY DEF BuildBlockUpdate
  <2> QED
    BY <2>1, <2>2, LinkAssumption, SMT
<1>16. Target("update", v, rmi') = k
  BY <1>5, <1>6 DEF Target
<1>17. At(b, c, "update", v, bls', rms', rss, brss, rmi')
  <2>1. AtUpdate(b, c, v, rss, brss)
    BY <1>5, <1>6, <1>8, <1>9, <1>12 DEF AtUpdate
  <2> QED
    BY <1>2, <1>8, <1>13, <1>14, <1>15, <1>16, <2>1, ZenonT(60) DEF At
<1>18. KnownAbove(c, bls.height)
  BY <1>13 DEF Process, Keeping, Needed
<1>19. KnownAbove(c, k)
  BY <1>13, <1>18, HeightIsInt, SMT DEF KnownAbove
<1>20. ASSUME NEW h \in Heights, h <= bls.height PROVE h <= bls'.height /\ Clear(h, "update", v, rmi')
  BY <1>2, <1>13, <1>16, <1>20, HeightsNat, SMT DEF Clear
<1>21. \A h \in Heights : Passed(h) => h <= bls.height
  BY DEF Passed, PassedAt
<1>22. ASSUME NEW j \in 1 .. Len(rms) PROVE rms[j].bls.height \in Heights /\ rms[j].bls.height <= bls.height
  <2>1. rms[j] \in RelayMessage
    BY SMT DEF TypeInv, TypeOK, LinkTypeOK
  <2>2. rms[j].bls.height \in Heights
    BY <2>1, PositionIs DEF RelayMessage
  <2>3. Passed(rms[j].bls.height)
    BY DEF Process, Passing
  <2> QED
    BY <2>2, <2>3, <1>21
<1>23. Process(b, c)'
  <2>1. \A j \in 1 .. Len(rms') : LET h == rms'[j].bls.height IN h <= bls'.height /\ Clear(h, "update", v, rmi')
    BY <1>2, <1>20, <1>22
  <2>2. Rests(b, c, bls', rms', rmi')
    BY <1>2, <1>11
  <2>3. \A x \in Heights : x = bls'.height \/ ("update" \in Works /\ x = Target("update", v, rmi')) => KnownAbove(c, x)
    BY <1>2, <1>16, <1>18, <1>19
  <2>4. \A h \in Heights : Passed(h) => h <= bls'.height /\ Clear(h, "update", v, rmi')
    BY <1>20, <1>21
  <2> QED
    BY <1>1, <1>2, <1>3, <1>5, <1>17, <2>1, <2>2, <2>3, <2>4, HolderStep
<1>24. Sending'
  <2>1. loc[p].todo \in Seq(FullMessages) /\ FullList(rms) /\ txs \in Seq(FullTransactions)
    BY DEF Sending
  <2> QED
    BY <1>2, <1>3, <1>5, <2>1, SendingStep, ZenonT(60)
<1> QED
  BY <1>23, <1>24

\* The positions that messages are labelled with.
LEMMA Labels ==
  ASSUME TypeInv, NEW b, NEW c, Process(b, c), NEW j \in 1 .. Len(rms)
  PROVE  rms[j].bls.height \in Heights /\ Passed(rms[j].bls.height)
<1>1. rms[j] \in RelayMessage
  BY SMT DEF TypeInv, TypeOK, LinkTypeOK
<1>2. rms[j].bls.height \in Heights
  BY <1>1, PositionIs DEF RelayMessage
<1> QED
  BY <1>2 DEF Process, Passing

\* A step that goes on with the message for block k.
LEMMA WorkStep ==
  ASSUME TypeInv, TypeInv', DeliveryInv, ~Preemptive, Sending,
         NEW b \in BlockHeights, NEW c \in Nat, Process(b, c),
         NEW p \in Procs, MayRun(p), pc[p] \in Works,
         NEW at \in {"proof", "addproof"}, NEW v, v.done = loc[p].done, v.todo = loc[p].todo, v.bu,
         Goto(p, at), SetLoc(p, v), UNCHANGED <<rms, once, rss, txs, rcvVars, bmc, crashes>>,
         NEW k, k = Target(pc[p], loc[p], rmi), k = Target(at, v, rmi'), bls'.height = k,
         at = "proof" => AtProof(b, c, v, bls', brss, rmi'),
         at = "addproof" => AtAddProof(b, c, v, brss, rmi')
  PROVE  Process(b, c)' /\ Sending'
<1>1. pc[p] \in Holding /\ pc[p] # "handle" /\ at \in Holding /\ at \in Works
  BY DEF Works, Holding
<1>2. k \in BlockHeights /\ c < k /\ Extends(rms, k) /\ BlockUpdateSize <= TxSizeLimit
  BY DEF Process, At, Works
<1>3. k \in Nat /\ k \in Heights
  BY <1>2 DEF Heights
<1>4. At(b, c, at, v, bls', rms', rss, brss, rmi')
  BY <1>2 DEF At
<1>5. KnownAbove(c, k)
  BY <1>3 DEF Process, Keeping, Needed, Works
<1>6. ASSUME NEW h \in Heights, Passed(h) PROVE h <= bls'.height /\ Clear(h, at, v, rmi')
  <2>1. h < k /\ h \in Nat
    BY <1>6, HeightsNat DEF Passed, PassedAt, Clear, Works
  <2> QED
    BY <1>3, <2>1, SMT DEF Clear
<1>7. Process(b, c)'
  <2>1. ASSUME NEW j \in 1 .. Len(rms')
        PROVE  rms'[j].bls.height <= bls'.height /\ Clear(rms'[j].bls.height, at, v, rmi')
    BY <1>6, Labels
  <2>2. \A x \in Heights : x = bls'.height \/ (at \in Works /\ x = Target(at, v, rmi')) => KnownAbove(c, x)
    BY <1>5
  <2> QED
    BY <1>1, <1>4, <1>6, <2>1, <2>2, HolderStep
<1>8. Sending'
  <2>1. loc[p].todo \in Seq(FullMessages) /\ FullList(rms) /\ txs \in Seq(FullTransactions)
    BY DEF Sending
  <2> QED
    BY <2>1, SendingStep
<1> QED
  BY <1>7, <1>8

LEMMA UpdateTurns ==
  ASSUME TypeInv, TypeInv', DeliveryInv, ~Preemptive, Sending,
         NEW b \in BlockHeights, NEW c \in Nat, Process(b, c),
         NEW p \in Procs, MayRun(p), UNCHANGED <<bmc, crashes>>, UpdateBMCLinkStatus(p)
  PROVE  Process(b, c)' /\ Sending'
<1> DEFINE item == loc[p].item
           k == item.height
           rs == getReceiveStatusForHeight(rss, k)
           v == [loc[p] EXCEPT !.item = NoItem, !.bu = TRUE,
                               !.seq = IF rs # NoStatus THEN rs.seq ELSE Last(rss).seq]
<1>1. pc[p] = "update" /\ pc[p] \in Works /\ pc[p] \in Holding
  BY DEF UpdateBMCLinkStatus, Works, Holding
<1>2. UNCHANGED <<rms, rss, once, txs, rcvVars>>
  BY DEF UpdateBMCLinkStatus, sndVars
<1>3. /\ Goto(p, "proof") /\ SetLoc(p, v)
      /\ bls' = [height |-> k, rxSeq |-> item.rxSeq]
      /\ rmi' = addBlockUpdate(item)
  BY DEF UpdateBMCLinkStatus
<1>4. loc[p] \in Locals /\ rss \in Seq(ReceiveStatus)
  BY DEF TypeInv, TypeOK, LinkTypeOK
<1>5. /\ v.done = loc[p].done /\ v.todo = loc[p].todo /\ v.bu
      /\ v.seq = IF rs # NoStatus THEN rs.seq ELSE Last(rss).seq
  BY <1>4 DEF Locals
<1>6. Ahead(b, c, k, item.rxSeq) /\ In(rss, k) /\ In(brss, k)
  BY <1>1 DEF Process, At, AtUpdate
<1> HIDE DEF v
<1>7. rmi = EmptyRmi
  <2>1. \A q \in Procs : pc[q] \notin {"proof", "addproof"}
    BY <1>1, OtherWaits
  <2> QED
    BY <2>1 DEF Process, Positions, Rests
<1>8. rmi' = [bu |-> k, first |-> 0, last |-> 0, size |-> BlockUpdateSize]
  <2>1. 0 + BlockUpdateSize = BlockUpdateSize
    BY ReceiverAssumption, SMT
  <2>2. rmi' = [EmptyRmi EXCEPT !.bu = k, !.size = 0 + BlockUpdateSize]
    BY <1>3, <1>7 DEF addBlockUpdate, EmptyRmi
  <2> QED
    BY <2>1, <2>2 DEF EmptyRmi
<1>9. NoProof(rmi') /\ rmi'.bu = k
  BY <1>8 DEF NoProof
<1>10. v.seq = Counted(b, c, k)
  <2>1. PICK i \in 1 .. Len(rss) : rss[i] = rs /\ rss[i].height = k
    BY <1>4, <1>6, StatusFound
  <2>2. Said(b, c, rs) /\ rs.height = k
    BY <2>1 DEF Process, Telling, Statuses
  <2>3. rs # NoStatus
    BY <1>6, <2>2, HeightIsInt, SMT DEF NoStatus, Ahead
  <2> QED
    BY <1>5, <2>2, <2>3 DEF Said
<1>11. AtProof(b, c, v, bls', brss, rmi')
  BY <1>3, <1>6, <1>9, <1>10 DEF AtProof
<1>12. Target(pc[p], loc[p], rmi) = k /\ Target("proof", v, rmi') = k
  BY <1>1, <1>9 DEF Target
<1>13. bls'.height = k
  BY <1>3
<1> HIDE DEF k, item
<1> QED
  BY <1>1, <1>2, <1>3, <1>5, <1>11, <1>12, <1>13, WorkStep, ZenonT(60)

LEMMA ProofTurns ==
  ASSUME TypeInv, TypeInv', DeliveryInv, ~Preemptive, Sending,
         NEW b \in BlockHeights, NEW c \in Nat, Process(b, c),
         NEW p \in Procs, MayRun(p), UNCHANGED <<bmc, crashes>>, BuildProof(p)
  PROVE  Process(b, c)' /\ Sending'
<1> DEFINE k == rmi.bu
           v == [loc[p] EXCEPT !.item = NextProof]
<1>1. pc[p] = "proof" /\ pc[p] \in Works /\ bls.rxSeq < loc[p].seq
  BY DEF BuildProof, Works
<1>2. UNCHANGED <<bls, rms, rmi, rss, once, txs, rcvVars>>
  BY DEF BuildProof, sndVars
<1>3. Goto(p, "addproof") /\ SetLoc(p, v)
  BY DEF BuildProof
<1>4. loc[p] \in Locals /\ bls \in Position /\ rmi \in [bu : Heights, first : Nat, last : Nat, size : Int]
  BY DEF TypeInv, TypeOK, LinkTypeOK
<1>5. /\ v.done = loc[p].done /\ v.todo = loc[p].todo /\ v.bu = loc[p].bu
      /\ v.seq = loc[p].seq /\ v.item = NextProof
  BY <1>4 DEF Locals
<1> HIDE DEF v
<1>6. /\ AtProof(b, c, loc[p], bls, brss, rmi) /\ loc[p].bu
      /\ k \in BlockHeights /\ c < k /\ BlockUpdateSize <= TxSizeLimit
  BY <1>1 DEF Process, At, Target
<1>7. ~Skips(b, c)
  BY <1>1, ProofFound
<1>8. /\ loc[p].seq = EndSeq[k] /\ EndSeq[k] \in Nat /\ StartSeq(k) \in Nat /\ bls.rxSeq \in Int
      /\ MessageCount(k) = EndSeq[k] - StartSeq(k)
  BY <1>4, <1>6, <1>7, StartSeqType, EndSeqGrows, PositionIs, ZenonT(60) DEF AtProof,
     Counted, MessageCount
<1>9. CASE NoProof(rmi) /\ Ahead(b, c, k, bls.rxSeq)
  <2>1. bls.rxSeq = StartSeq(k) /\ bls.height = k /\ In(brss, k) /\ Statuses(b, c, brss)
    BY <1>6, <1>7, <1>9 DEF Ahead, AtProof, Process, Telling
  <2>2. NextProof = BuildMessageProof(bls, TxSizeLimit - BlockUpdateSize)
    BY <1>9 DEF NextProof, NoProof
  <2> HIDE DEF k
  <2>3. /\ NextProof.first = 1 /\ Proves(k, NextProof.last) /\ NextProof.height = k
        /\ NextProof.rxSeq = StartSeq(k) + NextProof.last
    BY <1>1, <1>6, <1>7, <1>8, <2>1, <2>2, FirstProof, SMT
  <2>4. AtAddProof(b, c, v, brss, rmi')
    BY <1>2, <1>5, <1>6, <1>7, <1>9, <2>3 DEF AtAddProof, AtProof, k
  <2> QED
    BY <1>1, <1>2, <1>3, <1>5, <1>6, <2>1, <2>4, WorkStep, ZenonT(60) DEF k, Target
<1>10. CASE /\ Proves(k, rmi.last) /\ rmi.size = BlockUpdateSize + ProofSize(rmi.last)
            /\ bls.rxSeq = StartSeq(k) + rmi.last
  <2>1. rmi.last \in Nat /\ rmi.last < MessageCount(k)
    BY <1>1, <1>4, <1>8, <1>10, SMT
  <2>2. TxSizeLimit < rmi.size
    BY <1>10, <2>1 DEF Proves
  <2>3. AtAddProof(b, c, v, brss, rmi') /\ bls.height = k
    BY <1>2, <1>5, <1>6, <2>2 DEF AtAddProof, AtProof
  <2> QED
    BY <1>1, <1>2, <1>3, <1>5, <1>6, <2>3, WorkStep DEF Target
<1> QED
  BY <1>6, <1>9, <1>10 DEF AtProof

LEMMA AddTurns ==
  ASSUME TypeInv, TypeInv', DeliveryInv, ~Preemptive, Sending,
         NEW b \in BlockHeights, NEW c \in Nat, Process(b, c),
         NEW p \in Procs, MayRun(p), UNCHANGED <<bmc, crashes>>, AddProof(p)
  PROVE  Process(b, c)' /\ Sending'
<1> DEFINE k == rmi.bu
           item == loc[p].item
           v == [loc[p] EXCEPT !.item = NoItem]
<1>1. pc[p] = "addproof" /\ pc[p] \in Works /\ loc[p].bu /\ ~(TxSizeLimit < rmi.size)
  BY DEF AddProof, Works, isOverLimit
<1>2. UNCHANGED <<rms, rss, once, txs, rcvVars>>
  BY DEF AddProof, sndVars
<1>3. /\ Goto(p, "proof") /\ SetLoc(p, v) /\ rmi' = addMessageProof(item)
      /\ bls' = [height |-> item.height, rxSeq |-> item.rxSeq]
  BY DEF AddProof
<1>4. loc[p] \in Locals /\ rmi \in [bu : Heights, first : Nat, last : Nat, size : Int]
  BY DEF TypeInv, TypeOK, LinkTypeOK
<1>5. v.done = loc[p].done /\ v.todo = loc[p].todo /\ v.bu = loc[p].bu /\ v.seq = loc[p].seq
  BY <1>4 DEF Locals
<1> HIDE DEF v
<1>6. AtAddProof(b, c, loc[p], brss, rmi)
  BY <1>1 DEF Process, At
<1>7. /\ In(brss, k) /\ loc[p].seq = Counted(b, c, k) /\ ~Skips(b, c) /\ NoProof(rmi)
      /\ item.height = k /\ item.first = 1 /\ Proves(k, item.last) /\ item.rxSeq = StartSeq(k) + item.last
  BY <1>1, <1>6 DEF AtAddProof
<1>8. item.last \in Nat /\ item.last - 1 + 1 = item.last
  <2>1. item \in Item
    BY <1>4 DEF Locals
  <2>2. item.last \in Nat
    BY ONLY <2>1, Zenon DEF Item
  <2> QED
    BY <2>2, SMT
<1> HIDE DEF item
<1>9. rmi' = [rmi EXCEPT !.first = 1, !.last = item.last, !.size = BlockUpdateSize + ProofSize(item.last)]
  BY <1>3, <1>7, <1>8 DEF addMessageProof, NoProof
<1>10. rmi'.bu = k /\ rmi'.first = 1 /\ rmi'.last = item.last /\ rmi'.size = BlockUpdateSize + ProofSize(item.last)
  BY <1>4, <1>9
<1>11. AtProof(b, c, v, bls', brss, rmi')
  BY <1>3, <1>5, <1>7, <1>10 DEF AtProof
<1>12. Target(pc[p], loc[p], rmi) = k /\ Target("proof", v, rmi') = k /\ bls'.height = k
  BY <1>1, <1>3, <1>7, <1>10 DEF Target
<1> HIDE DEF k
<1> QED
  BY <1>1, <1>2, <1>3, <1>5, <1>11, <1>12, WorkStep

\* A message that is finished carries its whole block.
LEMMA Finished ==
  ASSUME TypeInv, NEW b \in BlockHeights, NEW c \in Nat, Process(b, c),
         NEW p \in Procs, pc[p] = "proof", loc[p].seq <= bls.rxSeq
  PROVE  /\ [bu |-> rmi.bu, first |-> rmi.first, last |-> rmi.last] \in Message
         /\ Whole([bu |-> rmi.bu, first |-> rmi.first, last |-> rmi.last]) /\ Fits(rmi.last)
         /\ Between(b, c, bls) /\ bls.height = rmi.bu /\ c < bls.height
<1> DEFINE k == rmi.bu
<1>1. bls \in Position /\ rmi \in [bu : Heights, first : Nat, last : Nat, size : Int]
  BY DEF TypeInv, TypeOK, LinkTypeOK
<1>2. /\ AtProof(b, c, loc[p], bls, brss, rmi)
      /\ k \in BlockHeights /\ c < k /\ BlockUpdateSize <= TxSizeLimit
  BY DEF Process, At, Target
<1>3. /\ bls.height = k /\ loc[p].seq = Counted(b, c, k) /\ b <= c
  BY <1>2 DEF AtProof, Process, Telling
<1>4. /\ EndSeq[k] \in Nat /\ StartSeq(k) \in Nat /\ bls.rxSeq \in Int /\ EndSeq[b] \in Nat
      /\ MessageCount(k) = EndSeq[k] - StartSeq(k) /\ StartSeq(k) <= EndSeq[k]
  BY <1>1, <1>2, StartSeqType, EndSeqGrows, PositionIs DEF MessageCount
<1>5. b <= k
  <2>1. b \in Nat /\ k \in Nat /\ c \in Nat
    BY <1>2, HeightIsInt
  <2> QED
    BY ONLY <1>2, <1>3, <2>1
<1>6. MessageSize \in Nat /\ BlockUpdateSize \in Nat /\ TxSizeLimit \in Nat
  BY ReceiverAssumption, LinkAssumption
<1>7. CASE NoProof(rmi) /\ Ahead(b, c, k, bls.rxSeq)
  <2>1. rmi.last = 0 /\ Fits(0)
    BY <1>2, <1>6, <1>7, SMT DEF NoProof, Fits, ProofSize
  <2>2. MessageCount(k) = 0
    BY <1>3, <1>4, <1>7, SMT DEF Ahead, Counted
  <2>3. Between(b, c, bls)
    BY <1>2, <1>3, <1>4, <1>5, <1>7, <2>2, SMT DEF Between, Ahead
  <2> QED
    BY <1>1, <1>2, <1>3, <2>1, <2>2, <2>3 DEF Whole, Message, Heights
<1>8. CASE /\ ~Skips(b, c) /\ rmi.first = 1 /\ Proves(k, rmi.last)
           /\ bls.rxSeq = StartSeq(k) + rmi.last
  <2>1. rmi.last \in Nat /\ rmi.last <= MessageCount(k) /\ Fits(rmi.last)
    BY <1>1, <1>4, <1>8, SMT DEF Proves
  <2>2. rmi.last = MessageCount(k) /\ bls.rxSeq = EndSeq[k]
    BY <1>3, <1>4, <1>8, <2>1, SMT DEF Counted
  <2>3. Between(b, c, bls)
    BY <1>2, <1>3, <1>5, <1>8, <2>2 DEF Between
  <2> QED
    BY <1>1, <1>2, <1>3, <1>8, <2>1, <2>2, <2>3 DEF Whole, Message, Heights
<1> QED
  BY <1>2, <1>7, <1>8 DEF AtProof

LEMMA AppendTurns ==
  ASSUME TypeInv, TypeInv', DeliveryInv, ~Preemptive, Sending,
         NEW b \in BlockHeights, NEW c \in Nat, Process(b, c),
         NEW p \in Procs, MayRun(p), UNCHANGED <<bmc, crashes>>, AppendRelayMessage(p)
  PROVE  Process(b, c)' /\ Sending'
<1> DEFINE msg == [bu |-> rmi.bu, first |-> rmi.first, last |-> rmi.last]
           rm == [id |-> MessageId(bls), bls |-> bls, msg |-> msg, sent |-> FALSE]
           v == [loc[p] EXCEPT !.bu = FALSE, !.seq = 0, !.first = FALSE,
                               !.todo = IF mtx = p THEN Unsent(rms') ELSE <<>>]
<1>1. pc[p] = "proof" /\ pc[p] \in Works /\ pc[p] \in Holding /\ loc[p].seq <= bls.rxSeq
  BY DEF AppendRelayMessage, Works, Holding
<1>2. UNCHANGED <<bls, rss, once, txs, rcvVars>>
  BY DEF AppendRelayMessage, sndVars
<1>3. mtx = p
  BY <1>1 DEF Process, At, DeliveryInv, Locked
<1>4. Goto(p, "send") /\ SetLoc(p, v) /\ appendRelayMessage
  BY <1>3 DEF AppendRelayMessage
<1>5. rms' = Append(rms, rm) /\ rmi' = EmptyRmi
  BY <1>4 DEF appendRelayMessage
<1>6. loc[p] \in Locals /\ bls \in Position
  BY DEF TypeInv, TypeOK, LinkTypeOK
<1>7. v.done = loc[p].done /\ v.todo = Unsent(rms')
  BY <1>3, <1>6 DEF Locals
<1> HIDE DEF v
<1>8. /\ msg \in Message /\ Whole(msg) /\ Fits(msg.last) /\ msg.bu = rmi.bu
      /\ Between(b, c, bls) /\ bls.height = rmi.bu /\ c < bls.height
  BY <1>1, Finished
<1> HIDE DEF msg
<1>9. rm \in FullMessages /\ rm.bls = bls /\ rm.msg = msg
  <2>1. MessageId(bls) \in Id
    BY <1>6, PositionIs DEF MessageId, Id, Heights
  <2>2. rm \in RelayMessage
    BY <1>6, <1>8, <2>1 DEF RelayMessage
  <2> QED
    BY <1>8, <2>2 DEF FullMessages
<1> HIDE DEF rm
<1>10. Extends(rms, rm.msg.bu)
  BY <1>1, <1>8, <1>9 DEF Process, At, Target
<1>11. /\ FullList(rms') /\ rms' # <<>> /\ Last(rms') = rm
       /\ \A i \in 1 .. Len(rms') : rms'[i] = rm \/ \E j \in 1 .. Len(rms) : rms'[i] = rms[j]
  BY <1>5, <1>9, <1>10, MessagesAppend, SMT DEF Sending
<1>12. Rests(b, c, bls', rms', rmi')
  BY <1>2, <1>5, <1>8, <1>9, <1>11 DEF Rests
<1>13. At(b, c, "send", v, bls', rms', rss, brss, rmi') /\ \A h : Clear(h, "send", v, rmi')
  BY DEF At, Clear
<1>14. bls.height \in Heights /\ bls.height \in Nat /\ KnownAbove(c, bls.height)
  BY <1>6, PositionIs DEF Process, Keeping, Needed
<1>15. \A h \in Heights : Passed(h) => h <= bls'.height
  BY <1>2 DEF Passed, PassedAt
<1>16. \A i \in 1 .. Len(rms') : rms'[i].bls.height <= bls'.height
  <2>1. \A j \in 1 .. Len(rms) : rms[j].bls.height <= bls'.height
    BY <1>15, Labels
  <2>2. rm.bls.height <= bls'.height
    BY <1>2, <1>9, <1>14, SMT
  <2> QED
    BY <1>11, <2>1, <2>2
<1>17. Process(b, c)'
  <2>1. "send" \in Holding /\ "send" \notin Works
    BY DEF Holding, Works
  <2> QED
    BY <1>1, <1>2, <1>4, <1>7, <1>12, <1>13, <1>14, <1>15, <1>16, <2>1, HolderStep, ZenonT(60)
<1>18. Sending'
  <2>1. v.todo \in Seq(FullMessages)
    BY <1>7, <1>11, UnsentType DEF FullList
  <2> QED
    BY <1>2, <1>4, <1>11, <2>1, SendingStep DEF Sending
<1> QED
  BY <1>17, <1>18

LEMMA HandleTurns ==
  ASSUME TypeInv, TypeInv', DeliveryInv, ~Preemptive, Sending,
         NEW b \in BlockHeights, NEW c \in Nat, Process(b, c),
         NEW p \in Procs, MayRun(p), UNCHANGED <<bmc, crashes>>, HandleRelayMessage(p)
  PROVE  Process(b, c)' /\ Sending'
<1>1. CASE Lock(p) \/ SendRelayMessage(p) \/ Suspend(p) \/ SetPending(p) \/ SendDone(p)
  BY <1>1, SendingTurns
<1>2. CASE Loop(p)
  BY <1>2, LoopTurns
<1>3. CASE NextReceiveStatus(p)
  BY <1>3, NextTurns, ZenonT(60)
<1>4. CASE BuildBlockUpdate(p)
  BY <1>4, BuildTurns
<1>5. CASE UpdateBMCLinkStatus(p)
  BY <1>5, UpdateTurns
<1>6. CASE BuildProof(p)
  BY <1>6, ProofTurns
<1>7. CASE BuildProofNil(p)
  <2>1. pc[p] = "proof" /\ bls.rxSeq < loc[p].seq /\ NextProof = NoItem
    BY <1>7 DEF BuildProofNil
  <2> QED
    BY <2>1, ProofFound
<1>8. CASE AddProof(p)
  BY <1>8, AddTurns
<1>9. CASE AppendRelayMessage(p)
  BY <1>9, AppendTurns
<1> QED
  BY <1>1, <1>2, <1>3, <1>4, <1>5, <1>6, <1>7, <1>8, <1>9, ZenonT(60) DEF HandleRelayMessage

-----------------------------------------------------------------------------
(***************************************************************************)
(* Steps of startReceiverChannel and startSenderChannel, beside a          *)
(* goroutine that may be at work on a message.                             *)
(***************************************************************************)
\* The block that a goroutine works on stays what it is.
LEMMA AtKept ==
  ASSUME NEW b, NEW c, NEW at \in Waiting, NEW l, NEW pos, NEW ms, NEW list, NEW blist, NEW mi,
         At(b, c, at, l, pos, ms, list, blist, mi), NEW pos2, NEW ms2, NEW list2, NEW blist2,
         at \in Works => LET k == Target(at, l, mi)
                        IN  /\ Extends(ms, k) => Extends(ms2, k)
                            /\ In(list, k) => In(list2, k)
                            /\ In(blist, k) => In(blist2, k)
  PROVE  At(b, c, at, l, pos2, ms2, list2, blist2, mi)
<1>1. at \notin {"next", "build", "proof"}
  BY DEF Waiting
<1>2. CASE at \notin Works
  BY <1>1, <1>2 DEF At, Works
<1>3. CASE at = "update"
  <2>1. AtUpdate(b, c, l, list2, blist2)
    BY <1>3 DEF At, AtUpdate, Works, Target
  <2> QED
    BY <1>3, <2>1 DEF At, Works
<1>4. CASE at = "addproof"
  <2>1. AtAddProof(b, c, l, blist2, mi)
    BY <1>4 DEF At, AtAddProof, Works, Target
  <2> QED
    BY <1>4, <2>1 DEF At, Works
<1> QED
  BY <1>1, <1>2, <1>3, <1>4 DEF Works

LEMMA SideNeeded ==
  ASSUME TypeInv, NEW p \in Procs, pc[p] \in Asides, NEW at \in Asides, NEW v, Goto(p, at), SetLoc(p, v),
         UNCHANGED <<rmi, bmc>>, bls' = bls \/ (pc["send"] = "resync" /\ bls' = loc["send"].done),
         at = "resync" => p = "send" /\ v.done = bmc, NEW x, Needed(x)'
  PROVE  Needed(x)
<1>1. /\ pc'[p] = at /\ loc'[p] = v /\ at \notin Works
      /\ \A q \in Procs \ {p} : pc'[q] = pc[q] /\ loc'[q] = loc[q]
  BY DEF Goto, SetLoc, TypeInv, TypeOK, LinkTypeOK, Asides
<1>2. CASE x = bls'.height \/ x = bmc'.height
  BY <1>2 DEF Needed
<1>3. CASE pc'["send"] = "resync" /\ x = loc'["send"].done.height
  <2>1. CASE p = "send"
    BY <1>1, <1>3, <2>1 DEF Needed
  <2>2. CASE p # "send"
    BY <1>1, <1>3, <2>2 DEF Needed, Procs
  <2> QED
    BY <2>1, <2>2
<1>4. ASSUME NEW q \in Procs, pc'[q] \in Works, x = Target(pc'[q], loc'[q], rmi')
      PROVE  Needed(x)
  <2>1. q # p
    BY <1>1, <1>4
  <2> QED
    BY <1>1, <1>4, <2>1 DEF Needed, Works
<1> QED
  BY <1>2, <1>3, <1>4 DEF Needed, Works

LEMMA SideStep ==
  ASSUME TypeInv, TypeInv', ~Preemptive, NEW b \in BlockHeights, NEW c \in Nat, Process(b, c),
         NEW p \in Procs, MayRun(p), pc[p] \in Asides, NEW at \in Asides, NEW v, Goto(p, at), SetLoc(p, v),
         UNCHANGED <<rmi, brss, slices, bmc, crashes>>,
         Fresh', Slices', Telling(b, c)', Keeping(c)',
         Shrunk(rms, rms') \/ rms' = <<>>,
         \A q \in Procs \ {p} : pc[q] \in Works =>
           LET k == Target(pc[q], loc[q], rmi) IN In(rss, k) => In(rss', k),
         bls' = bls \/ (rms' = <<>> /\ Between(b, c, bls')),
         \A i \in 1 .. Len(rms') : Passed(rms'[i].bls.height),
         LET New(h) == h <= bls'.height /\ \A q \in Procs \ {p} : Clear(h, pc[q], loc[q], rmi)
         IN  /\ New(blsc'.height) /\ loc'["recv"].done = NoPosition
             /\ IF pc'["send"] = "resync"
                THEN blsc'.height <= loc'["send"].done.height /\ Between(b, c, loc'["send"].done)
                ELSE New(loc'["send"].done.height)
  PROVE  Process(b, c)'
<1>1. /\ pc'[p] = at /\ loc'[p] = v /\ at \notin Works /\ at \notin {"next", "build"} /\ pc[p] \notin Works
      /\ \A q \in Procs \ {p} : pc'[q] = pc[q] /\ loc'[q] = loc[q]
  BY DEF Goto, SetLoc, TypeInv, TypeOK, LinkTypeOK, Asides
<1>2. slices.mon = <<>> /\ slices.fin = <<>> /\ \A q \in Procs \ {p} : pc[q] \in Waiting
  BY DEF MayRun, Procs
<1>3. Turns'
  BY <1>1, <1>2 DEF Turns
<1>4. Passing'
  <2> DEFINE New(h) == h <= bls'.height /\ \A q \in Procs \ {p} : Clear(h, pc[q], loc[q], rmi)
  <2>1. \A h : New(h) => PassedAt(h, bls', pc', loc', rmi')
    BY <1>1 DEF PassedAt, Clear, Works
  <2>2. \A i \in 1 .. Len(rms') : New(rms'[i].bls.height)
    <3>1. CASE bls' = bls
      BY <3>1 DEF Passed, PassedAt
    <3>2. CASE rms' = <<>>
      <4>1. 1 .. Len(rms') = {}
        BY ONLY <3>2
      <4> QED
        BY <4>1
    <3> QED
      BY <3>1, <3>2
  <2>3. /\ New(blsc'.height) /\ loc'["recv"].done = NoPosition
        /\ IF pc'["send"] = "resync" THEN blsc'.height <= loc'["send"].done.height
           ELSE New(loc'["send"].done.height)
    OBVIOUS
  <2> HIDE DEF New
  <2> QED
    BY <2>1, <2>2, <2>3 DEF Passing, Passed
<1>5. \A ms, k : Extends(ms, k) => Extends(<<>>, k)
  BY DEF Extends
<1>6. \A k : Extends(rms, k) => Extends(rms', k)
  BY <1>5 DEF Extends, Shrunk
<1>7. Positions(b, c)'
  <2>1. ASSUME \A q \in Procs : pc'[q] \notin {"proof", "addproof"} PROVE Rests(b, c, bls', rms', rmi')
    <3>1. \A q \in Procs : pc[q] \notin {"proof", "addproof"}
      BY <1>1, <2>1 DEF Works
    <3>2. Rests(b, c, bls, rms, rmi)
      BY <3>1 DEF Process, Positions
    <3> QED
      BY <3>2 DEF Rests, Shrunk
  <2> QED
    BY <2>1 DEF Positions
<1>8. ASSUME NEW q \in Procs PROVE At(b, c, pc'[q], loc'[q], bls', rms', rss', brss', rmi')
  <2>1. CASE q = p
    BY <1>1, <2>1 DEF At, Works
  <2>2. CASE q # p
    <3>1. At(b, c, pc[q], loc[q], bls, rms, rss, brss, rmi) /\ pc[q] \in Waiting
      BY <1>2, <2>2 DEF Process
    <3>2. pc[q] \in Works => LET k == Target(pc[q], loc[q], rmi)
                            IN  /\ Extends(rms, k) => Extends(rms', k)
                                /\ In(rss, k) => In(rss', k)
      BY <1>6, <2>2
    <3>3. At(b, c, pc[q], loc[q], bls', rms', rss', brss, rmi)
      BY <3>1, <3>2, AtKept
    <3> QED
      BY <1>1, <2>2, <3>3
  <2> QED
    BY <2>1, <2>2
<1> QED
  BY <1>3, <1>4, <1>7, <1>8 DEF Process

LEMMA ZeroPassed ==
  ASSUME TypeInv, NEW b, NEW c, Process(b, c)
  PROVE  Passed(0)
<1>1. bls.height \in Nat
  BY PositionIs DEF TypeInv, TypeOK, LinkTypeOK
<1>2. ASSUME NEW q \in Procs, pc[q] \in Works PROVE 0 < Target(pc[q], loc[q], rmi)
  BY <1>2, HeightIsInt DEF Process, At, Works
<1> QED
  BY <1>1, <1>2, SMT DEF Passed, PassedAt, Clear, Works

\* A step that leaves the link's position, messages and what it reports alone.
LEMMA RecvStep ==
  ASSUME TypeInv, TypeInv', ~Preemptive, Sending,
         NEW b \in BlockHeights, NEW c \in Nat, Process(b, c),
         MayRun("recv"), pc["recv"] \in Asides, NEW at \in Asides \ {"resync"}, NEW v,
         Goto("recv", at), SetLoc("recv", v), v.done = NoPosition, v.todo \in Seq(FullMessages),
         UNCHANGED <<bls, rms, rmi, brss, blsc, cursor, slices, txs, bmc, crashes>>,
         Fresh', Slices', Telling(b, c)',
         \A h : In(rss, h) => In(rss', h), \A h \in BlockHeights : Known(h) => Known(h)'
  PROVE  Process(b, c)' /\ Sending'
<1> DEFINE New(h) == h <= bls'.height /\ \A q \in Procs \ {"recv"} : Clear(h, pc[q], loc[q], rmi)
<1>1. "recv" \in Procs /\ FullList(rms) /\ txs \in Seq(FullTransactions)
  BY DEF Procs, Sending
<1>2. loc'["send"] = loc["send"] /\ pc'["send"] = pc["send"] /\ loc'["recv"] = v
  BY DEF Goto, SetLoc, TypeInv, TypeOK, LinkTypeOK, Procs
<1>3. \A x : Needed(x)' => Needed(x)
  BY <1>1, SideNeeded
<1>4. ASSUME NEW x \in Heights, Needed(x)' PROVE KnownAbove(c, x)'
  <2>1. KnownAbove(c, x)
    BY <1>3, <1>4 DEF Process, Keeping
  <2> QED
    BY <2>1 DEF KnownAbove
<1>5. Keeping(c)'
  BY <1>4 DEF Keeping
<1>6. Shrunk(rms, rms')
  BY <1>1, SameMessages
<1>7. \A i \in 1 .. Len(rms') : Passed(rms'[i].bls.height)
  BY DEF Process, Passing
<1>8. \A h : Passed(h) => New(h)
  BY DEF Passed, PassedAt
<1>9. New(blsc'.height)
  BY <1>8 DEF Process, Passing
<1>10. IF pc'["send"] = "resync"
       THEN blsc'.height <= loc'["send"].done.height /\ Between(b, c, loc'["send"].done)
       ELSE New(loc'["send"].done.height)
  BY <1>2, <1>8 DEF Process, Passing, Positions
<1>11. loc'["recv"].done = NoPosition /\ at \in Asides
  BY <1>2
<1>12. Process(b, c)'
  BY <1>1, <1>5, <1>6, <1>7, <1>9, <1>10, <1>11, SideStep, ZenonT(60)
<1>13. Sending'
  BY <1>1, SendingStep
<1> QED
  BY <1>12, <1>13

LEMMA RecvTurns ==
  ASSUME TypeInv, TypeInv', DeliveryInv, ~Preemptive, Sending,
         NEW b \in BlockHeights, NEW c \in Nat, Process(b, c),
         MayRun("recv"), UNCHANGED <<bmc, crashes>>, Recv
  PROVE  Process(b, c)' /\ Sending'
<1>1. /\ loc["recv"] \in Locals /\ loc \in [Procs -> Locals] /\ pc \in [Procs -> Places]
      /\ loc["recv"].done = NoPosition /\ loc["recv"].todo \in Seq(FullMessages)
      /\ rss \in Seq(ReceiveStatus) /\ cursor \in Nat /\ rsc \in ReceiveStatus \union {NoStatus}
  BY DEF TypeInv, TypeOK, LinkTypeOK, ReceiverTypeOK, Procs, Process, Passing, Sending
<1>2. slices.mon = <<>> /\ slices.fin = <<>> /\ pc["send"] \in Waiting
  BY DEF MayRun, Procs
<1>3. /\ Statuses(b, c, rss) /\ Below(rss, cursor + 1)
  BY DEF Process, Telling
<1>4. {"idle", "append", "once", "check", "handle"} \subseteq Asides \ {"resync"}
  BY DEF Asides, Places, Waiting, Works
<1>5. CASE ReceiveFromReceiver
  <2> DEFINE v == [loc["recv"] EXCEPT !.rs = rsc, !.rss = rss]
  <2>1. /\ pc["recv"] = "idle" /\ rsc # NoStatus /\ rsc' = NoStatus
        /\ SetLoc("recv", v) /\ Goto("recv", "append")
        /\ UNCHANGED <<bls, rms, rss, rmi, once, brss, bseq, cursor, blsc, slices, txs>>
    BY <1>5 DEF ReceiveFromReceiver, sndVars
  <2>2. v.done = NoPosition /\ v.todo = loc["recv"].todo /\ v.rs = rsc /\ v.rss = rss
    BY <1>1 DEF Locals
  <2> HIDE DEF v
  <2>3. /\ loc'["recv"] = v /\ pc'["recv"] = "append" /\ pc'["send"] = pc["send"] /\ loc'["send"] = loc["send"]
    BY <1>1, <2>1 DEF Goto, SetLoc, Procs
  <2>4. Fresh'
    BY <2>1, <2>3 DEF Fresh, Process
  <2>5. Slices'
    BY <1>2, <2>1, <2>2, <2>3 DEF Slices, Waiting
  <2>6. Telling(b, c)'
    BY <1>2, <2>1, <2>2, <2>3 DEF Telling, Process
  <2>7. ASSUME NEW h \in BlockHeights, Known(h) PROVE Known(h)'
    BY <1>2, <2>1, <2>2, <2>3, <2>7 DEF Known
  <2>8. \A h : In(rss, h) => In(rss', h)
    BY <2>1
  <2> QED
    BY <1>1, <1>4, <2>1, <2>2, <2>4, <2>5, <2>6, <2>7, <2>8, RecvStep, ZenonT(60)
<1>6. CASE AppendReceiveStatus
  <2> DEFINE v == [loc["recv"] EXCEPT !.rss = <<>>]
             at == IF once THEN "check" ELSE "once"
             rs == loc["recv"].rs
  <2>1. /\ pc["recv"] = "append" /\ rss' = Append(loc["recv"].rss, rs)
        /\ SetLoc("recv", v) /\ Goto("recv", at)
        /\ UNCHANGED <<bls, rms, rmi, once, brss, bseq, cursor, rsc, blsc, slices, txs>>
    BY <1>6 DEF AppendReceiveStatus, sndVars, rcvVars
  <2>2. v.done = NoPosition /\ v.todo = loc["recv"].todo
    BY <1>1 DEF Locals
  <2> HIDE DEF v
  <2>3. /\ loc'["recv"] = v /\ pc'["recv"] = at /\ pc'["send"] = pc["send"] /\ loc'["send"] = loc["send"]
    BY <1>1, <2>1 DEF Goto, SetLoc, Procs
  <2>4. rss' = Append(rss, rs) /\ rsc = NoStatus
    BY <2>1 DEF Process, Slices
  <2>5. Said(b, c, rs) /\ Below(rss, rs.height) /\ rs.height <= cursor /\ rs.height \in Nat
    BY <2>1, StatusIs DEF Process, Telling, Said
  <2> HIDE DEF rs
  <2>6. /\ Statuses(b, c, rss') /\ In(rss', rs.height)
        /\ \A h : In(rss, h) => In(rss', h)
        /\ \A h \in Int : Below(rss, h) /\ rs.height < h => Below(rss', h)
    BY <1>3, <2>4, <2>5, StatusesAppend
  <2>7. Below(rss', cursor + 1)
    BY <1>1, <1>3, <2>5, <2>6, SMT
  <2>8. Fresh'
    BY <2>1, <2>3 DEF Fresh, Process
  <2>9. Slices'
    BY <1>2, <2>1, <2>3 DEF Slices, Waiting
  <2>10. Telling(b, c)'
    BY <1>2, <2>1, <2>3, <2>4, <2>6, <2>7 DEF Telling, Process
  <2>11. ASSUME NEW h \in BlockHeights, Known(h) PROVE Known(h)'
    BY <1>2, <2>1, <2>6, <2>11 DEF Known, rs
  <2>12. at \in Asides \ {"resync"} /\ pc["recv"] \in Asides
    BY <1>4, <2>1
  <2> HIDE DEF at
  <2> QED
    BY <1>1, <2>1, <2>2, <2>6, <2>8, <2>9, <2>10, <2>11, <2>12, RecvStep, ZenonT(60)
<1>7. CASE OnceDo
  <2> DEFINE v == [loc["recv"] EXCEPT !.ret = "check"]
  <2>1. /\ pc["recv"] = "once" /\ once' = TRUE
        /\ UNCHANGED <<bls, rms, rss, rmi, brss, bseq, cursor, rsc, blsc, slices, txs>>
    BY <1>7 DEF OnceDo, sndVars, rcvVars
  <2>2. Between(b, c, bls) /\ bls.height \in BlockHeights /\ bls \in Position
    <3>1. pc["send"] = "idle"
      BY <2>1 DEF Process, Fresh
    <3>2. \A q \in Procs : pc[q] \notin {"proof", "addproof"}
      BY <2>1, <3>1 DEF Procs
    <3> QED
      BY <3>2 DEF Process, Positions, Rests, Between, TypeInv, TypeOK, LinkTypeOK
  <2>3. PICK rs : rs = getReceiveStatusForHeight(rss, bls.height)
    OBVIOUS
  <2>4. ~(rs # NoStatus /\ bls.rxSeq < rs.seq)
    <3>1. SUFFICES ASSUME rs # NoStatus PROVE ~(bls.rxSeq < rs.seq)
      OBVIOUS
    <3>2. In(rss, bls.height)
      BY <1>1, <2>3, <3>1, StatusFound DEF getReceiveStatusForHeight
    <3>3. Said(b, c, rs) /\ rs.height = bls.height
      BY ONLY <1>3, <2>2, <2>3, <3>2, StatusOf
    <3>4. rs.seq \in Int /\ bls.rxSeq \in Int /\ bls.height \in Nat
      BY <2>2, <3>3, StatusIs, PositionIs DEF Said
    <3>5. rs.height <= bls.height
      BY <3>3, <3>4, SMT
    <3>6. rs.seq <= bls.rxSeq
      BY <2>2, <3>3, <3>5, NotBehind
    <3> QED
      BY <3>4, <3>6, SMT
  <2>5. SetLoc("recv", v) /\ Goto("recv", "handle")
    BY <1>7, <2>3, <2>4 DEF OnceDo
  <2>6. v.done = NoPosition /\ v.todo = loc["recv"].todo
    BY <1>1 DEF Locals
  <2> HIDE DEF v
  <2>7. /\ pc'["recv"] = "handle" /\ pc'["send"] = pc["send"] /\ loc'["send"] = loc["send"]
    BY <1>1, <2>5 DEF Goto, SetLoc, Procs
  <2>8. Fresh'
    BY <2>1, <2>7 DEF Fresh
  <2>9. Slices'
    BY <1>2, <2>1, <2>7 DEF Slices, Waiting
  <2>10. Telling(b, c)'
    BY <1>2, <2>1, <2>7 DEF Telling, Process
  <2>11. ASSUME NEW h \in BlockHeights, Known(h) PROVE Known(h)'
    BY <1>2, <2>1, <2>11 DEF Known
  <2>12. \A h : In(rss, h) => In(rss', h)
    BY <2>1
  <2> QED
    BY <1>1, <1>4, <2>1, <2>5, <2>6, <2>8, <2>9, <2>10, <2>11, <2>12, RecvStep, ZenonT(60)
<1>8. CASE CheckBehind
  <2> DEFINE at == IF Behind(bls, loc["recv"].rs) THEN "handle" ELSE "idle"
  <2>1. /\ pc["recv"] = "check" /\ SetLoc("recv", Idle) /\ Goto("recv", at)
        /\ UNCHANGED <<bls, rms, rss, rmi, once, brss, bseq, cursor, rsc, blsc, slices, txs>>
    BY <1>8 DEF CheckBehind, sndVars, rcvVars
  <2>2. Idle.done = NoPosition /\ Idle.todo \in Seq(FullMessages)
    BY SMT DEF Idle
  <2>3. at \in {"handle", "idle"}
    OBVIOUS
  <2> HIDE DEF at
  <2>4. /\ pc'["recv"] = at /\ pc'["send"] = pc["send"] /\ loc'["send"] = loc["send"]
    BY <1>1, <2>1 DEF Goto, SetLoc, Procs
  <2>5. Fresh'
    BY <2>1, <2>3, <2>4 DEF Fresh, Process
  <2>6. Slices'
    BY <1>2, <2>1, <2>3, <2>4 DEF Slices, Waiting
  <2>7. Telling(b, c)'
    BY <1>2, <2>1, <2>3, <2>4 DEF Telling, Process
  <2>8. ASSUME NEW h \in BlockHeights, Known(h) PROVE Known(h)'
    BY <1>2, <2>1, <2>8 DEF Known
  <2>9. \A h : In(rss, h) => In(rss', h)
    BY <2>1
  <2>10. at \in Asides \ {"resync"} /\ pc["recv"] \in Asides
    BY <1>4, <2>1, <2>3
  <2> QED
    BY <2>1, <2>2, <2>5, <2>6, <2>7, <2>8, <2>9, <2>10, RecvStep
<1> QED
  BY <1>5, <1>6, <1>7, <1>8 DEF Recv

\* A step of startSenderChannel that leaves the link's position alone.
LEMMA SendStep ==
  ASSUME TypeInv, TypeInv', DeliveryInv, ~Preemptive, Sending,
         NEW b \in BlockHeights, NEW c \in Nat, Process(b, c),
         MayRun("send"), pc["send"] \in Asides, NEW at \in Asides, NEW v,
         Goto("send", at), SetLoc("send", v), v.todo \in Seq(FullMessages), once,
         UNCHANGED <<bls, rmi, once, brss, bseq, cursor, rsc, slices, bmc, crashes>>,
         Shrunk(rms, rms'), txs' \in Seq(FullTransactions),
         \/ rss' = rss
         \/ pc["send"] = "success" /\ rss' = removeReceiveStatus(rss, loc["send"].done),
         at = "success" => /\ v.rms = removeRelayMessage(rms', v.done)
                           /\ v.rss = removeReceiveStatus(rss', v.done),
         Passed(blsc'.height),
         IF at = "resync" THEN v.done = bmc /\ blsc' = blsc /\ Between(b, c, bmc)
         ELSE Passed(v.done.height)
  PROVE  Process(b, c)' /\ Sending'
<1> DEFINE New(h) == h <= bls'.height /\ \A q \in Procs \ {"send"} : Clear(h, pc[q], loc[q], rmi)
           done == loc["send"].done
<1>1. /\ "send" \in Procs /\ loc'["send"] = v /\ pc'["send"] = at
      /\ loc'["recv"] = loc["recv"] /\ pc'["recv"] = pc["recv"]
  BY DEF Goto, SetLoc, TypeInv, TypeOK, LinkTypeOK, Procs
<1>2. slices.mon = <<>> /\ slices.fin = <<>> /\ pc["recv"] \in Waiting
  BY DEF MayRun, Procs
<1>3. pc["recv"] \notin {"append", "once"}
  BY <1>2 DEF Waiting
<1>4. done.height \in Int
  <2>1. done \in Position
    BY <1>1 DEF TypeInv, TypeOK, LinkTypeOK, Locals
  <2> QED
    BY <2>1, PositionIs, SMT
<1>5. /\ Statuses(b, c, rss) /\ Below(rss, cursor + 1)
      /\ rsc # NoStatus => Below(rss, rsc.height)
  BY DEF Process, Telling
<1>6. /\ Statuses(b, c, rss') /\ \A h : Below(rss, h) => Below(rss', h)
      /\ \/ rss' = rss
         \/ pc["send"] = "success" /\ \A h \in Int : In(rss, h) /\ done.height < h => In(rss', h)
  <2> HIDE DEF done
  <2>1. CASE rss' = rss
    BY <1>5, <2>1
  <2>2. CASE pc["send"] = "success" /\ rss' = removeReceiveStatus(rss, done)
    BY <1>4, <1>5, <2>2, StatusesDrop
  <2> QED
    BY <2>1, <2>2 DEF done
<1>7. pc["send"] = "success" => Passed(done.height) /\ done.height <= bmc.height
  BY <1>1 DEF Process, Passing, DeliveryInv, Reported
<1>8. Fresh'
  BY <1>1, <1>3 DEF Fresh
<1>9. Slices'
  BY <1>1, <1>2, <1>3 DEF Slices
<1>10. Telling(b, c)'
  BY <1>1, <1>2, <1>3, <1>5, <1>6, ZenonT(60) DEF Telling, Process
<1>11. ASSUME NEW x \in Heights, Needed(x) PROVE pc["send"] = "success" => done.height <= x
  <2> SUFFICES ASSUME pc["send"] = "success" PROVE done.height <= x
    OBVIOUS
  <2> HIDE DEF done
  <2>1. x \in Int
    BY HeightIsInt, SMT DEF Heights
  <2>2. \/ x = bls.height \/ x = bmc.height
        \/ \E p \in Procs : pc[p] \in {"update", "proof", "addproof"} /\ x = Target(pc[p], loc[p], rmi)
    BY <1>11 DEF Needed
  <2>3. done.height <= x \/ done.height < x
    BY <1>7, <2>2 DEF Passed, PassedAt, Clear
  <2> QED
    BY <1>4, <2>1, <2>3, SMT
<1>12. ASSUME NEW x \in Heights, Needed(x)' PROVE KnownAbove(c, x)'
  <2>1. Needed(x)
    BY <1>1, <1>12, SideNeeded
  <2>2. KnownAbove(c, x) /\ (pc["send"] = "success" => done.height <= x) /\ x \in Int
    <3>1. x \in Int
      BY HeightIsInt, SMT DEF Heights
    <3> QED
      BY <1>11, <2>1, <3>1 DEF Process, Keeping
  <2>3. ASSUME NEW h \in BlockHeights, x < h PROVE In(rss, h) => In(rss', h)
    BY <1>4, <1>6, <2>2, <2>3, HeightIsInt, SMT
  <2>4. ASSUME NEW h \in BlockHeights, x < h, Known(h) PROVE Known(h)'
    BY <1>1, <1>2, <1>3, <2>3, <2>4, ZenonT(60) DEF Known
  <2> QED
    BY <2>2, <2>4 DEF KnownAbove
<1>13. Keeping(c)'
  BY <1>12 DEF Keeping
<1>14. ASSUME NEW q \in Procs \ {"send"}, pc[q] \in Works
       PROVE  LET k == Target(pc[q], loc[q], rmi) IN In(rss, k) => In(rss', k)
  <2>1. Target(pc[q], loc[q], rmi) \in Int
    BY <1>14, HeightIsInt DEF Process, At, Works
  <2>2. pc["send"] = "success" => done.height < Target(pc[q], loc[q], rmi)
    BY <1>7, <1>14 DEF Passed, PassedAt, Clear, Works
  <2> QED
    BY <1>6, <2>1, <2>2
<1>15. ASSUME NEW i \in 1 .. Len(rms') PROVE Passed(rms'[i].bls.height)
  BY <1>15 DEF Shrunk, Process, Passing
<1>16. \A h : Passed(h) => New(h)
  BY DEF Passed, PassedAt
<1>17. /\ New(blsc'.height) /\ loc'["recv"].done = NoPosition
       /\ IF pc'["send"] = "resync"
          THEN blsc'.height <= loc'["send"].done.height /\ Between(b, c, loc'["send"].done)
          ELSE New(loc'["send"].done.height)
  <2>1. New(blsc'.height) /\ loc'["recv"].done = NoPosition
    BY <1>1, <1>16 DEF Process, Passing
  <2>2. CASE at = "resync"
    BY <1>1, <2>1, <2>2, ZenonT(60) DEF DeliveryInv, Reported
  <2>3. CASE at # "resync"
    BY <1>1, <1>16, <2>1, <2>3, ZenonT(60)
  <2> QED
    BY <2>2, <2>3
<1>18. Process(b, c)'
  BY <1>1, <1>8, <1>9, <1>10, <1>13, <1>14, <1>15, <1>17, SideStep, ZenonT(60)
<1>19. Sending'
  BY <1>1, SendingStep DEF Shrunk
<1> QED
  BY <1>18, <1>19

\* A step that leaves the process alone, while the BMC may move on.
LEMMA OtherStep ==
  ASSUME TypeInv, TypeInv', NEW b, NEW c, Process(b, c), b \in BlockHeights, bmc.height <= bmc'.height,
         UNCHANGED <<lnkVars, rcvVars, crashes>>
  PROVE  Process(b, c)'
<1>1. UNCHANGED <<bls, rms, rss, rmi, once, pc, loc, brss, bseq, cursor, rsc, blsc, slices, crashes>>
  BY DEF lnkVars, rcvVars
<1>2. bmc.height \in BlockHeights /\ bmc'.height \in BlockHeights
  BY DEF TypeInv, TypeOK, SenderTypeOK
<1>3. bmc.height \in Nat /\ bmc'.height \in Nat /\ b \in Nat
  BY <1>2, HeightIsInt
<1>4. b <= bmc'.height /\ (crashes' = 0 => c = b)
  BY <1>1, <1>3, SMT DEF Process
<1>5. Turns'
  BY <1>1 DEF Process, Turns
<1>6. Fresh'
  BY <1>1 DEF Process, Fresh
<1>7. Slices'
  <2>1. Cleared(blsc)' = removeReceiveStatus(brss', blsc')
    BY DEF Cleared, removeReceiveStatus, DropThrough, SelectInSeq, Covers
  <2>2. Cleared(blsc) = removeReceiveStatus(brss, blsc)
    BY ClearedIs
  <2> QED
    BY <1>1, <2>1, <2>2 DEF Process, Slices
<1>8. Telling(b, c)'
  BY <1>1 DEF Process, Telling
<1>9. ASSUME NEW x \in Heights, Needed(x)' PROVE KnownAbove(c, x)'
  <2>1. \A h : Known(h)' = Known(h)
    BY <1>1 DEF Known
  <2>2. CASE x = bmc'.height
    <3>1. KnownAbove(c, bmc.height)
      BY <1>2 DEF Process, Keeping, Needed, Heights
    <3> QED
      BY <1>1, <1>3, <2>1, <2>2, <3>1, HeightIsInt, SMT DEF KnownAbove
  <2>3. CASE x # bmc'.height
    <3>1. Needed(x)
      BY <1>1, <1>9, <2>3 DEF Needed
    <3> QED
      BY <1>1, <2>1, <3>1 DEF Process, Keeping, KnownAbove
  <2> QED
    BY <2>2, <2>3
<1>10. Keeping(c)'
  BY <1>9 DEF Keeping
<1>11. Passing'
  BY <1>1 DEF Process, Passing, Passed
<1>12. Positions(b, c)'
  BY <1>1 DEF Process, Positions
<1>13. \A p \in Procs : At(b, c, pc[p], loc[p], bls, rms, rss, brss, rmi)'
  BY <1>1 DEF Process
<1> QED
  BY <1>4, <1>5, <1>6, <1>7, <1>8, <1>10, <1>11, <1>12, <1>13, ZenonT(60) DEF Process

LEMMA ResultTurns ==
  ASSUME TypeInv, TypeInv', DeliveryInv, ~Preemptive, SequenceOffset = 0, Sending,
         NEW b \in BlockHeights, NEW c \in Nat, Process(b, c),
         MayRun("send"), UNCHANGED <<bmc, crashes>>, NEW i \in DOMAIN txs, TakeResult(i)
  PROVE  Process(b, c)' /\ Sending'
<1> DEFINE w == loc["send"]
<1>1. /\ w \in Locals /\ w.todo \in Seq(FullMessages) /\ FullList(rms) /\ rms \in Seq(RelayMessage)
      /\ txs \in Seq(FullTransactions) /\ bmc.height \in BlockHeights
  BY DEF TypeInv, TypeOK, LinkTypeOK, SenderTypeOK, Procs, Sending
<1>2. txs' \in Seq(FullTransactions) /\ pc["send"] = "idle"
  <2>1. txs' = RemoveAt(txs, i) /\ pc["send"] = "idle"
    BY DEF TakeResult, IgnoreResult, ResultSuccess, ResultRejected, KnownResult
  <2> QED
    BY <1>1, <2>1, RemoveAtList
<1>3. {"idle", "success", "resync"} \subseteq Asides
  BY DEF Asides, Places, Waiting, Works
<1>4. Shrunk(rms, rms)
  BY <1>1, SameMessages
<1>5. Passed(blsc.height)
  BY DEF Process, Passing
<1>6. CASE IgnoreResult(i)
  <2>1. UNCHANGED <<lnkVars, rcvVars, crashes>>
    BY <1>6 DEF IgnoreResult
  <2>2. bmc.height <= bmc'.height
    <3>1. bmc.height \in Nat
      BY <1>1, HeightIsInt
    <3> QED
      BY <3>1, SMT
  <2>3. Process(b, c)'
    BY <2>1, <2>2, OtherStep
  <2>4. Sending'
    BY <1>2, <2>1 DEF Sending, lnkVars, DeliveredWhole
  <2> QED
    BY <2>3, <2>4
<1>7. ASSUME NEW cs, KnownResult(i, cs)
      PROVE  LET k == getRelayMessageForId(txs[i].id) IN k \in 1 .. Len(rms) /\ once
  <2>1. getRelayMessageForId(txs[i].id) \in DOMAIN rms
    BY <1>1, <1>7, RelayMessageForId DEF KnownResult
  <2>2. rms # <<>>
    BY <1>1, <2>1, SeqLen, SMT
  <2> QED
    BY <1>1, <2>1, <2>2, SeqLen, ZenonT(60) DEF Process, Fresh
<1>8. CASE ResultSuccess(i)
  <2> DEFINE k    == getRelayMessageForId(txs[i].id)
             pos  == rms[k].bls
             done == removeRelayMessage(rms, pos)
             left == removeReceiveStatus(rss, pos)
             v    == [w EXCEPT !.done = pos, !.rms = done, !.rss = left]
  <2>1. /\ SetLoc("send", v) /\ Goto("send", "success") /\ KnownResult(i, {"SUCCESS"})
        /\ UNCHANGED <<bls, rms, rss, rmi, once, brss, bseq, cursor, rsc, blsc, slices>>
    BY <1>8 DEF ResultSuccess, rcvVars
  <2>2. k \in 1 .. Len(rms) /\ once
    BY <1>7, <2>1
  <2>3. Passed(pos.height)
    BY <2>2 DEF Process, Passing
  <2> HIDE DEF pos, done, left, k
  <2>4. v.todo = w.todo /\ v.rms = done /\ v.done = pos /\ v.rss = left
    BY <1>1 DEF Locals
  <2>5. done = removeRelayMessage(rms, pos) /\ left = removeReceiveStatus(rss, pos)
    BY DEF done, left
  <2> HIDE DEF v
  <2> QED
    BY <1>1, <1>2, <1>3, <1>4, <1>5, <2>1, <2>2, <2>3, <2>4, <2>5, SendStep
<1>9. CASE ResultRejected(i)
  <2> DEFINE code == txs[i].code
             v    == [w EXCEPT !.done = bmc, !.code = code]
  <2>1. /\ SetLoc("send", v) /\ Goto("send", "resync")
        /\ KnownResult(i, {"BMVNotVerifiable", "BMVAlreadyVerified"})
        /\ UNCHANGED <<bls, rms, rss, rmi, once, brss, bseq, cursor, rsc, blsc, slices>>
    BY <1>9 DEF ResultRejected, rcvVars
  <2>2. once
    BY <1>7, <2>1
  <2> HIDE DEF code
  <2>3. v.todo = w.todo /\ v.done = bmc
    BY <1>1 DEF Locals
  <2> HIDE DEF v
  <2>4. Between(b, c, bmc)
    <3>1. bmc.rxSeq = EndSeq[bmc.height]
      <4>1. bmc.rxSeq \in Int /\ bmc.rxSeq + 0 = EndSeq[bmc.height]
        BY DEF TypeInv, TypeOK, SenderTypeOK, Sending, DeliveredWhole
      <4> QED
        BY <4>1, SMT
    <3>2. b <= bmc.height
      BY DEF Process
    <3> QED
      BY <1>1, <3>1, <3>2, EndSeqGrows, ZenonT(60) DEF Between
  <2> QED
    BY <1>1, <1>2, <1>3, <1>4, <1>5, <2>1, <2>2, <2>3, <2>4, SendStep, ZenonT(60)
<1> QED
  BY <1>6, <1>8, <1>9 DEF TakeResult

LEMMA UpdateStatusTurns ==
  ASSUME TypeInv, TypeInv', DeliveryInv, ~Preemptive, Sending,
         NEW b \in BlockHeights, NEW c \in Nat, Process(b, c),
         MayRun("send"), UNCHANGED <<bmc, crashes>>, UpdateStatus
  PROVE  Process(b, c)' /\ Sending'
<1> DEFINE w  == loc["send"]
           at == IF w.code = "BMVNotVerifiable" THEN "handle" ELSE "idle"
           New(h) == h <= bls'.height /\ \A q \in Procs \ {"send"} : Clear(h, pc[q], loc[q], rmi)
<1>1. /\ pc["send"] = "resync" /\ bls' = w.done /\ rms' = <<>>
      /\ SetLoc("send", Idle) /\ Goto("send", at)
      /\ UNCHANGED <<rss, rmi, once, brss, bseq, cursor, rsc, blsc, slices, txs>>
  BY DEF UpdateStatus, rcvVars, sndVars
<1>2. /\ at \in {"handle", "idle"} /\ at \in Asides /\ pc["send"] \in Asides /\ "send" \in Procs
  BY <1>1 DEF Asides, Places, Waiting, Works, Procs
<1> HIDE DEF at
<1>3. /\ loc'["send"] = Idle /\ pc'["send"] = at
      /\ loc'["recv"] = loc["recv"] /\ pc'["recv"] = pc["recv"]
  BY <1>1 DEF Goto, SetLoc, TypeInv, TypeOK, LinkTypeOK, Procs
<1>4. slices.mon = <<>> /\ slices.fin = <<>> /\ pc["recv"] \notin {"append", "once"} /\ once
  BY <1>1 DEF MayRun, Procs, Waiting, Process, Fresh
<1>5. Fresh'
  BY <1>1, <1>3, <1>4 DEF Fresh
<1>6. Slices'
  BY <1>1, <1>2, <1>3, <1>4 DEF Slices
<1>7. Telling(b, c)'
  BY <1>1, <1>3, <1>4 DEF Telling, Process
<1>8. ASSUME NEW x \in Heights, Needed(x)' PROVE KnownAbove(c, x)'
  <2>1. Needed(x)
    BY <1>1, <1>2, <1>8, SideNeeded
  <2>2. \A h : Known(h) => Known(h)'
    BY <1>1, <1>3, <1>4 DEF Known
  <2> QED
    BY <1>1, <2>1, <2>2 DEF Process, Keeping, KnownAbove
<1>9. Keeping(c)'
  BY <1>8 DEF Keeping
<1>10. blsc.height <= w.done.height /\ Between(b, c, w.done) /\ loc["recv"].done = NoPosition
       /\ Passed(blsc.height)
  BY <1>1 DEF Process, Passing, Positions
<1>11. New(blsc'.height)
  BY <1>1, <1>10 DEF Passed, PassedAt
<1>12. New(0)
  <2>1. 0 <= bls'.height
    <3>1. w.done.height \in BlockHeights
      BY <1>10 DEF Between
    <3>2. w.done.height \in Nat
      BY <3>1, HeightIsInt
    <3> QED
      BY <1>1, <3>2, SMT
  <2> QED
    BY <2>1, ZeroPassed DEF Passed, PassedAt
<1>13. Idle.done.height = 0 /\ Idle.todo \in Seq(FullMessages)
  BY SMT DEF Idle, NoPosition
<1>14. /\ New(blsc'.height) /\ loc'["recv"].done = NoPosition
       /\ IF pc'["send"] = "resync"
          THEN blsc'.height <= loc'["send"].done.height /\ Between(b, c, loc'["send"].done)
          ELSE New(loc'["send"].done.height)
  BY <1>2, <1>3, <1>10, <1>11, <1>12, <1>13, ZenonT(60)
<1>15. \A i \in 1 .. Len(rms') : Passed(rms'[i].bls.height)
  <2>1. rms' = <<>>
    BY <1>1
  <2>2. 1 .. Len(rms') = {}
    BY ONLY <2>1
  <2> QED
    BY <2>2
<1>16. Process(b, c)'
  BY <1>1, <1>2, <1>5, <1>6, <1>7, <1>9, <1>10, <1>14, <1>15, SideStep, ZenonT(60)
<1>17. FullList(rms')
  BY <1>1, SMT DEF FullList, Chained
<1>18. Sending'
  <2>1. txs' \in Seq(FullTransactions)
    BY <1>1 DEF Sending
  <2> QED
    BY <1>1, <1>2, <1>13, <1>17, <2>1, SendingStep, ZenonT(60)
<1> QED
  BY <1>16, <1>18

LEMMA SendTurns ==
  ASSUME TypeInv, TypeInv', DeliveryInv, ~Preemptive, SequenceOffset = 0, Sending,
         NEW b \in BlockHeights, NEW c \in Nat, Process(b, c),
         MayRun("send"), UNCHANGED <<bmc, crashes>>, Send
  PROVE  Process(b, c)' /\ Sending'
<1> DEFINE w == loc["send"]
<1>1. /\ w \in Locals /\ w.todo \in Seq(FullMessages) /\ FullList(rms)
      /\ txs \in Seq(FullTransactions)
  BY DEF TypeInv, TypeOK, LinkTypeOK, Procs, Sending
<1>2. {"idle", "success", "handle", "report"} \subseteq Asides
  BY DEF Asides, Places, Waiting, Works
<1>3. Passed(blsc.height) /\ (pc["send"] # "resync" => Passed(w.done.height)) /\ Passed(0)
  BY ZeroPassed DEF Process, Passing
<1>4. pc["send"] # "idle" => once
  BY DEF Process, Fresh
<1>5. ASSUME NEW i \in DOMAIN txs, TakeResult(i) PROVE Process(b, c)' /\ Sending'
  BY <1>5, ResultTurns
<1>6. CASE SuccessRelayMessage
  <2> DEFINE v == [Idle EXCEPT !.done = w.done, !.ret = "report"]
  <2>1. /\ pc["send"] = "success" /\ rms' = w.rms /\ rss' = w.rss
        /\ SetLoc("send", v) /\ Goto("send", "handle")
        /\ UNCHANGED <<bls, rmi, once, brss, bseq, cursor, rsc, blsc, slices, txs>>
    BY <1>6 DEF SuccessRelayMessage, rcvVars, sndVars
  <2>2. v.done = w.done /\ v.todo \in Seq(FullMessages)
    BY SMT DEF Idle
  <2> HIDE DEF v
  <2>3. rms' = removeRelayMessage(rms, w.done) /\ rss' = removeReceiveStatus(rss, w.done)
    BY <2>1 DEF Process, Slices
  <2>4. Shrunk(rms, rms')
    BY <1>1, <2>3, MessagesDrop
  <2> QED
    BY <1>1, <1>2, <1>3, <1>4, <2>1, <2>2, <2>3, <2>4, SendStep, ZenonT(60)
<1>7. CASE ReportFinalized
  <2>1. /\ pc["send"] = "report" /\ blsc' = w.done
        /\ SetLoc("send", Idle) /\ Goto("send", "idle")
        /\ UNCHANGED <<bls, rms, rss, rmi, once, brss, bseq, cursor, rsc, slices, txs>>
    BY <1>7 DEF ReportFinalized, sndVars
  <2>2. Idle.done.height = 0 /\ Idle.todo \in Seq(FullMessages)
    BY SMT DEF Idle, NoPosition
  <2>3. Shrunk(rms, rms')
    BY <1>1, <2>1, SameMessages
  <2> QED
    BY <1>1, <1>2, <1>3, <1>4, <2>1, <2>2, <2>3, SendStep
<1>8. CASE UpdateStatus
  BY <1>8, UpdateStatusTurns
<1> QED
  BY <1>5, <1>6, <1>7, <1>8, ZenonT(60) DEF Send

-----------------------------------------------------------------------------
(***************************************************************************)
(* The receiver: the goroutines of the link wait.                          *)
(***************************************************************************)
LEMMA WaitingStep ==
  ASSUME TypeInv, TypeInv', DeliveryInv, NEW b \in BlockHeights, NEW c \in Nat, Process(b, c),
         UNCHANGED <<lnkVars, bmc, crashes>>, \A p \in Procs : pc[p] \in Waiting,
         slices'.mon = <<>> \/ slices'.fin = <<>>, Slices', Telling(b, c)',
         blsc' = blsc \/ blsc' = NoPosition,
         \A h \in Int : In(brss, h) /\ blsc.height < h => In(brss', h),
         \A h \in BlockHeights : c < h /\ blsc.height < h /\ h <= cursor' /\ (h <= cursor => Known(h)) => Known(h)'
  PROVE  Process(b, c)'
<1>1. UNCHANGED <<bls, rms, rss, rmi, once, pc, loc, bmc, crashes>>
  BY DEF lnkVars
<1>2. Turns'
  BY <1>1 DEF Turns
<1>3. Fresh'
  BY <1>1 DEF Process, Fresh
<1>4. Passed(blsc.height) /\ Passed(0)
  BY ZeroPassed DEF Process, Passing
<1>5. blsc.height \in Int /\ NoPosition.height = 0
  BY PositionIs, SMT DEF TypeInv, TypeOK, ReceiverTypeOK, NoPosition
<1>6. ASSUME NEW x \in Heights, Needed(x) PROVE blsc.height <= x
  <2>1. x \in Int
    BY HeightIsInt, SMT DEF Heights
  <2>2. CASE x = bls.height
    BY <1>4, <2>2 DEF Passed, PassedAt
  <2>3. CASE x = bmc.height
    BY <2>3 DEF DeliveryInv, Reported
  <2>4. CASE pc["send"] = "resync" /\ x = loc["send"].done.height
    BY <2>4 DEF Process, Passing
  <2>5. ASSUME NEW p \in Procs, pc[p] \in Works, x = Target(pc[p], loc[p], rmi) PROVE blsc.height <= x
    BY <1>4, <1>5, <2>1, <2>5, SMT DEF Passed, PassedAt, Clear, Works
  <2> QED
    BY <1>6, <2>2, <2>3, <2>4, <2>5 DEF Needed, Works
<1>7. ASSUME NEW x \in Heights, Needed(x)' PROVE KnownAbove(c, x)'
  <2>1. Needed(x)
    BY <1>1, <1>7 DEF Needed
  <2>2. KnownAbove(c, x) /\ blsc.height <= x /\ x \in Int
    BY <1>6, <2>1, HeightIsInt, SMT DEF Process, Keeping, Heights
  <2>3. ASSUME NEW h \in BlockHeights, c < h, x < h, h <= cursor' PROVE Known(h)'
    <3>1. h <= cursor => Known(h)
      BY <2>2, <2>3 DEF KnownAbove
    <3>2. blsc.height < h
      BY <1>5, <2>2, <2>3, HeightIsInt, SMT
    <3> QED
      BY <2>3, <3>1, <3>2
  <2> QED
    BY <2>3 DEF KnownAbove
<1>8. Keeping(c)'
  BY <1>7 DEF Keeping
<1>9. Passing'
  <2>1. \A h : Passed(h)' = Passed(h)
    BY <1>1 DEF Passed
  <2>2. Passed(blsc'.height)
    BY <1>4, <1>5
  <2>3. pc["send"] = "resync" => blsc'.height <= loc["send"].done.height
    <3>1. loc["send"].done \in Position
      BY DEF TypeInv, TypeOK, LinkTypeOK, Locals, Procs
    <3>2. loc["send"].done.height \in Nat
      BY <3>1, PositionIs
    <3> QED
      BY <1>5, <3>2, SMT DEF Process, Passing
  <2>4. PassedAt(blsc'.height, bls', pc', loc', rmi')
    BY <1>1, <2>2 DEF Passed
  <2> QED
    BY <1>1, <2>1, <2>3, <2>4 DEF Process, Passing, Passed
<1>10. Positions(b, c)'
  BY <1>1 DEF Process, Positions
<1>11. ASSUME NEW p \in Procs PROVE At(b, c, pc[p], loc[p], bls, rms, rss, brss, rmi)'
  <2>1. At(b, c, pc[p], loc[p], bls, rms, rss, brss, rmi)
    BY DEF Process
  <2>2. ASSUME pc[p] \in Works
        PROVE  LET k == Target(pc[p], loc[p], rmi) IN In(brss, k) => In(brss', k)
    <3>1. Target(pc[p], loc[p], rmi) \in Int
      BY <2>1, <2>2, HeightIsInt DEF At, Works
    <3>2. blsc.height < Target(pc[p], loc[p], rmi)
      BY <1>4, <2>2 DEF Passed, PassedAt, Clear, Works
    <3> QED
      BY <3>1, <3>2
  <2>3. At(b, c, pc[p], loc[p], bls, rms, rss, brss', rmi)
    BY <2>1, <2>2, AtKept
  <2> QED
    BY <1>1, <2>3
<1>12. b <= bmc'.height /\ (crashes' = 0 => c = b)
  BY <1>1 DEF Process
<1> QED
  BY <1>2, <1>3, <1>8, <1>9, <1>10, <1>11, <1>12 DEF Process

LEMMA MonitorTurns ==
  ASSUME TypeInv, TypeInv', DeliveryInv, ~Preemptive, \A h \in BlockHeights : StartHeight <= h,
         NEW b \in BlockHeights, NEW c \in Nat, Process(b, c), MayRun("mon"),
         UNCHANGED <<lnkVars, bmc, crashes>>, MonitorBlock \/ MonitorProgress \/ SendReceiveStatus
  PROVE  Process(b, c)'
<1>1. /\ \A p \in Procs : pc[p] \in Waiting
      /\ slices.fin = <<>>
  BY DEF MayRun, Procs
<1>2. /\ UNCHANGED <<rss, pc, loc>> /\ pc["recv"] # "append" /\ pc["send"] # "success"
  BY <1>1 DEF lnkVars, Procs, Waiting
<1>3. /\ cursor \in Nat /\ bseq \in Int /\ cursor' \in Nat /\ b \in Nat
      /\ slices \in [{"mon", "fin"} -> {<<>>} \union [{1} -> Seq(ReceiveStatus)]]
  BY HeightIsInt DEF TypeInv, TypeOK, ReceiverTypeOK
<1>4. /\ b <= c /\ c <= cursor
      /\ bseq = IF Skips(b, c) THEN EndSeq[b] ELSE Upto(cursor)
      /\ Statuses(b, c, brss) /\ Below(brss, cursor + 1)
      /\ Statuses(b, c, rss) /\ Below(rss, cursor + 1)
      /\ slices.mon # <<>> => /\ Said(b, c, [height |-> cursor, seq |-> bseq])
                              /\ Below(brss, cursor) /\ Below(rss, cursor)
  BY DEF Process, Telling
<1>5. EndSeq[b] \in Nat /\ Upto(c) \in Nat /\ EndSeq[b] <= Upto(c) /\ Upto(c) <= Upto(cursor)
  BY <1>3, <1>4, UptoGrows
<1>6. ASSUME NEW list, Statuses(b, c, list), Below(list, cursor + 1), NEW n \in Nat, cursor < n PROVE Below(list, n)
  <2>1. ASSUME NEW i \in 1 .. Len(list) PROVE list[i].height < n
    <3>1. list[i].height \in Int /\ list[i].height < cursor + 1
      BY <1>6, <2>1, StatusIs, SMT DEF Statuses, Said, Below
    <3> QED
      BY <1>3, <1>6, <3>1, SMT
  <2> QED
    BY <2>1 DEF Below
<1>7. CASE MonitorBlock
  <2>1. PICK k \in BlockHeights :
          /\ IsNext(cursor, k) /\ cursor' = k
          /\ IF k = StartHeight THEN UNCHANGED <<bseq, db, slices>>
             ELSE /\ MessageCount(k) # 0 => StartSeq(k) = bseq
                  /\ bseq' = bseq + MessageCount(k)
                  /\ slices' = [slices EXCEPT !.mon = <<brss>>]
    BY <1>7 DEF MonitorBlock
  <2>2. k \in Nat /\ cursor < k /\ b < k /\ c < k
    BY <1>3, <1>4, <2>1, HeightIsInt, SMT DEF IsNext
  <2>3. k # StartHeight
    <3>1. StartHeight \in Nat /\ StartHeight <= b
      BY ReceiverAssumption
    <3> QED
      BY <1>3, <2>2, <3>1, SMT
  <2>4. /\ slices.mon = <<>> /\ rsc = NoStatus
        /\ UNCHANGED <<brss, rsc, blsc>>
    BY <1>7 DEF MonitorBlock, Notified
  <2>5. slices'.mon # <<>> /\ slices'.mon[1] = brss /\ slices'.fin = <<>>
    BY <1>1, <1>3, <2>1, <2>3, SMT
  <2>6. /\ StartSeq(k) = Upto(cursor) /\ Upto(k) = EndSeq[k]
        /\ EndSeq[k] = Upto(cursor) + MessageCount(k)
        /\ MessageCount(k) \in Nat /\ Upto(cursor) \in Nat
    BY <1>3, <2>1, UptoNext
  <2>7. /\ Skips(b, c) => MessageCount(k) = 0
        /\ bseq' = (IF Skips(b, c) THEN EndSeq[b] ELSE Upto(k)) /\ bseq' = Counted(b, c, k)
    <3>1. CASE Skips(b, c)
      <4>1. Upto(cursor) # EndSeq[b]
        BY <1>5, <2>6, <3>1, SMT DEF Skips
      <4>2. MessageCount(k) = 0
        BY <1>4, <2>1, <2>3, <2>6, <3>1, <4>1
      <4> QED
        BY <1>4, <1>5, <2>1, <2>3, <3>1, <4>2, SMT DEF Counted
    <3>2. CASE ~Skips(b, c)
      BY <1>4, <2>1, <2>3, <2>6, <3>2 DEF Counted
    <3> QED
      BY <3>1, <3>2
  <2>8. Said(b, c, [height |-> k, seq |-> bseq'])
    <3>1. bseq' \in Int
      BY DEF TypeInv, TypeOK, ReceiverTypeOK
    <3> QED
      BY <2>2, <2>7, <3>1 DEF Said, ReceiveStatus
  <2>9. Below(brss, k) /\ Below(rss, k) /\ Below(brss, k + 1) /\ Below(rss, k + 1)
    BY <1>3, <1>4, <1>6, <2>2, SMT
  <2>10. Slices'
    BY <1>2, <2>4, <2>5 DEF Slices
  <2>11. Telling(b, c)'
    <3>1. b <= c /\ c <= cursor'
      BY <1>3, <1>4, <2>1, <2>2, SMT
    <3> QED
      BY <1>2, <1>4, <2>1, <2>4, <2>7, <2>8, <2>9, <3>1 DEF Telling
  <2>12. ASSUME NEW h \in BlockHeights, h <= cursor', h <= cursor => Known(h) PROVE Known(h)'
    <3>1. CASE h <= cursor
      BY <1>2, <2>4, <2>12, <3>1 DEF Known
    <3>2. CASE cursor < h
      <4>1. h = k
        BY <2>1, <2>2, <2>12, <3>2, HeightIsInt, SMT DEF IsNext
      <4> QED
        BY <2>1, <2>5, <4>1 DEF Known
    <3> QED
      BY <1>3, <3>1, <3>2, HeightIsInt, SMT
  <2>13. \A h : In(brss, h) => In(brss', h)
    BY <2>4
  <2> QED
    BY <1>1, <2>4, <2>5, <2>10, <2>11, <2>12, <2>13, WaitingStep, ZenonT(60)
<1>8. CASE MonitorProgress
  <2>1. PICK n \in (cursor + 1) .. (Max(BlockHeights) + 1) :
          BlockHeights \intersect (cursor + 1) .. n = {} /\ cursor' = n
    BY <1>8 DEF MonitorProgress
  <2>2. /\ slices.mon = <<>> /\ rsc = NoStatus
        /\ UNCHANGED <<brss, bseq, rsc, blsc, slices>>
    BY <1>8 DEF MonitorProgress, Notified
  <2>3. cursor <= cursor' /\ cursor < cursor' + 1 /\ c <= cursor'
    BY <1>3, <1>4, <2>1, SMT
  <2>4. BlockHeights \intersect (cursor + 1) .. cursor' = {}
    BY <2>1
  <2>5. Upto(cursor') = Upto(cursor)
    BY <1>3, <2>3, <2>4, UptoSame
  <2>6. Slices'
    BY <1>1, <1>2, <2>2 DEF Slices
  <2>7. Below(brss, cursor' + 1) /\ Below(rss, cursor' + 1)
    BY <1>3, <1>4, <1>6, <2>3, SMT
  <2>8. Telling(b, c)'
    BY <1>2, <1>4, <2>2, <2>3, <2>5, <2>7 DEF Telling
  <2>9. ASSUME NEW h \in BlockHeights, h <= cursor', h <= cursor => Known(h) PROVE Known(h)'
    <3>1. h <= cursor
      BY <1>3, <2>4, <2>9, HeightIsInt, SMT
    <3> QED
      BY <1>2, <2>2, <2>9, <3>1 DEF Known
  <2>10. \A h : In(brss, h) => In(brss', h)
    BY <2>2
  <2> QED
    BY <1>1, <2>2, <2>6, <2>8, <2>9, <2>10, WaitingStep
<1>9. CASE SendReceiveStatus
  <2> DEFINE rs == [height |-> cursor, seq |-> bseq]
  <2>1. /\ slices.mon # <<>> /\ rsc' = rs /\ brss' = Append(slices.mon[1], rs)
        /\ slices' = [slices EXCEPT !.mon = <<>>] /\ UNCHANGED <<bseq, cursor, blsc>>
    BY <1>9 DEF SendReceiveStatus
  <2>2. rs.height = cursor
    OBVIOUS
  <2>3. Said(b, c, rs) /\ Below(brss, cursor) /\ Below(rss, cursor)
    BY <1>4, <2>1
  <2> HIDE DEF rs
  <2>4. slices.mon[1] = brss /\ rsc = NoStatus
    BY <2>1 DEF Process, Slices
  <2>5. slices'.mon = <<>> /\ slices'.fin = <<>>
    BY <1>1, <1>3, <2>1
  <2>6. /\ Statuses(b, c, brss') /\ In(brss', cursor)
        /\ \A h : In(brss, h) => In(brss', h)
        /\ Below(brss', cursor + 1)
    <3>1. brss' = Append(brss, rs) /\ cursor + 1 \in Int /\ cursor < cursor + 1
      BY <1>3, <2>1, <2>4, SMT
    <3> QED
      BY <1>4, <2>2, <2>3, <3>1, StatusesAppend
  <2>7. Slices'
    BY <1>2, <2>5 DEF Slices
  <2>8. Telling(b, c)'
    BY <1>2, <1>3, <1>4, <2>1, <2>2, <2>3, <2>5, <2>6, SMT DEF Telling
  <2>9. ASSUME NEW h \in BlockHeights, h <= cursor', h <= cursor => Known(h) PROVE Known(h)'
    <3>1. Known(h) /\ h # 0
      BY <2>1, <2>9, HeightIsInt
    <3>2. CASE h = cursor
      BY <2>1, <2>2, <2>6, <3>2 DEF Known
    <3>3. CASE h # cursor
      BY <1>2, <2>4, <2>6, <3>1, <3>3 DEF Known, NoStatus
    <3> QED
      BY <3>2, <3>3
  <2> QED
    BY <1>1, <2>1, <2>5, <2>6, <2>7, <2>8, <2>9, WaitingStep
<1> QED
  BY <1>7, <1>8, <1>9

LEMMA FinalizedTurns ==
  ASSUME TypeInv, TypeInv', DeliveryInv, ~Preemptive,
         NEW b \in BlockHeights, NEW c \in Nat, Process(b, c), MayRun("fin"),
         UNCHANGED <<lnkVars, bmc, crashes>>, FinalizedStatus \/ clearReceiveStatus
  PROVE  Process(b, c)'
<1>1. /\ \A p \in Procs : pc[p] \in Waiting
      /\ slices.mon = <<>>
  BY DEF MayRun, Procs
<1>2. /\ UNCHANGED <<rss, pc, loc>> /\ pc["recv"] # "append" /\ pc["send"] # "success"
  BY <1>1 DEF lnkVars, Procs, Waiting
<1>3. /\ cursor \in Nat /\ blsc.height \in Int
      /\ slices \in [{"mon", "fin"} -> {<<>>} \union [{1} -> Seq(ReceiveStatus)]]
  BY PositionIs, SMT DEF TypeInv, TypeOK, ReceiverTypeOK
<1>4. UNCHANGED <<bseq, cursor, rsc>>
  BY DEF FinalizedStatus, clearReceiveStatus
<1>5. slices'.mon = <<>>
  BY <1>1, <1>3 DEF FinalizedStatus, clearReceiveStatus
<1>6. CASE FinalizedStatus
  <2>1. /\ UNCHANGED brss /\ slices.fin = <<>>
        /\ \/ slices' = [slices EXCEPT !.fin = <<Cleared(blsc)>>] /\ blsc' = blsc
           \/ blsc' = NoPosition /\ slices' = slices
    BY <1>6 DEF FinalizedStatus
  <2>2. Slices'
    <3>1. Cleared(blsc)' = removeReceiveStatus(brss', blsc')
      BY DEF Cleared, removeReceiveStatus, DropThrough, SelectInSeq, Covers
    <3>2. Cleared(blsc) = removeReceiveStatus(brss, blsc)
      BY ClearedIs
    <3>3. slices'.fin # <<>> => slices'.fin[1] = Cleared(blsc)'
      BY <1>3, <2>1, <3>1, <3>2, SMT
    <3> QED
      BY <1>2, <1>5, <3>3 DEF Slices
  <2>3. Telling(b, c)'
    BY <1>2, <1>4, <1>5, <2>1 DEF Process, Telling
  <2>4. ASSUME NEW h \in BlockHeights, h <= cursor', h <= cursor => Known(h) PROVE Known(h)'
    BY <1>1, <1>2, <1>4, <2>1, <2>4 DEF Known
  <2>5. \A h : In(brss, h) => In(brss', h)
    BY <2>1
  <2> QED
    BY <1>1, <1>5, <2>1, <2>2, <2>3, <2>4, <2>5, WaitingStep
<1>7. CASE clearReceiveStatus
  <2>1. /\ slices.fin # <<>> /\ brss' = slices.fin[1] /\ slices' = [slices EXCEPT !.fin = <<>>]
        /\ blsc' = NoPosition
    BY <1>7 DEF clearReceiveStatus
  <2>2. brss' = removeReceiveStatus(brss, blsc)
    BY <2>1, ClearedIs DEF Process, Slices
  <2>3. Statuses(b, c, brss) /\ Below(brss, cursor + 1)
    BY DEF Process, Telling
  <2>4. /\ Statuses(b, c, brss') /\ Below(brss', cursor + 1)
        /\ \A h \in Int : In(brss, h) /\ blsc.height < h => In(brss', h)
    BY <1>3, <2>2, <2>3, StatusesDrop
  <2>5. slices'.fin = <<>>
    BY <1>3, <2>1
  <2>6. Slices'
    BY <1>2, <1>5, <2>5 DEF Slices
  <2>7. Telling(b, c)'
    BY <1>2, <1>4, <1>5, <2>4 DEF Process, Telling
  <2>8. ASSUME NEW h \in BlockHeights, blsc.height < h, h <= cursor', h <= cursor => Known(h) PROVE Known(h)'
    BY <1>1, <1>2, <1>4, <2>4, <2>8, HeightIsInt DEF Known
  <2> QED
    BY <1>1, <1>5, <2>1, <2>4, <2>6, <2>7, <2>8, WaitingStep, ZenonT(60)
<1> QED
  BY <1>6, <1>7

-----------------------------------------------------------------------------
(***************************************************************************)
(* The sender, the destination chain and the other relay.                  *)
(***************************************************************************)
LEMMA TransactionChanged ==
  ASSUME txs \in Seq(FullTransactions), NEW i \in DOMAIN txs, NEW tx \in Transaction, tx.msg = txs[i].msg
  PROVE  [txs EXCEPT ![i] = tx] \in Seq(FullTransactions)
<1>1. txs[i] \in FullTransactions
  BY SeqLen, SMT
<1>2. tx \in FullTransactions
  BY <1>1 DEF FullTransactions
<1> QED
  BY <1>2, UpdateList

LEMMA FinishTurns ==
  ASSUME TypeInv, txs \in Seq(FullTransactions),
         NEW i \in DOMAIN txs, NEW code \in Codes \union {Uncoded}, Finish(i, code)
  PROVE  txs' \in Seq(FullTransactions)
<1> DEFINE tx == [txs[i] EXCEPT !.st = "done", !.code = code]
<1>1. txs[i] \in Transaction
  BY SeqLen, SMT DEF FullTransactions
<1>2. tx \in Transaction /\ tx.msg = txs[i].msg
  BY <1>1 DEF Transaction, States
<1>3. txs' = RemoveAt(txs, i) \/ txs' = [txs EXCEPT ![i] = tx]
  BY DEF Finish
<1> HIDE DEF tx
<1>4. RemoveAt(txs, i) \in Seq(FullTransactions)
  BY RemoveAtList
<1>5. [txs EXCEPT ![i] = tx] \in Seq(FullTransactions)
  BY <1>2, TransactionChanged
<1> QED
  BY <1>3, <1>4, <1>5

LEMMA ResultKeeps ==
  ASSUME txs \in Seq(FullTransactions), NEW i \in DOMAIN txs, Result(i) \/ Forget(i)
  PROVE  txs' \in Seq(FullTransactions)
<1> DEFINE tx == [txs[i] EXCEPT !.st = "result"]
<1>1. txs[i] \in Transaction
  BY SeqLen, SMT DEF FullTransactions
<1>2. tx \in Transaction /\ tx.msg = txs[i].msg
  BY <1>1 DEF Transaction, States
<1>3. txs' = RemoveAt(txs, i) \/ txs' = [txs EXCEPT ![i] = tx]
  BY DEF Result, Forget
<1> HIDE DEF tx
<1>4. RemoveAt(txs, i) \in Seq(FullTransactions)
  BY RemoveAtList
<1>5. [txs EXCEPT ![i] = tx] \in Seq(FullTransactions)
  BY <1>2, TransactionChanged
<1> QED
  BY <1>3, <1>4, <1>5

LEMMA OrphansKeep ==
  ASSUME txs \in Seq(FullTransactions), StartSender
  PROVE  txs' \in Seq(FullTransactions)
<1>1. ASSUME NEW i \in DOMAIN txs PROVE [txs[i] EXCEPT !.st = "orphan"] \in FullTransactions
  <2> DEFINE tx == [txs[i] EXCEPT !.st = "orphan"]
  <2>1. txs[i] \in FullTransactions /\ txs[i] \in Transaction
    BY SeqLen, SMT DEF FullTransactions
  <2>2. tx \in Transaction /\ tx.msg = txs[i].msg
    BY <2>1 DEF Transaction, States
  <2> HIDE DEF tx
  <2>3. tx \in FullTransactions
    BY <2>1, <2>2 DEF FullTransactions
  <2> QED
    BY <2>3 DEF tx
<1> QED
  BY <1>1, SeqLen, SMT DEF StartSender

\* A message for a whole block takes the BMC from the end of one block to the
\* end of the next.
LEMMA ExecuteWhole ==
  ASSUME TypeInv, DeliveredWhole, NEW m \in Message, Whole(m), bmc' = After(m)
  PROVE  DeliveredWhole'
<1>1. bmc.height \in BlockHeights /\ bmc.rxSeq \in Int /\ SequenceOffset \in Int
  BY SequenceOffsetAssumption, SMT DEF TypeInv, TypeOK, SenderTypeOK
<1>2. CASE Verdict(m) = "SUCCESS"
  <2>1. IsNext(bmc.height, m.bu)
    BY <1>2 DEF Verdict
  <2>2. bmc.height \in Nat /\ Upto(bmc.height) = EndSeq[bmc.height]
    BY <1>1, HeightIsInt, UptoBlock
  <2>3. /\ EndSeq[m.bu] = EndSeq[bmc.height] + MessageCount(m.bu) /\ MessageCount(m.bu) \in Nat
        /\ StartSeq(m.bu) = EndSeq[bmc.height] /\ EndSeq[bmc.height] \in Nat
    BY <2>1, <2>2, UptoNext
  <2>4. bmc'.height = m.bu
    BY <1>2 DEF After
  <2>5. bmc'.rxSeq + SequenceOffset = EndSeq[m.bu]
    <3>1. CASE m.last = 0
      <4>1. bmc'.rxSeq = bmc.rxSeq
        BY <1>2, <3>1 DEF After
      <4> QED
        BY <2>3, <3>1, <4>1, SMT DEF Whole, DeliveredWhole
    <3>2. CASE m.last # 0
      <4>1. bmc'.rxSeq = StartSeq(m.bu) + m.last - SequenceOffset
        BY <1>2, <3>2 DEF After
      <4>2. m.last = MessageCount(m.bu)
        BY DEF Whole
      <4> QED
        BY <1>1, <2>3, <4>1, <4>2, SMT
    <3> QED
      BY <3>1, <3>2
  <2> QED
    BY <2>4, <2>5 DEF DeliveredWhole
<1>3. CASE Verdict(m) # "SUCCESS"
  BY <1>3 DEF After, DeliveredWhole
<1> QED
  BY <1>2, <1>3

LEMMA ChainTurns ==
  ASSUME TypeInv, Sending, ChainStep
  PROVE  Sending'
<1>1. DeliveredWhole /\ txs \in Seq(FullTransactions)
  BY DEF Sending
<1>2. DeliveredWhole' /\ txs' \in Seq(FullTransactions)
  <2>1. CASE OtherRelay
    <3>1. PICK k \in BlockHeights : bmc' = [height |-> k, rxSeq |-> EndSeq[k] - SequenceOffset]
      BY <2>1 DEF OtherRelay
    <3>2. EndSeq[k] \in Int /\ SequenceOffset \in Int
      BY EndSeqAssumption, SequenceOffsetAssumption, SMT
    <3>3. DeliveredWhole'
      BY <3>1, <3>2, SMT DEF DeliveredWhole
    <3> QED
      BY <1>1, <2>1, <3>3 DEF OtherRelay, sndVars
  <2>2. ASSUME NEW i \in DOMAIN txs, Execute(i) PROVE DeliveredWhole' /\ txs' \in Seq(FullTransactions)
    <3> DEFINE m == txs[i].msg
    <3>1. m \in Message /\ Whole(m)
      BY <1>1, SeqLen, SMT DEF FullTransactions, Transaction
    <3>2. bmc' = After(m) /\ Finish(i, Verdict(m))
      BY <2>2 DEF Execute
    <3>3. Verdict(m) \in Codes \union {Uncoded}
      BY DEF Verdict, Codes
    <3> HIDE DEF m
    <3> QED
      BY <1>1, <2>2, <3>1, <3>2, <3>3, ExecuteWhole, FinishTurns
  <2>3. ASSUME NEW i \in DOMAIN txs, Lose(i) \/ Revert(i) PROVE DeliveredWhole' /\ txs' \in Seq(FullTransactions)
    <3>1. PICK code \in Codes \union {Uncoded} : Finish(i, code)
      BY <2>3 DEF Lose, Revert, Codes
    <3>2. bmc' = bmc
      BY <2>3 DEF Lose, Revert
    <3> QED
      BY <1>1, <3>1, <3>2, FinishTurns DEF DeliveredWhole
  <2> QED
    BY <2>1, <2>2, <2>3 DEF ChainStep
<1> QED
  BY <1>2 DEF Sending, ChainStep, lnkVars

-----------------------------------------------------------------------------
(***************************************************************************)
(* A new process.                                                          *)
(***************************************************************************)
LEMMA NewProcess == Begins => Running
<1> SUFFICES ASSUME Begins PROVE Running
  OBVIOUS
<1>1. PICK b \in BlockHeights : b = bmc.height
  BY DEF Begins
<1>2. PICK c \in Nat : c = cursor
  BY DEF Begins
<1>3. b \in Nat /\ EndSeq[b] \in Nat /\ Upto(c) \in Nat /\ 0 < b /\ b <= c
  <2>1. b \in Nat /\ 0 < b /\ b <= c
    BY <1>1, <1>2, HeightIsInt DEF Begins
  <2> QED
    <3>1. c <= c
      BY SMT
    <3> QED
      BY <2>1, <3>1, UptoGrows
<1>4. /\ bls = bmc /\ rms = <<>> /\ rss = <<>> /\ brss = <<>> /\ rmi = EmptyRmi /\ ~once
      /\ \A p \in Procs : pc[p] = "idle" /\ loc[p] = Idle
      /\ pc["recv"] = "idle" /\ pc["send"] = "idle" /\ loc["recv"] = Idle /\ loc["send"] = Idle
      /\ bseq = EndSeq[b] /\ rsc = NoStatus /\ blsc = NoPosition
      /\ slices.mon = <<>> /\ slices.fin = <<>>
  BY <1>1 DEF Begins, LinkInit, Procs, NoSlices
<1>5. Turns
  BY <1>4 DEF Turns, Waiting
<1>6. Fresh
  BY <1>4 DEF Fresh
<1>7. Slices
  BY <1>4 DEF Slices
<1>8. Statuses(b, c, <<>>) /\ \A h : Below(<<>>, h)
  BY SMT DEF Statuses, Below, Rising
<1>9. Telling(b, c)
  <2>1. bseq = IF Skips(b, c) THEN EndSeq[b] ELSE Upto(cursor)
    BY <1>2, <1>4 DEF Skips
  <2> QED
    BY <1>2, <1>3, <1>4, <1>8, <2>1, SMT DEF Telling
<1>10. Keeping(c)
  BY <1>2, HeightIsInt, SMT DEF Keeping, KnownAbove
<1>11. Passing
  <2>1. Passed(0)
    BY <1>1, <1>3, <1>4, SMT DEF Passed, PassedAt, Clear
  <2> QED
    BY <1>4, <2>1, SMT DEF Passing, Idle, NoPosition
<1>12. Positions(b, c)
  <2>1. Between(b, c, bls)
    BY <1>1, <1>3, <1>4, SMT DEF Between, Begins
  <2> QED
    BY <1>4, <2>1 DEF Positions, Rests
<1>13. \A p \in Procs : At(b, c, pc[p], loc[p], bls, rms, rss, brss, rmi)
  BY <1>4 DEF At
<1>14. b <= bmc.height /\ (crashes = 0 => c = b)
  BY <1>1, <1>2, <1>3, SMT DEF Begins
<1>15. Process(b, c)
  BY <1>5, <1>6, <1>7, <1>9, <1>10, <1>11, <1>12, <1>13, <1>14 DEF Process
<1> QED
  BY <1>2, <1>15, SMT DEF Running

\* The receiver never resumes below the BMC's height.
LEMMA ResumesAbove ==
  ASSUME NEW pos, pos.height \in Nat, NEW blocks \in SUBSET BlockHeights, NEW last \in Nat
  PROVE  resumeHeight(pos, blocks, last) \in Nat /\ pos.height <= resumeHeight(pos, blocks, last)
<1>1. getFirstHeightForReceiveBlock(blocks) \in Nat
  BY DEF getFirstHeightForReceiveBlock, FirstKeys
<1> QED
  BY <1>1, SMT DEF resumeHeight

LEMMA RestartTurns ==
  ASSUME TypeInv, SequenceOffset = 0, Sending, Restart
  PROVE  Running' /\ Sending'
<1>1. /\ bmc.height \in BlockHeights /\ bmc.rxSeq \in Int /\ bmc.height \in Nat
      /\ db \in SUBSET BlockHeights /\ lastHeight \in Nat /\ crashes \in Nat
      /\ bmc' = bmc /\ crashes' = crashes + 1
  BY HeightIsInt DEF TypeInv, TypeOK, SenderTypeOK, ReceiverTypeOK, Restart
<1>2. bmc.rxSeq = EndSeq[bmc.height]
  <2>1. bmc.rxSeq + 0 = EndSeq[bmc.height]
    BY DEF Sending, DeliveredWhole
  <2> QED
    BY <1>1, <2>1, SMT
<1>3. bseq' = EndSeq[bmc.height]
  <2>1. bseq' = IF bmc.rxSeq = 0 THEN 0 ELSE bmc.rxSeq + 0
    BY DEF Restart, StartReceiver
  <2> QED
    BY <1>1, <1>2, <2>1, SMT
<1>4. cursor' \in Nat /\ bmc.height <= cursor'
  <2> DEFINE blocks == IF bmc.rxSeq < 1 THEN {} ELSE db
             last   == IF bmc.rxSeq < 1 THEN 0 ELSE lastHeight
  <2>1. cursor' = resumeHeight(bmc, blocks, last)
    BY DEF Restart, StartReceiver
  <2>2. blocks \in SUBSET BlockHeights /\ last \in Nat
    BY <1>1
  <2> HIDE DEF blocks, last
  <2> QED
    BY <1>1, <2>1, <2>2, ResumesAbove
<1>5. LinkInit(bmc)'
  BY <1>1 DEF Restart, LinkInit
<1>6. brss' = <<>> /\ rsc' = NoStatus /\ blsc' = NoPosition /\ slices' = NoSlices
  BY DEF Restart, StartReceiver
<1>7. crashes' # 0
  BY <1>1, SMT
<1>8. Begins'
  BY <1>1, <1>2, <1>3, <1>4, <1>5, <1>6, <1>7 DEF Begins
<1>9. Running'
  BY <1>8, NewProcess, PTL
<1>10. Sending'
  <2>1. txs' \in Seq(FullTransactions)
    BY OrphansKeep DEF Restart, Sending
  <2>2. DeliveredWhole'
    BY <1>1 DEF Sending, DeliveredWhole
  <2>3. rms' = <<>> /\ \A p \in Procs : loc'[p] = Idle
    BY DEF Restart
  <2>4. FullList(rms') /\ Idle.todo \in Seq(FullMessages)
    BY <2>3, SMT DEF FullList, Chained, Idle
  <2> QED
    BY <2>1, <2>2, <2>3, <2>4 DEF Sending
<1> QED
  BY <1>9, <1>10

-----------------------------------------------------------------------------
(***************************************************************************)
(* The results.                                                            *)
(***************************************************************************)
LEMMA TurnsInit == TakingTurns /\ Init => TurnsInv
<1> SUFFICES ASSUME TakingTurns, Init PROVE TurnsInv
  OBVIOUS
<1>1. PICK h \in BlockHeights :
        /\ bmc = [height |-> h, rxSeq |-> EndSeq[h] - SequenceOffset]
        /\ LinkInit(bmc) /\ cursor = h
        /\ bseq = IF bmc.rxSeq = 0 THEN 0 ELSE bmc.rxSeq + SequenceOffset
  BY DEF Init
<1>2. SequenceOffset = 0 /\ EndSeq[h] \in Int /\ h \in Nat
  BY EndSeqAssumption, HeightIsInt, SMT DEF TakingTurns
<1>3. bmc.height = h /\ bmc.rxSeq = EndSeq[h] /\ bseq = EndSeq[h]
  BY <1>1, <1>2, SMT
<1>4. brss = <<>> /\ rsc = NoStatus /\ blsc = NoPosition /\ slices = NoSlices /\ txs = <<>>
  BY DEF Init, SenderInit
<1>5. Begins
  BY <1>1, <1>2, <1>3, <1>4, SMT DEF Begins
<1>6. rms = <<>> /\ \A p \in Procs : loc[p] = Idle
  BY <1>1 DEF LinkInit
<1>7. FullList(rms) /\ Idle.todo \in Seq(FullMessages) /\ txs \in Seq(FullTransactions)
  BY <1>4, <1>6, SMT DEF FullList, Chained, Idle
<1>8. DeliveredWhole
  BY <1>2, <1>3, SMT DEF DeliveredWhole
<1>9. Sending
  BY <1>6, <1>7, <1>8 DEF Sending
<1> QED
  BY <1>5, <1>9, NewProcess DEF Running, TurnsInv

LEMMA TurnsStep ==
  ASSUME TakingTurns, TypeInv, TypeInv', DeliveryInv, TurnsInv, [Next]_vars,
         bmc.height <= bmc'.height
  PROVE  TurnsInv'
<1>1. /\ ~Preemptive /\ SequenceOffset = 0 /\ \A h \in BlockHeights : StartHeight <= h
      /\ Sending /\ bmc.height <= bmc'.height
  BY DEF TakingTurns, FirstIsStart, TurnsInv
<1>2. PICK b \in BlockHeights, c \in 0 .. cursor : Process(b, c)
  BY DEF TurnsInv
<1>3. c \in Nat
  BY SMT DEF TypeInv, TypeOK, ReceiverTypeOK
<1>4. ASSUME Process(b, c)', Sending' PROVE TurnsInv'
  <2>1. c <= cursor' /\ cursor' \in Nat
    BY <1>4 DEF Process, Telling, TypeInv, TypeOK, ReceiverTypeOK
  <2>2. c \in 0 .. cursor'
    BY <1>3, <2>1, SMT
  <2> QED
    BY <1>4, <2>2 DEF TurnsInv
<1>5. ASSUME UNCHANGED <<lnkVars, rcvVars, crashes>>, Sending' PROVE TurnsInv'
  BY <1>1, <1>2, <1>4, <1>5, OtherStep
<1>6. ASSUME UNCHANGED <<lnkVars, bmc>>, txs' \in Seq(FullTransactions) PROVE Sending'
  BY <1>1, <1>6 DEF Sending, lnkVars, DeliveredWhole
<1>7. ASSUME NEW p \in Procs, LinkStep(p) PROVE TurnsInv'
  <2>1. MayRun(p) /\ UNCHANGED <<bmc, crashes>>
    BY <1>7 DEF LinkStep
  <2>2. CASE p = "recv" /\ Recv
    BY <1>1, <1>2, <1>3, <1>4, <2>1, <2>2, RecvTurns, ZenonT(60)
  <2>3. CASE p = "send" /\ Send
    BY <1>1, <1>2, <1>3, <1>4, <2>1, <2>3, SendTurns, ZenonT(60)
  <2>4. CASE HandleRelayMessage(p)
    BY <1>1, <1>2, <1>3, <1>4, <2>1, <2>4, HandleTurns, ZenonT(60)
  <2> QED
    BY <1>7, <2>2, <2>3, <2>4 DEF LinkStep
<1>8. CASE ReceiverStep
  <2>1. UNCHANGED <<lnkVars, bmc, crashes>> /\ txs' = txs
    BY <1>8 DEF ReceiverStep, sndVars
  <2>2. Sending'
    BY <1>1, <1>6, <2>1 DEF Sending
  <2>3. CASE MayRun("mon") /\ (MonitorBlock \/ MonitorProgress \/ SendReceiveStatus)
    BY <1>1, <1>2, <1>3, <1>4, <2>1, <2>2, <2>3, MonitorTurns, ZenonT(60)
  <2>4. CASE MayRun("fin") /\ (FinalizedStatus \/ clearReceiveStatus)
    BY <1>1, <1>2, <1>3, <1>4, <2>1, <2>2, <2>4, FinalizedTurns, ZenonT(60)
  <2> QED
    BY <1>8, <2>3, <2>4 DEF ReceiverStep
<1>9. CASE SenderStep \/ Cleanup
  <2>1. PICK i \in DOMAIN txs : Result(i) \/ Forget(i)
    BY <1>9 DEF SenderStep, Cleanup
  <2>2. UNCHANGED <<lnkVars, rcvVars, bmc, crashes>>
    BY <1>9 DEF SenderStep, Cleanup
  <2>3. txs' \in Seq(FullTransactions)
    BY <1>1, <2>1, ResultKeeps DEF Sending
  <2> QED
    BY <1>5, <1>6, <2>2, <2>3
<1>10. CASE ChainStep
  <2>1. UNCHANGED <<lnkVars, rcvVars, crashes>>
    BY <1>10 DEF ChainStep
  <2> QED
    BY <1>1, <1>5, <1>10, <2>1, ChainTurns
<1>11. CASE Stop \/ Panic \/ Crash \/ UNCHANGED vars
  <2>1. UNCHANGED <<lnkVars, rcvVars, sndVars, bmc, crashes>>
    BY <1>11 DEF Stop, Panic, Crash, End, vars
  <2>2. txs' \in Seq(FullTransactions)
    BY <1>1, <2>1 DEF Sending, sndVars
  <2> QED
    BY <1>5, <1>6, <2>1, <2>2
<1>12. CASE Restart
  BY <1>1, <1>12, RestartTurns DEF TurnsInv, Running
<1> QED
  BY <1>7, <1>8, <1>9, <1>10, <1>11, <1>12, ZenonT(60) DEF Next

\* What follows from the invariant.
LEMMA TurnsWhole == TurnsInv => DeliveredWhole
BY DEF TurnsInv, Sending

LEMMA TurnsChained == TurnsInv => MessagesChained
BY DEF TurnsInv, Sending, FullList, Chained, MessagesChained

LEMMA TurnsBounded == TurnsInv => SizeBounded
<1> SUFFICES ASSUME TurnsInv, NEW i \in DOMAIN rms
             PROVE  LET msg == rms[i].msg
                    IN  (IF msg.bu = 0 THEN 0 ELSE BlockUpdateSize)
                          + ProofSize(IF msg.last = 0 THEN 0 ELSE msg.last - msg.first + 1)
                        <= TxSizeLimit + MessageSize
  BY DEF SizeBounded
<1> DEFINE m == rms[i].msg
<1>1. rms[i] \in FullMessages
  BY SeqLen, SMT DEF TurnsInv, Sending, FullList
<1>2. Whole(m) /\ Fits(m.last) /\ m.last \in Nat
  BY <1>1 DEF FullMessages, RelayMessage, Message
<1>3. m.bu # 0
  BY <1>2, HeightIsInt DEF Whole
<1>4. (IF m.last = 0 THEN 0 ELSE m.last - m.first + 1) = m.last
  BY <1>2, SMT DEF Whole
<1> QED
  BY <1>2, <1>3, <1>4 DEF Fits

LEMMA TurnsEnd == TypeInv /\ TurnsInv => NoSpin
<1> SUFFICES ASSUME TypeInv, TurnsInv, NEW p \in Procs, pc[p] = "proof", bls.rxSeq < loc[p].seq
             PROVE  NextProof # NoItem
  BY DEF NoSpin
<1>1. PICK b \in BlockHeights, c \in 0 .. cursor : Process(b, c)
  BY DEF TurnsInv
<1>2. c \in Nat
  BY SMT DEF TypeInv, TypeOK, ReceiverTypeOK
<1> QED
  BY <1>1, <1>2, ProofFound

LEMMA TurnsStatuses == TypeInv /\ TurnsInv => (crashes = 0 => StatusesKept)
<1> SUFFICES ASSUME TypeInv, TurnsInv, crashes = 0, NEW h \in BlockHeights, bmc.height < h, h <= cursor
             PROVE  \/ slices.mon # <<>> /\ h = cursor
                    \/ /\ indexForHeight(brss, h) # 0
                       /\ \/ rsc.height = h
                          \/ pc["recv"] = "append" /\ loc["recv"].rs.height = h
                          \/ indexForHeight(rss, h) # 0
  BY DEF StatusesKept
<1>1. PICK b \in BlockHeights, c \in 0 .. cursor : Process(b, c)
  BY DEF TurnsInv
<1>2. c = b /\ b <= bmc.height
  BY <1>1 DEF Process
<1>3. bmc.height \in Heights /\ bmc.height \in Nat /\ b \in Nat /\ h \in Nat
  BY HeightIsInt DEF TypeInv, TypeOK, SenderTypeOK, Heights
<1>4. KnownAbove(c, bmc.height)
  BY <1>1, <1>3 DEF Process, Keeping, Needed
<1>5. Known(h)
  BY <1>2, <1>3, <1>4, SMT DEF KnownAbove
<1>6. rss \in Seq(ReceiveStatus) /\ brss \in Seq(ReceiveStatus)
  BY DEF TypeInv, TypeOK, LinkTypeOK, ReceiverTypeOK
<1>7. /\ In(rss, h) => indexForHeight(rss, h) # 0
      /\ In(brss, h) => indexForHeight(brss, h) # 0
  BY <1>6, StatusFound
<1> QED
  BY <1>5, <1>7 DEF Known
=============================================================================
