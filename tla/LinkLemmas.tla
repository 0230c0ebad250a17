----------------------------- MODULE LinkLemmas ------------------------------
(***************************************************************************)
(* What the proofs about Link share: facts about sequences, about minima   *)
(* and maxima of sets of naturals, about the operators that stand for the  *)
(* loops over slices, and about the states of the link.  The modules that  *)
(* build on it do not build on each other, since a proof carries every     *)
(* lemma of the modules it reaches; LinkTheorems puts them together.       *)
(***************************************************************************)
EXTENDS LinkTurnsInv, WellFoundedInduction, TLAPS

USE BlockHeightsAssumption

-----------------------------------------------------------------------------
(***************************************************************************)
(* Sequences.                                                              *)
(***************************************************************************)
LEMMA SeqWider ==
  ASSUME NEW S, NEW T, S \subseteq T, NEW s \in Seq(S)
  PROVE  s \in Seq(T)
OBVIOUS

LEMMA SeqLen ==
  ASSUME NEW S, NEW s \in Seq(S)
  PROVE  Len(s) \in Nat /\ DOMAIN s = 1 .. Len(s) /\ s \in [1 .. Len(s) -> S]
OBVIOUS

LEMMA SeqElement ==
  ASSUME NEW S, NEW s \in Seq(S), NEW i \in 1 .. Len(s)
  PROVE  s[i] \in S
OBVIOUS

LEMMA SeqEmpty ==
  ASSUME NEW S
  PROVE  /\ <<>> \in Seq(S) /\ Len(<<>>) = 0
         /\ \A s \in Seq(S) : s # <<>> => Len(s) \in Nat \ {0}
OBVIOUS

LEMMA SeqExcept ==
  ASSUME NEW S, NEW s \in Seq(S), NEW i \in 1 .. Len(s), NEW e \in S
  PROVE  LET new == [s EXCEPT ![i] = e]
         IN  /\ new \in Seq(S) /\ Len(new) = Len(s)
             /\ \A j \in 1 .. Len(s) : new[j] = IF j = i THEN e ELSE s[j]
OBVIOUS

LEMMA SeqConcat ==
  ASSUME NEW S, NEW s \in Seq(S), NEW t \in Seq(S)
  PROVE  /\ s \o t \in Seq(S) /\ Len(s \o t) = Len(s) + Len(t)
         /\ \A i \in 1 .. Len(s) + Len(t) : (s \o t)[i] = IF i <= Len(s) THEN s[i] ELSE t[i - Len(s)]
OBVIOUS

LEMMA SeqSub ==
  ASSUME NEW S, NEW s, NEW m \in Int, NEW n \in Int, \A i \in m .. n : s[i] \in S
  PROVE  /\ SubSeq(s, m, n) \in Seq(S) /\ Len(SubSeq(s, m, n)) = IF m <= n THEN n - m + 1 ELSE 0
         /\ \A i \in 1 .. n - m + 1 : SubSeq(s, m, n)[i] = s[m + i - 1]
OBVIOUS

LEMMA SeqSubEmpty ==
  ASSUME NEW s, NEW m \in Int, NEW n \in Int, n < m
  PROVE  SubSeq(s, m, n) = <<>>
OBVIOUS

LEMMA SeqHeadTail ==
  ASSUME NEW S, NEW s \in Seq(S), s # <<>>
  PROVE  /\ Head(s) \in S /\ Tail(s) \in Seq(S) /\ Len(Tail(s)) = Len(s) - 1
         /\ \A i \in 1 .. Len(Tail(s)) : Tail(s)[i] = s[i + 1]
OBVIOUS

LEMMA SeqAppend ==
  ASSUME NEW S, NEW s \in Seq(S), NEW e \in S
  PROVE  /\ Append(s, e) \in Seq(S) /\ Append(s, e) # <<>> /\ Len(Append(s, e)) = Len(s) + 1
         /\ Append(s, e)[Len(s) + 1] = e
         /\ \A i \in 1 .. Len(s) : Append(s, e)[i] = s[i]
OBVIOUS

-----------------------------------------------------------------------------
(***************************************************************************)
(* Minima and maxima, and the loops over slices.                           *)
(***************************************************************************)
\* A set of naturals that is not empty has a least element, and Min is it.
LEMMA NatMin ==
  ASSUME NEW S, S \subseteq Nat, S # {}
  PROVE  /\ Min(S) \in S
         /\ \A n \in S : Min(S) <= n
<1>1. PICK m \in S : \A n \in S : <<n, m>> \notin OpToRel(<, Nat)
  BY WFMin, NatLessThanWellFounded, ZenonT(60)
<1>2. ASSUME NEW n \in S PROVE m <= n
  <2>1. n \in Nat /\ m \in Nat
    OBVIOUS
  <2>2. ~(n < m)
    BY <1>1, <2>1, ZenonT(60) DEF OpToRel
  <2> QED
    BY <2>1, <2>2
<1> QED
  BY <1>2, ZenonT(60) DEF Min

\* A set of naturals with an upper bound has a greatest element.
LEMMA NatMax ==
  ASSUME NEW S, S \subseteq Nat, S # {}, NEW b \in Nat, \A n \in S : n <= b
  PROVE  \E m \in S : \A n \in S : n <= m
<1> DEFINE T == {b - n : n \in S}
<1>1. T \subseteq Nat
  <2> SUFFICES ASSUME NEW n \in S PROVE b - n \in Nat
    OBVIOUS
  <2>1. n \in Nat /\ n <= b
    OBVIOUS
  <2> QED
    BY <2>1
<1>2. PICK t \in T : \A u \in T : t <= u
  <2> HIDE DEF T
  <2>1. T # {}
    BY ZenonT(60) DEF T
  <2> QED
    BY <1>1, <2>1, NatMin, ZenonT(60)
<1>3. PICK m \in S : t = b - m
  BY <1>2
<1>4. ASSUME NEW n \in S PROVE n <= m
  <2>1. b - m <= b - n
    BY <1>2, <1>3, ZenonT(60)
  <2>2. n \in Nat /\ m \in Nat
    OBVIOUS
  <2> QED
    BY <2>1, <2>2
<1> QED
  BY <1>4

\* A part of a list is a list of the same elements.
LEMMA SubSeqList ==
  ASSUME NEW E, NEW s \in Seq(E), NEW i \in Nat \ {0}, NEW j \in Int, j <= Len(s)
  PROVE  SubSeq(s, i, j) \in Seq(E)
<1>1. \A k \in i..j : s[k] \in E
  OBVIOUS
<1> QED
  BY <1>1, SeqSub

\* So is a list without one of its elements.
LEMMA RemoveAtList ==
  ASSUME NEW E, NEW s \in Seq(E), NEW i \in DOMAIN s
  PROVE  RemoveAt(s, i) \in Seq(E)
<1>1. i \in 1..Len(s) /\ Len(s) \in Nat
  BY SeqLen
<1>2. SubSeq(s, 1, i - 1) \in Seq(E)
  BY <1>1, SubSeqList
<1>3. SubSeq(s, i + 1, Len(s)) \in Seq(E)
  BY <1>1, SubSeqList
<1> QED
  BY <1>2, <1>3, SeqConcat DEF RemoveAt

\* SelectInSeq, whose set of places is I, answers a place of the list or 0, and
\* the list from there on is a list of the same elements.
LEMMA SelectList ==
  ASSUME NEW E, NEW s \in Seq(E), NEW I \in SUBSET (1..Len(s)),
         NEW i, i = IF I # {} THEN Min(I) ELSE 0
  PROVE  /\ i \in 0..Len(s)
         /\ I # {} => i \in I
         /\ SubSeq(s, i + 1, Len(s)) \in Seq(E)
         /\ i # 0 => SubSeq(s, i, Len(s)) \in Seq(E)
<1>1. Len(s) \in Nat
  BY SeqLen
<1>2. I # {} => i \in I
  <2>1. I \subseteq Nat
    BY <1>1
  <2> QED
    BY <2>1, NatMin, ZenonT(60)
<1>3. i \in 0..Len(s)
  <2>1. CASE I = {}
    BY <1>1, <2>1
  <2>2. CASE I # {}
    <3>1. i \in 1..Len(s)
      BY <1>2, <2>2, ZenonT(60)
    <3> QED
      BY <1>1, <3>1
  <2> QED
    BY <2>1, <2>2
<1>4. SubSeq(s, i + 1, Len(s)) \in Seq(E)
  BY <1>1, <1>3, SubSeqList
<1>5. i # 0 => SubSeq(s, i, Len(s)) \in Seq(E)
  BY <1>1, <1>3, SubSeqList
<1> QED
  BY <1>2, <1>3, <1>4, <1>5

LEMMA UpdateList ==
  ASSUME NEW E, NEW list \in Seq(E), NEW i \in DOMAIN list, NEW e \in E
  PROVE  [list EXCEPT ![i] = e] \in Seq(E)
BY SeqExcept

\* DropThrough, whose test holds at the places I, leaves a list.
LEMMA DropType ==
  ASSUME NEW E, NEW list \in Seq(E), NEW I \in SUBSET (1..Len(list))
  PROVE  SubSeq(list, (IF I # {} THEN Min(I) ELSE 0) + 1, Len(list)) \in Seq(E)
BY SelectList

LEMMA HeightsNat == Heights \subseteq Nat
BY DEF Heights

\* The messages before a block are not more than those up to it.
LEMMA StartSeqType ==
  \A h \in BlockHeights : StartSeq(h) \in Nat /\ StartSeq(h) <= EndSeq[h]
<1> SUFFICES ASSUME NEW h \in BlockHeights
             PROVE  StartSeq(h) \in Nat /\ StartSeq(h) <= EndSeq[h]
  OBVIOUS
<1> DEFINE before == {EndSeq[g] : g \in {g \in BlockHeights : g < h}}
<1>1. before \subseteq Nat /\ \A n \in before : n <= EndSeq[h]
  BY EndSeqAssumption
<1>2. CASE before = {}
  BY <1>2, EndSeqAssumption DEF StartSeq
<1>3. CASE before # {}
  <2>1. \E m \in before : \A n \in before : n <= m
    <3> HIDE DEF before
    <3> QED
      BY <1>1, <1>3, EndSeqAssumption, NatMax, ZenonT(60)
  <2>2. StartSeq(h) \in before
    BY <1>3, <2>1 DEF StartSeq
  <2> QED
    BY <1>1, <2>2
<1> QED
  BY <1>2, <1>3

LEMMA MessageCountType == \A h \in BlockHeights : MessageCount(h) \in Nat
BY StartSeqType, EndSeqAssumption DEF MessageCount

LEMMA CoveredType ==
  ASSUME NEW E, NEW pos, brss \in Seq(E)
  PROVE  Cleared(pos) \in Seq(E)
<1> DEFINE I == {i \in 1..Len(brss) : Covers(pos, brss[i])}
<1>1. Cleared(pos) = SubSeq(brss, (IF I # {} THEN Min(I) ELSE 0) + 1, Len(brss))
  BY Zenon DEF Cleared, DropThrough, SelectInSeq
<1>2. I \in SUBSET (1..Len(brss))
  OBVIOUS
<1> HIDE DEF I
<1> QED
  BY <1>1, <1>2, DropType

LEMMA IdleType == Idle \in Locals
BY DEF Idle, Locals, NoStatus, NoPosition, NoCode, NoItem, Position, Item, Heights

LEMMA UnsentType ==
  ASSUME NEW E, NEW list \in Seq(E)
  PROVE  Unsent(list) \in Seq(E)
<1> DEFINE I == {i \in 1..Len(list) : ~list[i].sent}
           i == IF I # {} THEN Min(I) ELSE 0
<1>1. Unsent(list) = IF i = 0 THEN <<>> ELSE SubSeq(list, i, Len(list))
  BY Zenon DEF Unsent, SelectInSeq
<1>2. i # 0 => SubSeq(list, i, Len(list)) \in Seq(E)
  BY SelectList, ZenonT(60)
<1> QED
  BY <1>1, <1>2

LEMMA MarkSentType ==
  ASSUME NEW E, NEW list \in Seq(E), NEW rm,
         \A r \in E : [r EXCEPT !.sent = TRUE] \in E
  PROVE  MarkSent(list, rm) \in Seq(E)
<1> DEFINE I == {i \in 1..Len(list) : list[i].id = rm.id /\ ~list[i].sent}
           i == IF I # {} THEN Min(I) ELSE 0
<1>1. MarkSent(list, rm) = IF i = 0 THEN list ELSE [list EXCEPT ![i].sent = TRUE]
  BY Zenon DEF MarkSent, SelectInSeq
<1>2. i \in 0..Len(list)
  <2>1. I \in SUBSET (1..Len(list))
    OBVIOUS
  <2> HIDE DEF I
  <2> QED
    BY <2>1, SelectList
<1> HIDE DEF i
<1>3. CASE i # 0
  <2>1. i \in DOMAIN list /\ list[i] \in E
    BY <1>2, <1>3, SeqLen
  <2>2. [list[i] EXCEPT !.sent = TRUE] \in E
    BY <2>1
  <2>3. [list EXCEPT ![i].sent = TRUE] = [list EXCEPT ![i] = [list[i] EXCEPT !.sent = TRUE]]
    BY <2>1
  <2> QED
    BY <1>1, <1>3, <2>1, <2>2, <2>3, UpdateList
<1> QED
  BY <1>1, <1>3

LEMMA RemoveRelayMessageType ==
  ASSUME NEW E, NEW list \in Seq(E), NEW pos
  PROVE  removeRelayMessage(list, pos) \in Seq(E)
<1> DEFINE I == {i \in 1..Len(list) : list[i].bls.height <= pos.height /\ list[i].bls.rxSeq <= pos.rxSeq}
<1>1. removeRelayMessage(list, pos) = SubSeq(list, (IF I # {} THEN Min(I) ELSE 0) + 1, Len(list))
  BY Zenon DEF removeRelayMessage, DropThrough, SelectInSeq
<1>2. I \in SUBSET (1..Len(list))
  OBVIOUS
<1> HIDE DEF I
<1> QED
  BY <1>1, <1>2, DropType

\* getRelayMessageForId answers the place of a message with the id, or 0.
LEMMA RelayMessageForId ==
  ASSUME rms \in Seq(RelayMessage), NEW id, getRelayMessageForId(id) # 0
  PROVE  /\ getRelayMessageForId(id) \in DOMAIN rms
         /\ rms[getRelayMessageForId(id)] \in RelayMessage
         /\ rms[getRelayMessageForId(id)].id = id
<1> DEFINE I == {i \in 1..Len(rms) : rms[i].id = id}
<1>1. getRelayMessageForId(id) = IF I # {} THEN Min(I) ELSE 0
  BY Zenon DEF getRelayMessageForId, SelectInSeq
<1>2. I # {} /\ getRelayMessageForId(id) \in I
  <2>1. I \in SUBSET (1..Len(rms))
    OBVIOUS
  <2> HIDE DEF I
  <2> QED
    BY <1>1, <2>1, SelectList
<1> QED
  BY <1>2, SeqLen

-----------------------------------------------------------------------------
(***************************************************************************)
(* The source, the lists of statuses and messages, and the goroutines that *)
(* take turns.                                                             *)
(***************************************************************************)
\* The steps below are for Zenon where they do not name another prover.
USE Zenon

LEMMA HeightIsInt == \A h \in BlockHeights : h \in Int /\ h \in Nat /\ 0 < h
BY SMT

LEMMA PositionIs == \A pos \in Position : pos.height \in Heights /\ pos.height \in Nat /\ pos.rxSeq \in Int
<1>1. \A pos \in Position : pos.height \in Heights /\ pos.rxSeq \in Int
  BY DEF Position
<1> QED
  BY <1>1, HeightsNat

LEMMA StatusIs ==
  \A rs \in ReceiveStatus : rs.height \in BlockHeights /\ rs.height \in Nat /\ rs.seq \in Int
<1>1. \A rs \in ReceiveStatus : rs.height \in BlockHeights /\ rs.seq \in Int
  BY DEF ReceiveStatus
<1> QED
  BY <1>1, HeightIsInt

\* The messages up to a height are those up to the last block that is not above it.
LEMMA UptoIs ==
  ASSUME NEW c \in Nat, NEW b \in BlockHeights, b <= c
  PROVE  \E m \in BlockHeights : /\ m <= c /\ Upto(c) = EndSeq[m]
                                /\ \A j \in BlockHeights : j <= c => j <= m
<1> DEFINE S == {j \in BlockHeights : j <= c}
           before == {EndSeq[g] : g \in {g \in BlockHeights : g < c + 1}}
<1>1. S \subseteq Nat /\ S # {} /\ \A j \in S : j <= c
  OBVIOUS
<1>2. PICK m \in S : \A j \in S : j <= m
  <2> HIDE DEF S
  <2> QED
    BY <1>1, NatMax
<1>3. EndSeq[m] \in before /\ \A n \in before : n <= EndSeq[m]
  <2>1. m < c + 1 /\ m \in BlockHeights
    BY <1>2, SMT
  <2>2. ASSUME NEW g \in BlockHeights, g < c + 1 PROVE EndSeq[g] <= EndSeq[m]
    <3>1. g \in Nat /\ m \in Nat /\ g <= c
      BY <2>1, <2>2, SMT
    <3>2. g <= m
      BY <1>2, <3>1
    <3>3. CASE g = m
      BY <2>1, <3>3, EndSeqAssumption, SMT
    <3>4. CASE g # m
      BY <2>1, <3>1, <3>2, <3>4, EndSeqAssumption, SMT
    <3> QED
      BY <3>3, <3>4
  <2> QED
    BY <2>1, <2>2
<1>4. before \subseteq Nat
  BY EndSeqAssumption
<1>5. Upto(c) = IF before = {} THEN 0 ELSE CHOOSE n \in before : \A k \in before : k <= n
  BY DEF Upto, StartSeq
<1> HIDE DEF before
<1>6. Upto(c) \in before /\ \A k \in before : k <= Upto(c)
  BY <1>3, <1>5
<1>7. Upto(c) = EndSeq[m]
  <2>1. EndSeq[m] <= Upto(c) /\ Upto(c) <= EndSeq[m] /\ EndSeq[m] \in Nat /\ Upto(c) \in Nat
    BY ONLY <1>3, <1>4, <1>6, Zenon
  <2> QED
    BY ONLY <2>1
<1> QED
  BY <1>2, <1>7

LEMMA EndSeqGrows ==
  \A g, h \in BlockHeights : EndSeq[g] \in Nat /\ (g <= h => EndSeq[g] <= EndSeq[h])
<1> SUFFICES ASSUME NEW g \in BlockHeights, NEW h \in BlockHeights
             PROVE  EndSeq[g] \in Nat /\ (g <= h => EndSeq[g] <= EndSeq[h])
  OBVIOUS
<1>1. CASE g = h
  BY <1>1, EndSeqAssumption, SMT
<1>2. CASE g # h
  BY <1>2, EndSeqAssumption, SMT
<1> QED
  BY <1>1, <1>2

LEMMA UptoBlock == \A h \in BlockHeights : Upto(h) = EndSeq[h]
<1> SUFFICES ASSUME NEW h \in BlockHeights PROVE Upto(h) = EndSeq[h]
  OBVIOUS
<1>1. h \in Nat /\ h <= h
  BY SMT
<1>2. PICK m \in BlockHeights : /\ m <= h /\ Upto(h) = EndSeq[m]
                              /\ \A j \in BlockHeights : j <= h => j <= m
  BY <1>1, UptoIs
<1>3. m = h
  BY <1>1, <1>2, SMT
<1> QED
  BY <1>2, <1>3

LEMMA StartSeqOf == \A k : StartSeq(k) = SeqOf({h \in BlockHeights : h < k})
BY DEF StartSeq, SeqOf

\* Up to the height before the next block, and up to that block.
LEMMA UptoNext ==
  ASSUME NEW g \in Nat, NEW k, IsNext(g, k)
  PROVE  /\ k \in BlockHeights /\ StartSeq(k) = Upto(g)
         /\ Upto(k) = EndSeq[k] /\ EndSeq[k] = Upto(g) + MessageCount(k)
         /\ MessageCount(k) \in Nat /\ Upto(g) \in Nat
<1>1. k \in BlockHeights /\ k \in Nat /\ g < k
  BY DEF IsNext
<1>2. {h \in BlockHeights : h < k} = {h \in BlockHeights : h < g + 1}
  <2>1. ASSUME NEW h \in BlockHeights PROVE h < k <=> h < g + 1
    <3>1. h \in Nat /\ (g < h => k <= h)
      BY DEF IsNext
    <3> QED
      BY <1>1, <3>1, SMT
  <2> QED
    BY <2>1
<1>3. StartSeq(k) = Upto(g)
  <2>1. StartSeq(k) = SeqOf({h \in BlockHeights : h < k}) /\ Upto(g) = SeqOf({h \in BlockHeights : h < g + 1})
    BY StartSeqOf DEF Upto
  <2> QED
    BY ONLY <1>2, <2>1, Zenon
<1>4. StartSeq(k) \in Nat /\ EndSeq[k] \in Nat /\ MessageCount(k) \in Nat /\ MessageCount(k) = EndSeq[k] - StartSeq(k)
  BY <1>1, StartSeqType, MessageCountType, EndSeqAssumption DEF MessageCount
<1> QED
  BY <1>1, <1>3, <1>4, UptoBlock, SMT

LEMMA DropList ==
  ASSUME NEW E, NEW list \in Seq(E), NEW I \in SUBSET (1 .. Len(list)),
         NEW d, d = IF I # {} THEN Min(I) ELSE 0
  PROVE  Rest(E, list, I, d, SubSeq(list, d + 1, Len(list)))
<1> DEFINE new == SubSeq(list, d + 1, Len(list))
<1>1. PICK n \in Nat : n = Len(list)
  BY SeqLen
<1>2. d \in 0 .. n /\ (d # 0 => d \in I) /\ new \in Seq(E)
  <2>1. d \in 0 .. Len(list) /\ (I # {} => d \in I) /\ SubSeq(list, d + 1, Len(list)) \in Seq(E)
    BY SelectList
  <2> QED
    BY <1>1, <2>1
<1>3. \A i \in d + 1 .. n : list[i] \in E
  BY <1>1, <1>2, SMT
<1>4. /\ Len(SubSeq(list, d + 1, n)) = IF d + 1 <= n THEN n - (d + 1) + 1 ELSE 0
      /\ \A i \in 1 .. n - (d + 1) + 1 : SubSeq(list, d + 1, n)[i] = list[(d + 1) + i - 1]
  <2>1. d + 1 \in Int /\ n \in Int
    BY <1>2, SMT
  <2> QED
    BY ONLY <1>3, <2>1, SeqSub
<1>5. /\ n - (d + 1) + 1 = n - d /\ (~(d + 1 <= n) => n - d = 0)
      /\ \A i \in 1 .. n - d : (d + 1) + i - 1 = d + i /\ d + i \in 1 .. n
  BY <1>2, SMT
<1>6. new = SubSeq(list, d + 1, n)
  BY <1>1
<1> HIDE DEF new
<1>7. Len(new) = n - d /\ \A i \in 1 .. n - d : new[i] = list[d + i] /\ d + i \in 1 .. n
  BY ONLY <1>4, <1>5, <1>6, Zenon
<1>8. new # <<>> => list # <<>> /\ Last(new) = Last(list)
  <2>1. new # <<>> => n - d > 0
    BY <1>2, <1>7, SeqEmpty, SMT
  <2>2. n - d > 0 => n - d \in 1 .. n - d /\ d + (n - d) = n /\ n > 0
    BY <1>2, SMT
  <2>3. n > 0 => list # <<>>
    BY <1>1, SMT
  <2> QED
    BY <1>1, <1>7, <2>1, <2>2, <2>3 DEF Last
<1>9. Rest(E, list, I, d, new)
  BY <1>1, <1>2, <1>7, <1>8 DEF Rest
<1> QED
  BY <1>9 DEF new

\* The status of a height that is in a list.
LEMMA StatusFound ==
  ASSUME NEW list \in Seq(ReceiveStatus), NEW h
  PROVE  /\ In(list, h) <=> indexForHeight(list, h) # 0
         /\ In(list, h) => \E i \in 1 .. Len(list) :
                             /\ list[i] = getReceiveStatusForHeight(list, h) /\ list[i].height = h
<1> DEFINE I == {i \in 1 .. Len(list) : list[i].height = h}
<1>1. indexForHeight(list, h) = IF I # {} THEN Min(I) ELSE 0
  BY DEF indexForHeight, SelectInSeq
<1>2. I \in SUBSET (1 .. Len(list)) /\ (In(list, h) <=> I # {})
  BY DEF In
<1>3. ASSUME I # {} PROVE indexForHeight(list, h) \in I /\ 0 \notin I
  <2>1. I \subseteq Nat /\ 0 \notin I
    BY SMT
  <2>2. Min(I) \in I
    <3> HIDE DEF I
    <3> QED
      BY <1>3, <2>1, NatMin
  <2> QED
    BY <1>1, <1>3, <2>1, <2>2
<1>4. In(list, h) <=> indexForHeight(list, h) # 0
  BY <1>1, <1>2, <1>3
<1>5. In(list, h) => /\ indexForHeight(list, h) \in 1 .. Len(list)
                     /\ list[indexForHeight(list, h)].height = h
                     /\ list[indexForHeight(list, h)] = getReceiveStatusForHeight(list, h)
  BY <1>2, <1>3, <1>4 DEF getReceiveStatusForHeight
<1> QED
  BY <1>4, <1>5

LEMMA MarkedFull == \A r \in FullMessages : [r EXCEPT !.sent = TRUE] \in FullMessages
BY DEF FullMessages, RelayMessage, Whole

\* While one goroutine is there, the other one is at none of these places.
LEMMA OtherWaits ==
  ASSUME TypeInv, DeliveryInv, ~Preemptive, NEW b, NEW c, Process(b, c),
         NEW p \in Procs, MayRun(p), pc[p] \in Holding, pc[p] = "handle" => mtx = "none"
  PROVE  /\ slices.mon = <<>> /\ slices.fin = <<>> /\ once
         /\ \A q \in Procs \ {p} : pc[q] \in {"idle", "handle", "report", "resync"}
         /\ pc["recv"] # "append"
<1>1. slices.mon = <<>> /\ slices.fin = <<>>
  BY DEF MayRun, Procs
<1>2. once
  BY DEF Process, Fresh, Holding, Procs
<1>3. pc[p] # "handle" => mtx = p
  BY DEF DeliveryInv, Locked, Process, At, Holding
<1>4. ASSUME NEW q \in Procs \ {p} PROVE pc[q] \in {"idle", "handle", "report", "resync"}
  <2>1. pc[q] \in Waiting
    BY DEF MayRun
  <2>2. mtx # q
    BY <1>3, <1>4 DEF Procs
  <2>3. pc[q] \notin {"send", "update"} /\ ~loc[q].bu
    BY <2>2 DEF DeliveryInv, Locked
  <2>4. pc[q] # "addproof"
    BY <2>3 DEF Process, At
  <2> QED
    BY <2>1, <2>3, <2>4 DEF Waiting
<1>5. pc["recv"] # "append"
  BY <1>4 DEF Procs, Holding
<1> QED
  BY <1>1, <1>2, <1>4, <1>5

\* A message that goes out.
LEMMA SentTransactions ==
  ASSUME txs \in Seq(FullTransactions), NEW rm \in FullMessages, Relay(rm.id, rm.msg)
  PROVE  txs' \in Seq(FullTransactions)
<1> DEFINE tx == [st |-> "pool", id |-> rm.id, msg |-> rm.msg, code |-> NoCode]
<1>1. rm.id \in Id /\ rm.msg \in Message /\ Whole(rm.msg)
  BY DEF FullMessages, RelayMessage
<1>2. tx \in Transaction /\ tx.msg = rm.msg
  BY <1>1 DEF Transaction, States, NoCode
<1>3. tx \in FullTransactions
  BY <1>1, <1>2 DEF FullTransactions
<1> HIDE DEF tx
<1>4. txs' = Append(txs, tx)
  BY DEF Relay, tx
<1> QED
  BY <1>3, <1>4, SeqAppend

\* Between two messages the link is not behind a status of a block it has passed.
LEMMA NotBehind ==
  ASSUME NEW b \in BlockHeights, NEW c \in Nat, NEW pos \in Position, Between(b, c, pos),
         NEW rs, Said(b, c, rs), rs.height <= pos.height
  PROVE  rs.seq <= pos.rxSeq
<1>1. rs.height \in BlockHeights /\ rs.seq \in Int /\ pos.rxSeq \in Int /\ pos.height \in BlockHeights
  BY DEF Said, ReceiveStatus, Between, Position
<1>2. EndSeq[rs.height] <= EndSeq[pos.height] /\ EndSeq[rs.height] \in Nat /\ EndSeq[b] \in Nat
  BY <1>1, EndSeqGrows
<1> QED
  BY <1>1, <1>2 DEF Said, Counted, Between

LEMMA StatusOf ==
  ASSUME NEW b, NEW c, NEW list, Statuses(b, c, list), NEW k \in BlockHeights, In(list, k),
         NEW rs, rs = getReceiveStatusForHeight(list, k)
  PROVE  Said(b, c, rs) /\ rs.height = k /\ rs # NoStatus
<1>1. list \in Seq(ReceiveStatus)
  BY DEF Statuses
<1>2. PICK i \in 1 .. Len(list) : list[i] = rs /\ list[i].height = k
  BY <1>1, StatusFound
<1> QED
  BY <1>2, HeightIsInt, SMT DEF Statuses, NoStatus

\* While messages are looked for, the receiver has them.
LEMMA ProofFound ==
  ASSUME TypeInv, NEW b \in BlockHeights, NEW c \in Nat, Process(b, c),
         NEW p \in Procs, pc[p] = "proof", bls.rxSeq < loc[p].seq
  PROVE  ~Skips(b, c) /\ NextProof # NoItem
<1> DEFINE k == rmi.bu
<1>1. AtProof(b, c, loc[p], bls, brss, rmi) /\ k \in BlockHeights /\ c < k
  BY DEF Process, At, Target
<1>2. bls \in Position /\ brss \in Seq(ReceiveStatus)
  BY DEF TypeInv, TypeOK, LinkTypeOK, ReceiverTypeOK
<1>3. bls.rxSeq \in Int /\ EndSeq[b] \in Nat /\ EndSeq[k] \in Nat
  BY <1>1, <1>2, PositionIs, EndSeqGrows
<1>4. ~Skips(b, c)
  BY <1>1, <1>3, SMT DEF AtProof, Ahead, Counted
<1>5. PICK rs : rs = getReceiveStatusForHeight(brss, k)
  OBVIOUS
<1>6. Said(b, c, rs) /\ rs.height = k /\ rs # NoStatus
  <2>1. Statuses(b, c, brss) /\ In(brss, k)
    BY <1>1 DEF AtProof, Process, Telling
  <2> HIDE DEF k
  <2> QED
    BY <1>1, <1>5, <2>1, StatusOf, SMT
<1>7. bls.rxSeq # rs.seq /\ bls.height = k
  BY <1>1, <1>3, <1>4, <1>6, SMT DEF Said, Counted, AtProof
<1>8. NextProof.height = k
  BY <1>5, <1>6, <1>7 DEF NextProof, BuildMessageProof
<1> QED
  BY <1>1, <1>4, <1>8, HeightIsInt, SMT DEF NoItem

\* The first proof of a block's messages.
LEMMA FirstProof ==
  ASSUME NEW b \in BlockHeights, NEW c \in Nat, Statuses(b, c, brss), ~Skips(b, c),
         NEW k \in BlockHeights, In(brss, k), NEW pos, pos.height = k, pos.rxSeq = StartSeq(k),
         StartSeq(k) < EndSeq[k], BlockUpdateSize <= TxSizeLimit,
         NEW m, m = BuildMessageProof(pos, TxSizeLimit - BlockUpdateSize)
  PROVE  m.first = 1 /\ Proves(k, m.last) /\ m.height = k /\ m.rxSeq = StartSeq(k) + m.last
<1> DEFINE cnt == MessageCount(k)
           limit == TxSizeLimit - BlockUpdateSize
           rs == getReceiveStatusForHeight(brss, k)
           over(o) == {i \in (o + 1) .. (cnt - 1) : limit < ProofSize(i - o)}
           last(o) == IF over(o) = {} THEN cnt ELSE Min(over(o))
<1>1. Said(b, c, rs) /\ rs.height = k /\ rs # NoStatus
  BY StatusOf, SMT
<1>2. rs.seq = EndSeq[k]
  BY <1>1 DEF Said, Counted
<1>3. EndSeq[k] \in Nat /\ StartSeq(k) \in Nat /\ cnt = EndSeq[k] - StartSeq(k)
  BY StartSeqType, EndSeqGrows DEF MessageCount
<1>4. cnt \in Nat /\ 1 <= cnt /\ pos.rxSeq - (rs.seq - cnt) = 0 /\ pos.rxSeq # rs.seq
  BY <1>2, <1>3, SMT
<1>5. m = LET o == pos.rxSeq - (rs.seq - cnt)
          IN  [first |-> o + 1, last |-> last(o), height |-> pos.height, rxSeq |-> pos.rxSeq + last(o)]
  BY <1>1, <1>4 DEF BuildMessageProof
<1>6. PICK n : n = last(0)
  OBVIOUS
<1>7. m = [first |-> 0 + 1, last |-> n, height |-> pos.height, rxSeq |-> pos.rxSeq + n]
  BY <1>4, <1>5, <1>6, ZenonT(60)
<1>8. \A i \in 1 .. cnt - 1 : i \in over(0) <=> limit < i * MessageSize
  BY <1>4, SMT DEF ProofSize
<1>9. over(0) \subseteq 1 .. cnt - 1
  BY <1>4, SMT
<1> HIDE DEF last, over
<1>10. /\ n \in 1 .. cnt /\ (n < cnt => n \in over(0)) /\ (n # 1 => n - 1 \notin over(0) /\ n - 1 \in 1 .. cnt - 1)
  <2>1. CASE over(0) = {}
    BY <1>4, <1>6, <2>1, SMT DEF last
  <2>2. CASE over(0) # {}
    <3>1. over(0) \subseteq Nat
      BY <1>9, SMT
    <3>2. n = Min(over(0))
      BY <1>6, <2>2 DEF last
    <3>3. n \in over(0) /\ \A i \in over(0) : n <= i
      BY <2>2, <3>1, <3>2, NatMin
    <3> QED
      BY <1>4, <1>9, <3>3, SMT
  <2> QED
    BY <2>1, <2>2
<1>11. /\ MessageSize \in Nat /\ BlockUpdateSize \in Nat /\ TxSizeLimit \in Nat
  BY ReceiverAssumption, LinkAssumption
<1>12. n < cnt => TxSizeLimit < BlockUpdateSize + n * MessageSize
  <2>1. SUFFICES ASSUME n < cnt PROVE TxSizeLimit < BlockUpdateSize + n * MessageSize
    OBVIOUS
  <2>2. n \in 1 .. cnt - 1
    BY <1>4, <1>10, <2>1, SMT
  <2>3. limit < n * MessageSize /\ n * MessageSize \in Int
    BY <1>8, <1>10, <1>11, <2>1, <2>2, SMT
  <2> QED
    BY <1>11, <2>3, SMT
<1>13. BlockUpdateSize + n * MessageSize <= TxSizeLimit + MessageSize
  <2>1. CASE n = 1
    BY <1>11, <2>1, SMT
  <2>2. CASE n # 1
    <3>1. n - 1 \in 1 .. cnt - 1 /\ n - 1 \notin over(0)
      BY <1>10, <2>2
    <3>2. ~(limit < (n - 1) * MessageSize)
      BY <1>8, <3>1
    <3>3. (n - 1) * MessageSize = n * MessageSize - MessageSize /\ n * MessageSize \in Int
      BY <1>10, <1>11, SMT
    <3> QED
      BY <1>11, <3>2, <3>3, SMT
  <2> QED
    BY <2>1, <2>2
<1>14. Proves(k, n)
  BY <1>10, <1>12, <1>13 DEF Proves, Fits, ProofSize
<1> QED
  BY <1>7, <1>14, SMT
=============================================================================
