------------------------------ MODULE LinkCalm -------------------------------
(***************************************************************************)
(* What the steps of a relay that is left alone keep, until it is killed:  *)
(* what is built, sent, waited for and executed are runs of consecutive    *)
(* blocks that meet.                                                       *)
(***************************************************************************)
EXTENDS LinkLemmas

\* The steps below are for Zenon where they do not name another prover.
USE Zenon

-----------------------------------------------------------------------------
(***************************************************************************)
(* Lists of messages.                                                      *)
(***************************************************************************)
LEMMA CoveringPicks ==
  ASSUME NEW list, NEW new, NEW m, NEW g, NEW h, Picks(list, new, m, g), Covering(list, g, h)
  PROVE  /\ Covering(new, g, h)
         /\ \A k : Has(new, k) => Has(list, k)
         /\ \A k : g < k /\ Has(list, k) => Has(new, k)
<1>1. /\ \A i \in 1 .. Len(new) : /\ m[i] \in 1 .. Len(list)
                                  /\ new[i].id = list[m[i]].id /\ new[i].msg = list[m[i]].msg
      /\ \A i, j \in 1 .. Len(new) : i < j => m[i] < m[j]
      /\ \A j \in 1 .. Len(list) : g < list[j].msg.bu => \E i \in 1 .. Len(new) : m[i] = j
  BY DEF Picks
<1>2. /\ \A i \in 1 .. Len(list) : list[i].id = Label(list[i].msg.bu) /\ list[i].msg.bu <= h
      /\ \A i, j \in 1 .. Len(list) : i < j => list[i].msg.bu < list[j].msg.bu
      /\ \A k \in BlockHeights : g < k /\ k <= h => Has(list, k)
  BY DEF Covering
<1>3. ASSUME NEW k, Has(new, k) PROVE Has(list, k)
  <2>1. PICK i \in 1 .. Len(new) : new[i].msg.bu = k
    BY <1>3 DEF Has
  <2>2. m[i] \in 1 .. Len(list) /\ new[i].msg = list[m[i]].msg
    BY <1>1
  <2>3. list[m[i]].msg.bu = k
    BY ONLY <2>1, <2>2, Zenon
  <2> QED
    BY <2>2, <2>3 DEF Has
<1>4. ASSUME NEW k, g < k, Has(list, k) PROVE Has(new, k)
  <2>1. PICK j \in 1 .. Len(list) : list[j].msg.bu = k
    BY <1>4 DEF Has
  <2>2. g < list[j].msg.bu
    BY ONLY <1>4, <2>1, Zenon
  <2>3. PICK i \in 1 .. Len(new) : m[i] = j
    BY <1>1, <2>2
  <2>4. new[i].msg = list[m[i]].msg
    BY <1>1
  <2>5. new[i].msg.bu = k
    BY ONLY <2>1, <2>3, <2>4, Zenon
  <2> QED
    BY <2>5 DEF Has
<1>5. ASSUME NEW i \in 1 .. Len(new) PROVE new[i].id = Label(new[i].msg.bu) /\ new[i].msg.bu <= h
  <2>1. m[i] \in 1 .. Len(list) /\ new[i].id = list[m[i]].id /\ new[i].msg = list[m[i]].msg
    BY <1>1
  <2>2. list[m[i]].id = Label(list[m[i]].msg.bu) /\ list[m[i]].msg.bu <= h
    BY <1>2, <2>1
  <2> QED
    BY ONLY <2>1, <2>2, Zenon
<1>6. \A i, j \in 1 .. Len(new) : i < j => new[i].msg.bu < new[j].msg.bu
  BY <1>1, <1>2
<1>7. \A k \in BlockHeights : g < k /\ k <= h => Has(new, k)
  BY <1>2, <1>4
<1> QED
  BY <1>3, <1>4, <1>5, <1>6, <1>7 DEF Covering

\* An element for the next block joins the list.
LEMMA CoveringAppend ==
  ASSUME NEW E, NEW list \in Seq(E), NEW g, NEW h \in BlockHeights, Covering(list, g, h),
         \A i \in 1 .. Len(list) : list[i].msg.bu \in Int,
         NEW e \in E, NEW k, e.msg.bu = k, e.id = Label(k), IsNext(h, k)
  PROVE  /\ Covering(Append(list, e), g, k)
         /\ \A x : Has(Append(list, e), x) <=> Has(list, x) \/ x = k
<1>1. PICK n \in Nat : n = Len(list)
  BY SeqLen
<1>2. PICK new : new = Append(list, e)
  OBVIOUS
<1>3. Len(new) = n + 1 /\ new[n + 1] = e /\ \A i \in 1 .. n : new[i] = list[i]
  BY <1>1, <1>2, SeqAppend, SMT
<1>4. n + 1 \in 1 .. n + 1 /\ \A i \in 1 .. n + 1 : i \in 1 .. n \/ i = n + 1
  BY SMT
<1>5. k \in BlockHeights /\ h < k /\ \A j \in BlockHeights : h < j => k <= j
  BY DEF IsNext
<1>6. /\ \A i \in 1 .. n : list[i].id = Label(list[i].msg.bu) /\ list[i].msg.bu <= h
      /\ \A i, j \in 1 .. n : i < j => list[i].msg.bu < list[j].msg.bu
      /\ \A j \in BlockHeights : g < j /\ j <= h => Has(list, j)
  BY <1>1 DEF Covering
<1>7. \A i \in 1 .. n : list[i].msg.bu < k /\ list[i].msg.bu <= k
  <2>1. ASSUME NEW x \in Int, x <= h PROVE x < k /\ x <= k
    BY <1>5, <2>1, HeightIsInt, SMT
  <2> QED
    BY <1>1, <1>6, <2>1
<1>8. \A x : Has(new, x) <=> Has(list, x) \/ x = k
  <2>1. ASSUME NEW x, Has(new, x) PROVE Has(list, x) \/ x = k
    <3>1. PICK i \in 1 .. n + 1 : new[i].msg.bu = x
      BY <1>3, <2>1 DEF Has
    <3> QED
      BY <1>1, <1>3, <1>4, <3>1 DEF Has
  <2>2. ASSUME NEW x, Has(list, x) PROVE Has(new, x)
    <3>1. PICK i \in 1 .. n : list[i].msg.bu = x
      BY <1>1, <2>2 DEF Has
    <3>2. i \in 1 .. n + 1
      BY SMT
    <3>3. i \in 1 .. Len(new) /\ new[i].msg.bu = x
      BY <1>3, <3>1, <3>2
    <3> QED
      BY <3>3 DEF Has
  <2>3. Has(new, k)
    <3>1. n + 1 \in 1 .. Len(new) /\ new[n + 1].msg.bu = k
      BY <1>3, <1>4
    <3> QED
      BY <3>1 DEF Has
  <2> QED
    BY <2>1, <2>2, <2>3
<1>9. \A i \in 1 .. Len(new) : new[i].id = Label(new[i].msg.bu) /\ new[i].msg.bu <= k
  <2>1. k <= k
    BY <1>5, SMT
  <2> QED
    BY <1>3, <1>4, <1>6, <1>7, <2>1
<1>10. ASSUME NEW i \in 1 .. Len(new), NEW j \in 1 .. Len(new), i < j
       PROVE  new[i].msg.bu < new[j].msg.bu
  <2>1. i \in 1 .. n /\ (j \in 1 .. n \/ j = n + 1)
    BY <1>3, <1>10, SMT
  <2> QED
    BY <1>3, <1>6, <1>7, <1>10, <2>1
<1>11. ASSUME NEW j \in BlockHeights, g < j, j <= k PROVE Has(new, j)
  <2>1. j <= h \/ j = k
    BY <1>5, <1>11, HeightIsInt, SMT
  <2> QED
    BY <1>6, <1>8, <1>11, <2>1
<1> QED
  BY <1>2, <1>8, <1>9, <1>10, <1>11 DEF Covering

\* The first of the messages above g is for the next block.
LEMMA CoveringHead ==
  ASSUME NEW list \in Seq(FullMessages), list # <<>>, NEW g \in BlockHeights, NEW h \in BlockHeights,
         Covering(list, g, h), Above(list, g), NEW k, k = Head(list).msg.bu
  PROVE  /\ Head(list).id = Label(k) /\ IsNext(g, k) /\ k <= h
         /\ Covering(Tail(list), k, h) /\ Above(Tail(list), k)
<1>1. PICK n \in Nat : n = Len(list)
  BY SeqLen
<1>2. PICK new : new = Tail(list)
  OBVIOUS
<1>3. /\ n # 0 /\ Head(list) = list[1] /\ Len(new) = n - 1
      /\ \A i \in 1 .. n - 1 : new[i] = list[i + 1] /\ i + 1 \in 1 .. n
  BY <1>1, <1>2, SeqEmpty, SeqHeadTail, SMT
<1>4. 1 \in 1 .. n /\ \A i \in 1 .. n : i = 1 \/ (1 < i /\ i - 1 \in 1 .. n - 1 /\ (i - 1) + 1 = i)
  BY <1>3, SMT
<1>5. /\ \A i \in 1 .. n : list[i].id = Label(list[i].msg.bu) /\ list[i].msg.bu <= h
      /\ \A i, j \in 1 .. n : i < j => list[i].msg.bu < list[j].msg.bu
      /\ \A j \in BlockHeights : g < j /\ j <= h => Has(list, j)
      /\ \A i \in 1 .. n : g < list[i].msg.bu
  BY <1>1 DEF Covering, Above
<1>6. k \in BlockHeights /\ k = list[1].msg.bu
  <2>1. list[1] \in FullMessages
    BY <1>1, <1>4, SeqElement, SMT
  <2> QED
    BY <1>3, <2>1 DEF FullMessages, Whole
<1>7. Head(list).id = Label(k) /\ k <= h /\ g < k
  BY <1>3, <1>4, <1>5, <1>6
<1>8. ASSUME NEW j \in BlockHeights, g < j PROVE k <= j
  <2>1. CASE j <= h
    <3>1. PICK i \in 1 .. n : list[i].msg.bu = j
      BY <1>1, <1>5, <1>8, <2>1 DEF Has
    <3>2. k = j \/ k < j
      BY <1>4, <1>5, <1>6, <3>1
    <3> QED
      BY <1>6, <3>2, HeightIsInt, SMT
  <2>2. CASE ~(j <= h)
    BY <1>6, <1>7, <2>2, HeightIsInt, SMT
  <2> QED
    BY <2>1, <2>2
<1>9. IsNext(g, k)
  BY <1>6, <1>7, <1>8 DEF IsNext
<1>10. Above(new, k)
  <2>1. ASSUME NEW i \in 1 .. n - 1 PROVE k < new[i].msg.bu
    <3>1. 1 < i + 1
      BY SMT
    <3>2. i + 1 \in 1 .. n /\ new[i] = list[i + 1]
      BY <1>3
    <3>3. list[1].msg.bu < list[i + 1].msg.bu
      BY <1>4, <1>5, <3>1, <3>2
    <3> QED
      BY ONLY <1>6, <3>2, <3>3, Zenon
  <2> QED
    BY <1>3, <2>1 DEF Above
<1>11. \A i \in 1 .. Len(new) : new[i].id = Label(new[i].msg.bu) /\ new[i].msg.bu <= h
  BY <1>3, <1>5
<1>12. ASSUME NEW i \in 1 .. Len(new), NEW j \in 1 .. Len(new), i < j
       PROVE  new[i].msg.bu < new[j].msg.bu
  <2>1. i + 1 < j + 1
    BY <1>3, <1>12, SMT
  <2> QED
    BY <1>3, <1>5, <1>12, <2>1
<1>13. ASSUME NEW j \in BlockHeights, k < j, j <= h PROVE Has(new, j)
  <2>1. g < j /\ j # k
    BY <1>6, <1>7, <1>13, HeightIsInt, SMT
  <2>2. PICK i \in 1 .. n : list[i].msg.bu = j
    BY <1>1, <1>5, <1>13, <2>1 DEF Has
  <2>3. i # 1
    BY <1>6, <2>1, <2>2
  <2>4. i - 1 \in 1 .. Len(new) /\ new[i - 1] = list[i]
    BY <1>3, <1>4, <2>3
  <2> QED
    BY <2>2, <2>4 DEF Has
<1> QED
  BY <1>2, <1>7, <1>9, <1>10, <1>11, <1>12, <1>13 DEF Covering

LEMMA SuffixIs ==
  ASSUME NEW E, NEW list \in Seq(E), NEW d \in 0 .. Len(list), NEW new, new = SubSeq(list, d + 1, Len(list))
  PROVE  Suffix(list, new, d)
<1>1. PICK n \in Nat : n = Len(list)
  BY SeqLen
<1>2. \A i \in d + 1 .. n : list[i] \in E
  BY <1>1, SMT
<1>3. d \in 0 .. n /\ d + 1 \in Int /\ n \in Int
  BY <1>1, SMT
<1>4. /\ Len(SubSeq(list, d + 1, n)) = IF d + 1 <= n THEN n - (d + 1) + 1 ELSE 0
      /\ \A i \in 1 .. n - (d + 1) + 1 : SubSeq(list, d + 1, n)[i] = list[(d + 1) + i - 1]
  BY ONLY <1>2, <1>3, SeqSub
<1>5. /\ n - (d + 1) + 1 = n - d /\ (~(d + 1 <= n) => n - d = 0)
      /\ \A i \in 1 .. n - d : (d + 1) + i - 1 = d + i /\ d + i \in 1 .. n
  BY <1>3, SMT
<1>6. Len(new) = n - d /\ \A i \in 1 .. n - d : new[i] = list[d + i] /\ d + i \in 1 .. n
  BY <1>1, <1>4, <1>5
<1> QED
  BY <1>1, <1>3, <1>6 DEF Suffix

LEMMA SuffixPicks ==
  ASSUME NEW list, NEW new, NEW d, NEW g, Len(list) \in Nat, Suffix(list, new, d),
         \A j \in 1 .. d : ~(g < list[j].msg.bu)
  PROVE  \E m : Picks(list, new, m, g)
<1> DEFINE m == [i \in 1 .. Len(new) |-> d + i]
<1>1. /\ d \in 0 .. Len(list) /\ Len(new) = Len(list) - d
      /\ \A i \in 1 .. Len(new) : new[i] = list[d + i] /\ d + i \in 1 .. Len(list)
  BY DEF Suffix
<1>2. \A i \in 1 .. Len(new) : m[i] = d + i
  OBVIOUS
<1> HIDE DEF m
<1>3. ASSUME NEW i \in 1 .. Len(new), NEW j \in 1 .. Len(new), i < j PROVE m[i] < m[j]
  <2>1. m[i] = d + i /\ m[j] = d + j
    BY <1>2
  <2>2. d + i < d + j
    BY <1>1, <1>3, SMT
  <2> QED
    BY ONLY <2>1, <2>2, Zenon
<1>4. ASSUME NEW j \in 1 .. Len(list), g < list[j].msg.bu PROVE \E i \in 1 .. Len(new) : m[i] = j
  <2>1. j \notin 1 .. d
    BY <1>4
  <2>2. j - d \in 1 .. Len(new) /\ d + (j - d) = j
    BY <1>1, <2>1, SMT
  <2> QED
    BY <1>2, <2>2
<1>5. ASSUME NEW i \in 1 .. Len(new)
      PROVE  m[i] \in 1 .. Len(list) /\ new[i].id = list[m[i]].id /\ new[i].msg = list[m[i]].msg
  BY <1>1, <1>2
<1>6. Picks(list, new, m, g)
  BY <1>3, <1>4, <1>5 DEF Picks
<1> QED
  BY <1>6

LEMMA RemoveAtPicks ==
  ASSUME NEW E, NEW list \in Seq(E), NEW i \in 1 .. Len(list), NEW g, ~(g < list[i].msg.bu),
         NEW new, new = RemoveAt(list, i)
  PROVE  Removed(list, new, i, g)
<1>1. PICK n \in Nat : n = Len(list)
  BY SeqLen
<1> DEFINE at(j) == IF j < i THEN j ELSE j + 1
           m == [j \in 1 .. Len(new) |-> at(j)]
<1>2. Len(new) = n - 1 /\ \A j \in 1 .. n - 1 : new[j] = list[at(j)] /\ at(j) \in 1 .. n
  <2>1. PICK s1 : s1 = SubSeq(list, 1, i - 1)
    OBVIOUS
  <2>2. PICK s2 : s2 = SubSeq(list, i + 1, n)
    OBVIOUS
  <2>3. i \in 1 .. n /\ i \in Int
    BY <1>1, SMT
  <2>4. (\A j \in 1 .. i - 1 : list[j] \in E) /\ \A j \in i + 1 .. n : list[j] \in E
    BY <1>1, <2>3, SMT
  <2>5. s1 \in Seq(E) /\ Len(s1) = i - 1 /\ \A j \in 1 .. i - 1 : s1[j] = list[j]
    <3>1. /\ s1 \in Seq(E) /\ Len(s1) = IF 1 <= i - 1 THEN (i - 1) - 1 + 1 ELSE 0
          /\ \A j \in 1 .. (i - 1) - 1 + 1 : s1[j] = list[1 + j - 1]
      BY <2>1, <2>3, <2>4, SeqSub, SMT
    <3>2. (\A j \in 1 .. i - 1 : 1 + j - 1 = j) /\ (i - 1) - 1 + 1 = i - 1 /\ (~(1 <= i - 1) => i - 1 = 0)
      BY <2>3, SMT
    <3> QED
      BY <3>1, <3>2
  <2>6. s2 \in Seq(E) /\ Len(s2) = n - i /\ \A j \in 1 .. n - i : s2[j] = list[i + j]
    <3>1. /\ s2 \in Seq(E) /\ Len(s2) = IF i + 1 <= n THEN n - (i + 1) + 1 ELSE 0
          /\ \A j \in 1 .. n - (i + 1) + 1 : s2[j] = list[(i + 1) + j - 1]
      BY <2>2, <2>3, <2>4, SeqSub, SMT
    <3>2. (\A j \in 1 .. n - i : (i + 1) + j - 1 = i + j) /\ n - (i + 1) + 1 = n - i /\ (~(i + 1 <= n) => n - i = 0)
      BY <2>3, SMT
    <3> QED
      BY <3>1, <3>2
  <2>7. /\ Len(s1 \o s2) = Len(s1) + Len(s2)
        /\ \A j \in 1 .. Len(s1) + Len(s2) :
             (s1 \o s2)[j] = IF j <= Len(s1) THEN s1[j] ELSE s2[j - Len(s1)]
    BY <2>5, <2>6, SeqConcat
  <2>8. new = s1 \o s2
    BY <1>1, <2>1, <2>2 DEF RemoveAt
  <2>9. ASSUME NEW j \in 1 .. n - 1 PROVE new[j] = list[at(j)] /\ at(j) \in 1 .. n
    <3>1. new[j] = IF j <= i - 1 THEN s1[j] ELSE s2[j - (i - 1)]
      <4>1. Len(s1) + Len(s2) = n - 1
        BY <2>3, <2>5, <2>6, SMT
      <4> QED
        BY <2>5, <2>7, <2>8, <4>1
    <3>2. CASE j < i
      BY <2>3, <2>5, <3>1, <3>2, SMT
    <3>3. CASE ~(j < i)
      <4>1. j - (i - 1) \in 1 .. n - i /\ i + (j - (i - 1)) = j + 1 /\ ~(j <= i - 1) /\ j + 1 \in 1 .. n
        BY <2>3, <3>3, SMT
      <4> QED
        BY <2>6, <3>1, <3>3, <4>1
    <3> QED
      BY <3>2, <3>3
  <2>10. Len(new) = n - 1
    BY <2>3, <2>5, <2>6, <2>7, <2>8, SMT
  <2> QED
    BY <2>9, <2>10
<1>3. \A j \in 1 .. n - 1 : at(j) # i /\ m[j] = at(j)
  BY <1>1, <1>2, SMT
<1>4. ASSUME NEW k \in 1 .. n, k # i PROVE \E j \in 1 .. n - 1 : at(j) = k
  <2>1. CASE k < i
    <3>1. k \in 1 .. n - 1 /\ at(k) = k
      BY <1>1, <2>1, SMT
    <3> QED
      BY <3>1
  <2>2. CASE ~(k < i)
    <3>1. k - 1 \in 1 .. n - 1 /\ at(k - 1) = k
      BY <1>1, <1>4, <2>2, SMT
    <3> QED
      BY <3>1
  <2> QED
    BY <2>1, <2>2
<1>5. ASSUME NEW j \in 1 .. n - 1, NEW k \in 1 .. n - 1, j < k PROVE at(j) < at(k)
  BY <1>1, <1>5, SMT
<1> HIDE DEF at, m
<1>6. Picks(list, new, m, g)
  <2>1. \A j \in 1 .. Len(new) : /\ m[j] \in 1 .. Len(list)
                                  /\ new[j].id = list[m[j]].id /\ new[j].msg = list[m[j]].msg
    BY <1>1, <1>2, <1>3
  <2>2. ASSUME NEW j \in 1 .. Len(new), NEW k \in 1 .. Len(new), j < k PROVE m[j] < m[k]
    <3>1. j \in 1 .. n - 1 /\ k \in 1 .. n - 1
      BY <1>2
    <3>2. m[j] = at(j) /\ m[k] = at(k) /\ at(j) < at(k)
      BY <1>3, <1>5, <2>2, <3>1
    <3> QED
      BY ONLY <3>2, Zenon
  <2>3. ASSUME NEW k \in 1 .. Len(list), g < list[k].msg.bu PROVE \E j \in 1 .. Len(new) : m[j] = k
    <3>1. k # i
      BY <2>3
    <3>2. PICK j \in 1 .. n - 1 : at(j) = k
      BY <1>1, <1>4, <3>1
    <3>3. j \in 1 .. Len(new) /\ m[j] = k
      BY <1>2, <1>3, <3>2
    <3> QED
      BY <3>3
  <2> QED
    BY <2>1, <2>2, <2>3 DEF Picks
<1>7. \A j \in 1 .. Len(new) : \E k \in 1 .. Len(list) : new[j] = list[k] /\ k # i
  BY <1>1, <1>2, <1>3
<1>8. ASSUME NEW k \in 1 .. Len(list), k # i PROVE \E j \in 1 .. Len(new) : new[j] = list[k]
  <2>1. PICK j \in 1 .. n - 1 : at(j) = k
    BY <1>1, <1>4, <1>8
  <2>2. j \in 1 .. Len(new) /\ new[j] = list[k]
    BY <1>2, <2>1
  <2> QED
    BY <2>2
<1> QED
  BY <1>6, <1>7, <1>8 DEF Removed

\* The blocks of messages.
LEMMA BlockOf ==
  ASSUME NEW list \in Seq(FullMessages)
  PROVE  /\ Len(list) \in Nat
         /\ \A i \in 1 .. Len(list) : list[i] \in FullMessages /\ list[i].msg.bu \in BlockHeights
<1>1. Len(list) \in Nat
  BY SeqLen
<1>2. ASSUME NEW i \in 1 .. Len(list) PROVE list[i] \in FullMessages
  BY SeqElement
<1> QED
  BY <1>1, <1>2 DEF FullMessages, Whole

LEMMA UnsentCovers ==
  ASSUME NEW list \in Seq(FullMessages), NEW f \in BlockHeights, NEW t \in BlockHeights,
         Covering(list, f, t), \A i \in 1 .. Len(list) : list[i].sent <=> list[i].msg.bu <= f
  PROVE  Covering(Unsent(list), f, t) /\ Above(Unsent(list), f)
<1> DEFINE I == {i \in 1 .. Len(list) : ~list[i].sent}
<1>1. PICK n \in Nat : n = Len(list)
  BY BlockOf
<1>2. PICK new : new = Unsent(list)
  OBVIOUS
<1>3. new = IF (IF I # {} THEN Min(I) ELSE 0) = 0 THEN <<>>
            ELSE SubSeq(list, IF I # {} THEN Min(I) ELSE 0, Len(list))
  BY <1>2 DEF Unsent, SelectInSeq
<1>4. I \subseteq 1 .. n /\ (\A i \in I : ~list[i].sent) /\ \A i \in 1 .. n : i \notin I => list[i].sent
  BY <1>1
<1> HIDE DEF I
<1>5. PICK d \in 0 .. n : /\ new = SubSeq(list, d + 1, Len(list))
                          /\ d < n => d + 1 \in I
                          /\ \A j \in 1 .. d : j \notin I
  <2>1. CASE I = {}
    <3>1. SubSeq(list, n + 1, n) = <<>>
      BY SeqSubEmpty, SMT
    <3>2. n \in 0 .. n /\ ~(n < n)
      BY SMT
    <3> QED
      BY <1>1, <1>3, <2>1, <3>1, <3>2
  <2>2. CASE I # {}
    <3>1. Min(I) \in I /\ \A j \in I : Min(I) <= j
      <4>1. I \subseteq Nat
        BY <1>4, SMT
      <4> QED
        BY <2>2, <4>1, NatMin
    <3>2. PICK k : k = Min(I)
      OBVIOUS
    <3>3. k \in 1 .. n /\ k \in I /\ \A j \in I : k <= j
      BY <1>4, <3>1, <3>2
    <3>4. k - 1 \in 0 .. n /\ (k - 1) + 1 = k /\ k # 0 /\ \A j \in 1 .. k - 1 : ~(k <= j)
      BY <3>3, SMT
    <3>5. new = SubSeq(list, k, Len(list))
      BY <1>3, <2>2, <3>2, <3>4
    <3> QED
      BY <3>3, <3>4, <3>5
  <2> QED
    BY <2>1, <2>2
<1>6. d \in 0 .. Len(list) /\ \A j \in 1 .. d : j \in 1 .. n
  BY <1>1, SMT
<1>7. Suffix(list, new, d)
  BY <1>5, <1>6, SuffixIs
<1>8. \A j \in 1 .. d : ~(f < list[j].msg.bu)
  <2>1. \A j \in 1 .. d : list[j].msg.bu <= f /\ list[j].msg.bu \in BlockHeights
    BY <1>1, <1>4, <1>5, <1>6, BlockOf
  <2>2. \A h \in BlockHeights : h <= f => ~(f < h)
    BY HeightIsInt, SMT
  <2> QED
    BY <2>1, <2>2
<1>9. Covering(new, f, t)
  <2>1. \E m : Picks(list, new, m, f)
    BY <1>1, <1>7, <1>8, SuffixPicks
  <2> QED
    BY <2>1, CoveringPicks
<1>10. ASSUME NEW i \in 1 .. Len(new) PROVE f < new[i].msg.bu
  <2>1. new[i] = list[d + i] /\ d + i \in 1 .. n /\ Len(new) = n - d
    BY <1>1, <1>7 DEF Suffix
  <2>2. d < n /\ d + 1 \in 1 .. n /\ (i = 1 \/ d + 1 < d + i)
    BY <2>1, SMT
  <2>3. list[d + 1].msg.bu \in BlockHeights /\ list[d + i].msg.bu \in BlockHeights
    BY <1>1, <2>1, <2>2, BlockOf
  <2>4. ~(list[d + 1].msg.bu <= f)
    BY <1>1, <1>4, <1>5, <2>2
  <2>5. i = 1 \/ list[d + 1].msg.bu < list[d + i].msg.bu
    BY <1>1, <2>1, <2>2 DEF Covering
  <2>6. f < list[d + i].msg.bu
    BY <2>3, <2>4, <2>5, HeightIsInt, SMT
  <2> QED
    BY ONLY <2>1, <2>6, Zenon
<1> QED
  BY <1>2, <1>9, <1>10 DEF Above

\* What a result removes from l.rms is not above the position that it is for.
LEMMA MessagesRemoved ==
  ASSUME NEW list \in Seq(FullMessages), NEW f \in BlockHeights, NEW t, Covering(list, f, t),
         \A i \in 1 .. Len(list) : list[i].bls.height = list[i].msg.bu,
         NEW pos, NEW g \in Int, pos.height = g, g <= f, NEW new, new = removeRelayMessage(list, pos)
  PROVE  /\ Covering(new, f, t)
         /\ \A i \in 1 .. Len(new) : \E j \in 1 .. Len(list) : new[i] = list[j]
         /\ \A k \in BlockHeights : g < k /\ Has(list, k) => Has(new, k)
<1> DEFINE I == {i \in 1 .. Len(list) : list[i].bls.height <= pos.height /\ list[i].bls.rxSeq <= pos.rxSeq}
           d == IF I # {} THEN Min(I) ELSE 0
<1>1. PICK n \in Nat : n = Len(list)
  BY BlockOf
<1>2. new = SubSeq(list, d + 1, Len(list))
  BY DEF removeRelayMessage, DropThrough, SelectInSeq
<1>3. I \in SUBSET (1 .. Len(list)) /\ \A i \in I : list[i].bls.height <= pos.height
  OBVIOUS
<1> HIDE DEF I
<1>4. d \in 0 .. Len(list) /\ (I # {} => d \in I) /\ (I = {} => d = 0)
  BY <1>3, SelectList
<1> HIDE DEF d
<1>5. Suffix(list, new, d)
  BY <1>2, <1>4, SuffixIs
<1>6. ASSUME NEW j \in 1 .. d, NEW x \in Int, g <= x PROVE ~(x < list[j].msg.bu)
  <2>1. d # 0 /\ d \in 1 .. n /\ j \in 1 .. n /\ (j = d \/ j < d)
    BY <1>1, <1>4, SMT
  <2>2. list[d].msg.bu <= g
    BY <1>1, <1>3, <1>4, <2>1
  <2>3. j = d \/ list[j].msg.bu < list[d].msg.bu
    BY <1>1, <2>1 DEF Covering
  <2>4. list[d].msg.bu \in BlockHeights /\ list[j].msg.bu \in BlockHeights
    BY <1>1, <2>1, BlockOf
  <2> QED
    BY <1>6, <2>2, <2>3, <2>4, HeightIsInt, SMT
<1>7. Covering(new, f, t)
  <2>1. \A j \in 1 .. d : ~(f < list[j].msg.bu)
    BY <1>6, HeightIsInt
  <2>2. \E m : Picks(list, new, m, f)
    BY <1>1, <1>5, <2>1, SuffixPicks
  <2> QED
    BY <2>2, CoveringPicks
<1>8. \A i \in 1 .. Len(new) : \E j \in 1 .. Len(list) : new[i] = list[j]
  BY <1>5 DEF Suffix
<1>9. ASSUME NEW k \in BlockHeights, g < k, Has(list, k) PROVE Has(new, k)
  <2>1. \A j \in 1 .. d : ~(g < list[j].msg.bu)
    <3>1. g <= g
      BY SMT
    <3> QED
      BY <1>6, <3>1
  <2>2. PICK m : Picks(list, new, m, g)
    BY <1>1, <1>5, <2>1, SuffixPicks
  <2>3. PICK j \in 1 .. Len(list) : list[j].msg.bu = k
    BY <1>9 DEF Has
  <2>4. g < list[j].msg.bu
    BY <1>9, <2>3
  <2>5. PICK i \in 1 .. Len(new) : m[i] = j
    BY <2>2, <2>4 DEF Picks
  <2>6. new[i].msg = list[m[i]].msg
    BY <2>2 DEF Picks
  <2>7. new[i].msg.bu = k
    BY ONLY <2>3, <2>5, <2>6, Zenon
  <2> QED
    BY <2>7 DEF Has
<1> QED
  BY <1>7, <1>8, <1>9

LEMMA LabelIs == \A g, h : Label(g) = Label(h) => g = h
BY DEF Label

LEMMA SameCovers ==
  ASSUME NEW list, NEW new, Same(list, new), NEW g, NEW h, Covering(list, g, h)
  PROVE  Covering(new, g, h) /\ \A k : Has(new, k) <=> Has(list, k)
<1>1. Len(new) = Len(list) /\ \A i \in 1 .. Len(list) : new[i].id = list[i].id /\ new[i].msg.bu = list[i].msg.bu
  BY DEF Same
<1>2. \A k : Has(new, k) <=> Has(list, k)
  <2>1. ASSUME NEW k, Has(new, k) PROVE Has(list, k)
    <3>1. PICK i \in 1 .. Len(list) : new[i].msg.bu = k
      BY <1>1, <2>1 DEF Has
    <3> QED
      BY <1>1, <3>1 DEF Has
  <2>2. ASSUME NEW k, Has(list, k) PROVE Has(new, k)
    <3>1. PICK i \in 1 .. Len(list) : list[i].msg.bu = k
      BY <2>2 DEF Has
    <3>2. i \in 1 .. Len(new) /\ new[i].msg.bu = k
      BY <1>1, <3>1
    <3> QED
      BY <3>2 DEF Has
  <2> QED
    BY <2>1, <2>2
<1>3. ASSUME NEW i \in 1 .. Len(new) PROVE new[i].id = Label(new[i].msg.bu) /\ new[i].msg.bu <= h
  <2>1. new[i].id = list[i].id /\ new[i].msg.bu = list[i].msg.bu
    BY <1>1
  <2>2. list[i].id = Label(list[i].msg.bu) /\ list[i].msg.bu <= h
    BY <1>1 DEF Covering
  <2> QED
    BY ONLY <2>1, <2>2, Zenon
<1>4. ASSUME NEW i \in 1 .. Len(new), NEW j \in 1 .. Len(new), i < j PROVE new[i].msg.bu < new[j].msg.bu
  <2>1. new[i].msg.bu = list[i].msg.bu /\ new[j].msg.bu = list[j].msg.bu
    BY <1>1
  <2>2. list[i].msg.bu < list[j].msg.bu
    BY <1>1, <1>4 DEF Covering
  <2> QED
    BY ONLY <2>1, <2>2, Zenon
<1> QED
  BY <1>2, <1>3, <1>4 DEF Covering

\* sendingStatus is set for the message that is sent, and for no other one.
LEMMA MessageMarked ==
  ASSUME NEW list \in Seq(FullMessages), NEW f \in BlockHeights, NEW t, Covering(list, f, t),
         \A i \in 1 .. Len(list) : list[i].sent <=> list[i].msg.bu <= f,
         NEW k, IsNext(f, k), Has(list, k), NEW rm, rm.id = Label(k), NEW new, new = MarkSent(list, rm)
  PROVE  /\ Same(list, new)
         /\ \A i \in 1 .. Len(new) : new[i].sent <=> new[i].msg.bu <= k
<1> DEFINE I == {i \in 1 .. Len(list) : list[i].id = rm.id /\ ~list[i].sent}
           d == IF I # {} THEN Min(I) ELSE 0
<1>1. PICK n \in Nat : n = Len(list)
  BY BlockOf
<1>2. new = IF d = 0 THEN list ELSE [list EXCEPT ![d].sent = TRUE]
  BY DEF MarkSent, SelectInSeq
<1>3. k \in BlockHeights /\ f < k /\ \A j \in BlockHeights : f < j => k <= j
  BY DEF IsNext
<1>4. \A i \in 1 .. n : list[i].id = Label(list[i].msg.bu) /\ list[i].msg.bu \in BlockHeights
  BY <1>1, BlockOf DEF Covering
<1>5. PICK j \in 1 .. n : list[j].msg.bu = k
  BY <1>1 DEF Has
<1>6. ~(k <= f)
  BY <1>3, HeightIsInt, SMT
<1>7. j \in I
  BY <1>1, <1>4, <1>5, <1>6
<1>8. I \in SUBSET (1 .. Len(list)) /\ \A i \in I : list[i].id = rm.id
  OBVIOUS
<1> HIDE DEF I
<1>9. d \in I
  BY <1>7, <1>8, SelectList
<1> HIDE DEF d
<1>10. d \in 1 .. n /\ d # 0 /\ list[d].msg.bu = k
  <2>1. d \in 1 .. n
    BY <1>1, <1>8, <1>9
  <2>2. d # 0
    BY <2>1, SMT
  <2> QED
    BY <1>4, <1>8, <1>9, <2>1, <2>2, LabelIs
<1>11. DOMAIN list = 1 .. n /\ list[d] \in RelayMessage
  BY <1>1, <1>10, BlockOf, SeqLen DEF FullMessages
<1>12. new = [list EXCEPT ![d] = [list[d] EXCEPT !.sent = TRUE]]
  BY <1>2, <1>10, <1>11
<1>13. PICK e : e = [list[d] EXCEPT !.sent = TRUE]
  OBVIOUS
<1>14. e.sent = TRUE /\ e.id = list[d].id /\ e.msg = list[d].msg /\ e \in FullMessages
  <2>1. e \in FullMessages
    BY <1>1, <1>10, <1>13, BlockOf, MarkedFull
  <2> QED
    BY <1>11, <1>13, <2>1, SMT DEF RelayMessage
<1>15. Len(new) = n /\ \A i \in 1 .. n : new[i] = IF i = d THEN e ELSE list[i]
  <2>1. new = [list EXCEPT ![d] = e]
    BY <1>12, <1>13
  <2>2. d \in 1 .. Len(list) /\ e \in FullMessages
    BY <1>1, <1>10, <1>14
  <2>3. /\ Len([list EXCEPT ![d] = e]) = Len(list)
        /\ \A i \in 1 .. Len(list) : [list EXCEPT ![d] = e][i] = IF i = d THEN e ELSE list[i]
    BY ONLY <2>2, list \in Seq(FullMessages), SeqExcept
  <2> QED
    BY ONLY <1>1, <2>1, <2>3, Zenon
<1>16. Same(list, new)
  BY <1>1, <1>14, <1>15 DEF Same
<1>17. ASSUME NEW i \in 1 .. n PROVE new[i].sent <=> new[i].msg.bu <= k
  <2>1. CASE i = d
    <3>1. new[i].sent = TRUE /\ new[i].msg.bu = k
      BY <1>10, <1>14, <1>15, <2>1
    <3>2. k <= k
      BY <1>3, SMT
    <3> QED
      BY <3>1, <3>2
  <2>2. CASE i # d
    <3>1. new[i] = list[i] /\ (list[i].sent <=> list[i].msg.bu <= f)
      BY <1>1, <1>15, <2>2
    <3>2. list[i].msg.bu # k
      <4>1. i < d \/ d < i
        BY <1>10, <2>2, SMT
      <4>2. list[i].msg.bu < list[d].msg.bu \/ list[d].msg.bu < list[i].msg.bu
        BY <1>1, <1>10, <4>1 DEF Covering
      <4>3. \A x \in BlockHeights : ~(x < x)
        BY HeightIsInt, SMT
      <4> QED
        BY <1>3, <1>10, <4>2, <4>3
    <3>3. ASSUME NEW x \in BlockHeights, x # k PROVE x <= f <=> x <= k
      BY <1>3, <3>3, HeightIsInt, SMT
    <3>4. list[i].msg.bu <= f <=> list[i].msg.bu <= k
      BY <1>4, <3>2, <3>3
    <3> QED
      BY <3>1, <3>4
  <2> QED
    BY <2>1, <2>2
<1> QED
  BY <1>15, <1>16, <1>17

LEMMA QueueAppend ==
  ASSUME NEW list \in Seq(Id), NEW f \in BlockHeights, Ends(list, f), NEW k \in BlockHeights, f < k
  PROVE  Ends(Append(list, Label(k)), k)
<1>1. PICK n \in Nat : n = Len(list)
  BY SeqLen
<1>2. PICK new : new = Append(list, Label(k))
  OBVIOUS
<1>3. Label(k) \in Id /\ Label(k)[1] = k
  BY EndSeqAssumption, SMT DEF Label, Id
<1>4. Len(new) = n + 1 /\ new[n + 1] = Label(k) /\ \A i \in 1 .. n : new[i] = list[i]
  BY <1>1, <1>2, <1>3, SeqAppend, SMT
<1>5. ASSUME NEW i \in 1 .. n PROVE list[i][1] <= k /\ list[i][1] < k
  <2>1. list[i][1] \in Int
    <3>1. list[i] \in Id
      BY <1>1, SeqElement
    <3> QED
      BY <3>1, HeightIsInt, SMT DEF Id
  <2>2. list[i][1] <= f
    BY <1>1 DEF Ends
  <2> QED
    BY <2>1, <2>2, HeightIsInt, SMT
<1>6. ASSUME NEW i \in 1 .. n + 1 PROVE new[i][1] <= k /\ (i < n + 1 => new[i][1] < k)
  <2>1. CASE i \in 1 .. n
    BY <1>4, <1>5, <2>1
  <2>2. CASE i = n + 1
    <3>1. k <= k /\ ~(n + 1 < n + 1)
      BY HeightIsInt, SMT
    <3> QED
      BY <1>3, <1>4, <2>2, <3>1
  <2> QED
    BY <2>1, <2>2, SMT
<1> QED
  BY <1>2, <1>4, <1>6 DEF Ends, Last

LEMMA QueueDrop ==
  ASSUME queue \in Seq(Id), NEW f \in BlockHeights, Ends(queue, f), NEW h, NEW new, new = dequeue(Label(h))
  PROVE  Ends(new, f) /\ (new # <<>> => queue # <<>> /\ h # f)
<1> DEFINE I == {i \in 1 .. Len(queue) : queue[i] = Label(h)}
           d == IF I # {} THEN Min(I) ELSE 0
<1>1. PICK n \in Nat : n = Len(queue)
  BY SeqLen
<1>2. new = SubSeq(queue, d + 1, Len(queue))
  BY DEF dequeue, DropThrough, SelectInSeq
<1>3. I \in SUBSET (1 .. Len(queue)) /\ (\A i \in I : queue[i] = Label(h)) /\ \A i \in 1 .. n : queue[i] = Label(h) => i \in I
  BY <1>1
<1> HIDE DEF I
<1>4. d = IF I # {} THEN Min(I) ELSE 0
  OBVIOUS
<1>5. d \in 0 .. Len(queue) /\ (I # {} => d \in I)
  BY <1>3, SelectList
<1> HIDE DEF d
<1>6. Rest(Id, queue, I, d, new)
  BY <1>2, <1>3, <1>4, DropList
<1>7. /\ Len(new) = n - d /\ \A i \in 1 .. n - d : new[i] = queue[d + i] /\ d + i \in 1 .. n
      /\ new \in Seq(Id) /\ (new # <<>> => queue # <<>> /\ Last(new) = Last(queue))
  BY <1>1, <1>6 DEF Rest
<1>8. ASSUME NEW i \in 1 .. Len(new) PROVE new[i][1] <= f /\ (i < Len(new) => new[i][1] < f)
  <2>1. d + i \in 1 .. n /\ new[i] = queue[d + i]
    BY <1>7
  <2>2. i < Len(new) => d + i < n
    BY <1>1, <1>5, <1>7, SMT
  <2> QED
    BY <1>1, <2>1, <2>2 DEF Ends
<1>9. ASSUME new # <<>> PROVE h # f
  <2> SUFFICES ASSUME h = f PROVE FALSE
    OBVIOUS
  <2>1. queue # <<>> /\ Len(new) \in Nat \ {0}
    BY <1>7, <1>9, SeqEmpty
  <2>2. n \in 1 .. n /\ d < n
    BY <1>1, <1>5, <1>7, <2>1, SMT
  <2>3. queue[n] = Label(f)
    BY <1>1, <2>1 DEF Ends, Last
  <2>4. d \in I
    BY <1>3, <1>5, <2>2, <2>3
  <2>5. queue[d] = Label(f) /\ queue[d][1] < f
    BY <1>1, <1>3, <2>2, <2>4 DEF Ends
  <2> QED
    BY <2>5, HeightIsInt, SMT DEF Label
<1> QED
  BY <1>7, <1>8, <1>9 DEF Ends

-----------------------------------------------------------------------------
(***************************************************************************)
(* Steps of the link.                                                      *)
(***************************************************************************)
LEMMA Moved ==
  ASSUME TypeInv, NEW p \in Procs, NEW at, NEW v, Goto(p, at), SetLoc(p, v)
  PROVE  /\ pc'[p] = at /\ loc'[p] = v
         /\ \A q \in Procs \ {p} : pc'[q] = pc[q] /\ loc'[q] = loc[q]
BY DEF TypeInv, TypeOK, LinkTypeOK, Goto, SetLoc

\* Steps that build, send and take nothing.
LEMMA Moves ==
  ASSUME TypeInv, NEW f, NEW t, Held(f, t),
         NEW p \in Procs, pc[p] \notin {"proof", "addproof", "success"},
         NEW at \in Places \ {"proof", "addproof", "success", "resync"}, NEW v, Goto(p, at), SetLoc(p, v),
         UNCHANGED <<bls, rms, rmi, queue, txs, brss>>,
         relayState' = relayState \/ (relayState' = "PENDING" /\ Wake),
         Sends(f, t, at, v), at = "send" /\ relayState' = "INIT" => v.first \/ rms # <<>>,
         at = "update" => IsNext(t, v.item.height), at = "suspend" => Wake,
         Supplies(at, v, brss, rmi)
  PROVE  Held(f, t)'
<1>1. /\ pc'[p] = at /\ loc'[p] = v
      /\ \A q \in Procs \ {p} : pc'[q] = pc[q] /\ loc'[q] = loc[q]
  BY Moved
<1>2. "send" \in Procs
  BY DEF Procs
<1>3. Wake => Wake'
  BY <1>1, <1>2 DEF Wake
<1>4. Ready(f, t)'
  <2>1. \A q \in Procs : Sends(f, t, pc'[q], loc'[q])
    BY <1>1 DEF Held, Ready
  <2> QED
    BY <2>1 DEF Held, Ready, Covering, Has, Sends, Above
<1>5. Tip(t)'
  <2>1. ASSUME \A q \in Procs : pc'[q] \notin {"proof", "addproof"} PROVE t = bls.height
    <3>1. \A q \in Procs : pc[q] \notin {"proof", "addproof"}
      BY <1>1, <2>1
    <3> QED
      BY <3>1 DEF Held, Tip
  <2>2. ASSUME NEW q \in Procs, pc'[q] \in Works PROVE IsNext(t, Target(pc'[q], loc'[q], rmi))
    <3>1. CASE q = p
      BY <1>1, <2>2, <3>1 DEF Works, Target
    <3>2. CASE q # p
      BY <1>1, <2>2, <3>2 DEF Held, Tip
    <3> QED
      BY <3>1, <3>2
  <2> QED
    BY <2>1, <2>2 DEF Tip, Target
<1>6. Done(f)'
  BY <1>1, <1>2 DEF Held, Done, Has
<1>7. Queued(f)'
  BY DEF Held, Queued, Ends, Awaited, Has, Last
<1>8. Waking'
  <2>1. relayState' = "PENDING" => Wake
    BY DEF Held, Waking
  <2>2. ASSUME NEW q \in Procs, pc'[q] = "suspend" PROVE Wake
    BY <1>1, <2>2 DEF Held, Waking
  <2>3. ASSUME relayState' = "INIT" PROVE relayState = "INIT"
    BY <2>3
  <2>4. ASSUME relayState' = "INIT", NEW q \in Procs, pc'[q] = "send", ~loc'[q].first PROVE rms # <<>>
    BY <1>1, <2>3, <2>4 DEF Held, Waking
  <2>5. ASSUME relayState' = "INIT", NEW i \in 1 .. Len(rms), rms[i].sent PROVE Wake
    BY <2>3, <2>5 DEF Held, Waking
  <2> QED
    BY <1>3, <2>1, <2>2, <2>4, <2>5 DEF Waking
<1>9. Supplied'
  <2>1. \A q \in Procs : Supplies(pc'[q], loc'[q], brss, rmi)
    BY <1>1 DEF Held, Supplied
  <2> QED
    BY <2>1 DEF Supplied
<1> QED
  BY <1>4, <1>5, <1>6, <1>7, <1>8, <1>9 DEF Held

\* Steps of building a message.
LEMMA Builds ==
  ASSUME TypeInv, NEW f, NEW t, Held(f, t), NEW p \in Procs, pc[p] \in Works,
         \A q \in Procs \ {p} : pc[q] \in {"idle", "handle", "report", "resync"},
         NEW at \in {"proof", "addproof"}, NEW v, Goto(p, at), SetLoc(p, v),
         UNCHANGED <<relayState, rms, queue, txs, brss>>,
         Target(at, v, rmi') = Target(pc[p], loc[p], rmi), Supplies(at, v, brss, rmi')
  PROVE  Held(f, t)'
<1>1. /\ pc'[p] = at /\ loc'[p] = v
      /\ \A q \in Procs \ {p} : pc'[q] = pc[q] /\ loc'[q] = loc[q]
  BY Moved
<1>2. "send" \in Procs /\ pc[p] # "success" /\ \A q \in Procs \ {p} : pc'[q] \in {"idle", "handle", "report", "resync"}
  BY <1>1 DEF Procs, Works
<1>3. Wake => Wake'
  BY <1>1, <1>2 DEF Wake
<1>4. Ready(f, t)'
  <2>1. \A q \in Procs : pc'[q] # "send"
    BY <1>1, <1>2
  <2> QED
    BY <2>1 DEF Held, Ready, Covering, Has, Sends
<1>5. Tip(t)'
  <2>1. ASSUME NEW q \in Procs, pc'[q] \in Works PROVE IsNext(t, Target(pc'[q], loc'[q], rmi'))
    <3>1. q = p
      BY <1>2, <2>1 DEF Works
    <3>2. IsNext(t, Target(pc[p], loc[p], rmi))
      BY DEF Held, Tip
    <3> QED
      BY <1>1, <3>1, <3>2
  <2> QED
    BY <1>1, <2>1 DEF Tip, Target
<1>6. Done(f)'
  <2>1. pc'["send"] # "success" /\ pc'["send"] # "resync"
    BY <1>1, <1>2 DEF Held, Done
  <2> QED
    BY <2>1 DEF Done
<1>7. Queued(f)'
  BY DEF Held, Queued, Ends, Awaited, Has, Last
<1>8. Waking'
  <2>1. \A q \in Procs : pc'[q] # "send" /\ pc'[q] # "suspend"
    BY <1>1, <1>2
  <2>2. relayState = "PENDING" => Wake
    BY DEF Held, Waking
  <2>3. ASSUME relayState = "INIT", NEW i \in 1 .. Len(rms), rms[i].sent PROVE Wake
    BY <2>3 DEF Held, Waking
  <2> QED
    BY <1>3, <2>1, <2>2, <2>3 DEF Waking
<1>9. Supplied'
  <2>1. \A q \in Procs : Supplies(pc'[q], loc'[q], brss, rmi')
    <3>1. ASSUME NEW q \in Procs \ {p} PROVE Supplies(pc'[q], loc'[q], brss, rmi')
      BY <1>2, <3>1 DEF Supplies
    <3> QED
      BY <1>1, <3>1
  <2> QED
    BY <2>1 DEF Supplied
<1> QED
  BY <1>4, <1>5, <1>6, <1>7, <1>8, <1>9 DEF Held

LEMMA Passes ==
  ASSUME TypeInv, NEW f, NEW t, Held(f, t),
         NEW p \in Procs, pc[p] \notin {"proof", "addproof", "success"},
         NEW at \in {"idle", "append", "once", "check", "handle", "loop", "next", "report"}, NEW v,
         Goto(p, at), SetLoc(p, v), UNCHANGED <<bls, rms, rmi, queue, txs, brss>>,
         relayState' = relayState \/ (relayState' = "PENDING" /\ Wake)
  PROVE  Held(f, t)'
<1>1. at \in Places \ {"proof", "addproof", "success", "resync"} /\ at \notin {"send", "update", "suspend", "build"}
  BY DEF Places, Waiting
<1>2. Sends(f, t, at, v) /\ Supplies(at, v, brss, rmi)
  BY <1>1 DEF Sends, Supplies
<1> QED
  BY <1>1, <1>2, Moves

LEMMA RecvCalm ==
  ASSUME TypeInv, NEW b \in BlockHeights, NEW c \in Nat, Process(b, c), Recv, NEW f, NEW t, Held(f, t)
  PROVE  Held(f, t)'
<1>1. "recv" \in Procs
  BY DEF Procs
<1>2. CASE ReceiveFromReceiver
  <2>1. /\ pc["recv"] = "idle" /\ Goto("recv", "append") /\ SetLoc("recv", [loc["recv"] EXCEPT !.rs = rsc, !.rss = rss])
        /\ UNCHANGED <<relayState, bls, rms, rmi, queue, txs, brss>>
    BY <1>2 DEF ReceiveFromReceiver, sndVars
  <2> QED
    BY <1>1, <2>1, Passes
<1>3. CASE AppendReceiveStatus
  <2> DEFINE at == IF once THEN "check" ELSE "once"
  <2>1. /\ pc["recv"] = "append" /\ Goto("recv", at) /\ SetLoc("recv", [loc["recv"] EXCEPT !.rss = <<>>])
        /\ UNCHANGED <<relayState, bls, rms, rmi, queue, txs, brss>>
    BY <1>3 DEF AppendReceiveStatus, sndVars, rcvVars
  <2>2. at \in {"check", "once"}
    OBVIOUS
  <2> HIDE DEF at
  <2> QED
    BY <1>1, <2>1, <2>2, Passes
<1>4. CASE OnceDo
  <2>1. /\ pc["recv"] = "once" /\ UNCHANGED <<relayState, bls, rms, rmi, queue, txs, brss>>
    BY <1>4 DEF OnceDo, sndVars, rcvVars
  <2>2. Between(b, c, bls) /\ bls.height \in BlockHeights /\ bls \in Position
    <3>1. pc["send"] = "idle"
      BY <2>1 DEF Process, Fresh
    <3>2. \A q \in Procs : pc[q] \notin {"proof", "addproof"}
      BY <2>1, <3>1 DEF Procs
    <3> QED
      BY <3>2 DEF Process, Positions, Rests, Between, TypeInv, TypeOK, LinkTypeOK
  <2>3. PICK rs : rs = getReceiveStatusForHeight(rss, bls.height)
    OBVIOUS
  <2>4. ~(rs # NoStatus /\ bls.rxSeq < rs.seq)
    <3>1. SUFFICES ASSUME rs # NoStatus PROVE ~(bls.rxSeq < rs.seq)
      OBVIOUS
    <3>2. rss \in Seq(ReceiveStatus) /\ Statuses(b, c, rss)
      BY DEF Process, Telling, Statuses
    <3>3. In(rss, bls.height)
      BY <2>3, <3>1, <3>2, StatusFound DEF getReceiveStatusForHeight
    <3>4. Said(b, c, rs) /\ rs.height = bls.height
      BY ONLY <2>2, <2>3, <3>2, <3>3, StatusOf
    <3>5. rs.seq \in Int /\ bls.rxSeq \in Int /\ bls.height \in Nat
      BY <2>2, <3>4, StatusIs, PositionIs DEF Said
    <3>6. rs.height <= bls.height
      BY <3>4, <3>5, SMT
    <3>7. rs.seq <= bls.rxSeq
      BY <2>2, <3>4, <3>6, NotBehind
    <3> QED
      BY <3>5, <3>7, SMT
  <2>5. SetLoc("recv", [loc["recv"] EXCEPT !.ret = "check"]) /\ Goto("recv", "handle")
    BY <1>4, <2>3, <2>4 DEF OnceDo
  <2> QED
    BY <1>1, <2>1, <2>5, Passes
<1>5. CASE CheckBehind
  <2> DEFINE at == IF Behind(bls, loc["recv"].rs) THEN "handle" ELSE "idle"
  <2>1. /\ pc["recv"] = "check" /\ Goto("recv", at) /\ SetLoc("recv", Idle)
        /\ UNCHANGED <<relayState, bls, rms, rmi, queue, txs, brss>>
    BY <1>5 DEF CheckBehind, sndVars, rcvVars
  <2>2. at \in {"handle", "idle"}
    OBVIOUS
  <2> HIDE DEF at
  <2> QED
    BY <1>1, <2>1, <2>2, Passes
<1> QED
  BY <1>2, <1>3, <1>4, <1>5 DEF Recv

LEMMA ReturnCalm ==
  ASSUME TypeInv, NEW f, NEW t, Held(f, t), NEW p \in Procs, pc[p] \notin {"proof", "addproof", "success"},
         Return(p), UNCHANGED <<relayState, bls, rms, rmi, queue, txs, brss>>
  PROVE  Held(f, t)'
<1> DEFINE at == loc[p].ret
           v == [Idle EXCEPT !.rs = loc[p].rs, !.done = loc[p].done]
<1>1. at \in {"idle", "check", "report"}
  BY DEF TypeInv, TypeOK, LinkTypeOK, Locals
<1>2. Goto(p, at) /\ SetLoc(p, v)
  BY DEF Return
<1> HIDE DEF at, v
<1> QED
  BY <1>1, <1>2, Passes

\* The queue is full of transactions whose results the link can use.
LEMMA FullWakes ==
  ASSUME TypeInv, NEW f \in BlockHeights, NEW t, Held(f, t), NEW g, Covering(txs, g, f), queue # <<>>
  PROVE  Wake
<1>1. PICK i \in 1 .. Len(txs) : txs[i].msg.bu = f
  BY DEF Held, Queued, Awaited
<1>2. PICK j \in 1 .. Len(rms) : rms[j].msg.bu = f
  BY <1>1 DEF Held, Queued, Has
<1>3. txs[i].id = Label(f)
  BY ONLY <1>1, Covering(txs, g, f), Zenon DEF Covering
<1>4. rms[j].id = Label(f)
  <2>1. Covering(rms, f, t)
    BY DEF Held, Ready
  <2> QED
    BY ONLY <1>2, <2>1, Zenon DEF Covering
<1> QED
  BY <1>3, <1>4 DEF Wake

LEMMA SuspendWakes ==
  ASSUME TypeInv, Sending, NEW f \in BlockHeights, NEW t \in BlockHeights, Held(f, t), NEW g, Covering(txs, g, f),
         NEW p \in Procs, Suspend(p)
  PROVE  Wake
<1>1. CASE QueueFull
  <2>1. queue # <<>>
    BY <1>1, SenderAssumption, SMT DEF QueueFull
  <2> QED
    BY <2>1, FullWakes
<1>2. CASE ~QueueFull
  <2>1. pc[p] = "send" /\ loc[p].todo = <<>> /\ ~loc[p].first /\ relayState = "INIT"
    BY <1>2 DEF Suspend
  <2>2. rms # <<>> /\ ((\E i \in 1 .. Len(rms) : rms[i].sent) => Wake)
    BY <2>1 DEF Held, Waking
  <2>3. Covering(loc[p].todo, f, t) /\ f <= t /\ Covering(rms, f, t)
        /\ \A i \in 1 .. Len(rms) : rms[i].sent <=> rms[i].msg.bu <= f
    BY <2>1 DEF Held, Ready, Sends
  <2>4. f \in Int /\ t \in Int
    BY HeightIsInt
  <2>5. f = t
    <3>1. SUFFICES ASSUME f < t PROVE FALSE
      BY <2>3, <2>4, SMT
    <3>2. Has(loc[p].todo, t)
      BY <2>3, <2>4, <3>1, SMT DEF Covering
    <3> QED
      BY <2>1, <3>2, SMT DEF Has
  <2>6. 1 \in 1 .. Len(rms)
    BY <2>2, BlockOf, SeqEmpty, SMT DEF Sending, FullList
  <2>7. rms[1].msg.bu <= f
    BY <2>3, <2>5, <2>6 DEF Covering
  <2> QED
    BY <2>2, <2>3, <2>6, <2>7
<1> QED
  BY <1>1, <1>2

LEMMA SendingCalm ==
  ASSUME TypeInv, Sending, NEW f \in BlockHeights, NEW t \in BlockHeights, Held(f, t), NEW g, Covering(txs, g, f),
         NEW p \in Procs, Lock(p) \/ Suspend(p) \/ SetPending(p) \/ SendDone(p)
  PROVE  Held(f, t)'
<1>1. loc \in [Procs -> Locals] /\ loc[p] \in Locals
  BY DEF TypeInv, TypeOK, LinkTypeOK
<1>2. "send" \in Places \ {"proof", "addproof", "success", "resync"}
      /\ "suspend" \in Places \ {"proof", "addproof", "success", "resync"}
  BY DEF Places, Waiting
<1>3. CASE Lock(p)
  <2>1. pc[p] = "handle" /\ UNCHANGED <<relayState, bls, rms, rmi, queue, txs, brss>>
    BY <1>3 DEF Lock, sndVars, rcvVars
  <2>2. CASE relayState = "PENDING"
    <3>1. Return(p)
      BY <1>3, <2>2 DEF Lock
    <3> QED
      BY <2>1, <3>1, ReturnCalm
  <2>3. CASE relayState # "PENDING"
    <3> DEFINE v == [loc[p] EXCEPT !.todo = Unsent(rms), !.first = TRUE]
    <3>1. Goto(p, "send") /\ SetLoc(p, v)
      BY <1>3, <2>3 DEF Lock
    <3>2. v.todo = Unsent(rms) /\ v.first
      BY <1>1 DEF Locals
    <3> HIDE DEF v
    <3>3. Sends(f, t, "send", v)
      BY <3>2, UnsentCovers DEF Sends, Held, Ready, Sending, FullList
    <3>4. Supplies("send", v, brss, rmi)
      BY DEF Supplies
    <3> QED
      BY <1>2, <2>1, <3>1, <3>2, <3>3, <3>4, Moves
  <2> QED
    BY <2>2, <2>3
<1>4. CASE Suspend(p)
  <2>1. /\ pc[p] = "send" /\ Goto(p, "suspend") /\ SetLoc(p, [loc[p] EXCEPT !.todo = <<>>])
        /\ UNCHANGED <<relayState, bls, rms, rmi, queue, txs, brss>>
    BY <1>4 DEF Suspend, sndVars, rcvVars
  <2>2. Wake
    BY <1>4, SuspendWakes
  <2>3. \A v : Sends(f, t, "suspend", v) /\ Supplies("suspend", v, brss, rmi)
    BY DEF Sends, Supplies
  <2> QED
    BY <1>2, <2>1, <2>2, <2>3, Moves
<1>5. CASE SetPending(p)
  <2>1. /\ pc[p] = "suspend" /\ Goto(p, "loop") /\ loc' = loc /\ relayState' = "PENDING"
        /\ UNCHANGED <<bls, rms, rmi, queue, txs, brss>>
    BY <1>5 DEF SetPending, sndVars, rcvVars
  <2>2. Wake
    BY <2>1 DEF Held, Waking
  <2>3. SetLoc(p, loc[p])
    BY <1>1, <2>1 DEF SetLoc
  <2> QED
    BY <2>1, <2>2, <2>3, Passes
<1>6. CASE SendDone(p)
  <2>1. /\ pc[p] = "send" /\ Goto(p, "loop") /\ loc' = loc
        /\ UNCHANGED <<relayState, bls, rms, rmi, queue, txs, brss>>
    BY <1>6 DEF SendDone, sndVars, rcvVars
  <2>2. SetLoc(p, loc[p])
    BY <1>1, <2>1 DEF SetLoc
  <2> QED
    BY <2>1, <2>2, Passes
<1> QED
  BY <1>3, <1>4, <1>5, <1>6

\* nextReceiveStatus finds a status.
LEMMA IndexInRange ==
  ASSUME TypeInv, NEW b \in BlockHeights, NEW c \in Nat, Process(b, c), slices.mon = <<>>, AtNext(bls, rss)
  PROVE  nextReceiveIndex(bls) \in 1 .. Len(brss)
<1> DEFINE J == {j \in 1 .. Len(brss) : bls.height <= brss[j].height}
           d == IF J # {} THEN Min(J) ELSE 0
<1>1. /\ brss \in Seq(ReceiveStatus) /\ rss \in Seq(ReceiveStatus) /\ bls \in Position /\ cursor \in Nat
  BY DEF TypeInv, TypeOK, LinkTypeOK, ReceiverTypeOK
<1>2. PICK n \in Nat : n = Len(brss)
  BY <1>1, SeqLen
<1>3. PICK r \in Nat : r = Len(rss)
  BY <1>1, SeqLen
<1>4. r \in 1 .. r /\ Last(rss) = rss[r]
  BY <1>1, <1>3, SeqEmpty, SMT DEF AtNext, Last
<1>5. Said(b, c, rss[r]) /\ rss[r].height < cursor + 1
  BY <1>3, <1>4 DEF Process, Telling, Statuses, Below
<1>6. PICK h \in BlockHeights : h = rss[r].height
  BY <1>5, StatusIs DEF Said
<1>7. h \in Nat /\ c < h /\ bls.height < h /\ h < cursor + 1
  BY <1>4, <1>5, <1>6, HeightIsInt DEF Said, AtNext
<1>8. h <= cursor
  BY <1>1, <1>7, SMT
<1>9. Known(h)
  <2>1. bls.height \in Heights
    BY <1>1, PositionIs
  <2> QED
    BY <1>7, <1>8, <2>1 DEF Process, Keeping, Needed, KnownAbove
<1>10. PICK j \in 1 .. n : brss[j].height = h
  BY <1>2, <1>9 DEF Known, In
<1>11. bls.height \in Nat
  BY <1>1, PositionIs
<1>12. J \subseteq Nat /\ 0 \notin J /\ J \subseteq 1 .. n
  BY <1>2, SMT
<1>13. j \in J
  BY <1>2, <1>7, <1>10, <1>11, SMT
<1>14. nextReceiveIndex(bls) = IF d # 0 /\ brss[d].height = bls.height THEN d + 1 ELSE d
  BY DEF nextReceiveIndex, SelectInSeq
<1>15. d \in J /\ d <= j
  <2> HIDE DEF J
  <2> QED
    BY <1>12, <1>13, NatMin
<1> HIDE DEF J, d
<1>16. d = j => brss[d].height # bls.height
  BY <1>7, <1>10, <1>11, SMT
<1> QED
  BY <1>2, <1>12, <1>14, <1>15, <1>16, SMT

LEMMA NextCalm ==
  ASSUME TypeInv, DeliveryInv, ~Preemptive,
         NEW b \in BlockHeights, NEW c \in Nat, Process(b, c),
         NEW f, NEW t, Held(f, t),
         NEW p \in Procs, MayRun(p), NextReceiveStatus(p)
  PROVE  Held(f, t)'
<1> DEFINE v == [loc[p] EXCEPT !.index = nextReceiveIndex(bls)]
<1>1. /\ pc[p] = "next" /\ Goto(p, "build") /\ SetLoc(p, v)
      /\ UNCHANGED <<relayState, bls, rms, rmi, queue, txs, brss>>
  BY DEF NextReceiveStatus, sndVars, rcvVars
<1>2. loc[p] \in Locals
  BY DEF TypeInv, TypeOK, LinkTypeOK
<1>3. v.index = nextReceiveIndex(bls)
  BY <1>2 DEF Locals
<1> HIDE DEF v
<1>4. slices.mon = <<>> /\ AtNext(bls, rss)
  <2>1. pc[p] \in Holding
    BY <1>1 DEF Holding
  <2> QED
    BY <1>1, <2>1, OtherWaits DEF Process, At
<1>5. Supplies("build", v, brss, rmi) /\ Sends(f, t, "build", v)
  BY <1>3, <1>4, IndexInRange DEF Supplies, Sends
<1>6. "build" \in Places \ {"proof", "addproof", "success", "resync"}
  BY DEF Places
<1> QED
  BY <1>1, <1>5, <1>6, Moves

\* Where the process is told of all blocks after its first position, the next block
\* is built upon t.
LEMMA BuildCalm ==
  ASSUME TypeInv, DeliveryInv, ~Preemptive,
         NEW b \in BlockHeights, Process(b, b),
         NEW f, NEW t, Held(f, t),
         NEW p \in Procs, MayRun(p), BuildBlockUpdate(p)
  PROVE  Held(f, t)'
<1> DEFINE k == brss[loc[p].index].height
           item == [NoItem EXCEPT !.height = k, !.rxSeq = bls.rxSeq]
           v == [loc[p] EXCEPT !.index = 0, !.item = item]
<1>1. /\ pc[p] = "build" /\ loc[p].index \in 1 .. Len(brss) /\ Goto(p, "update") /\ SetLoc(p, v)
      /\ UNCHANGED <<relayState, bls, rms, rmi, queue, txs, brss>>
  BY DEF BuildBlockUpdate, sndVars, rcvVars
<1>2. loc[p] \in Locals
  BY DEF TypeInv, TypeOK, LinkTypeOK
<1>3. v.item.height = k
  BY <1>2 DEF Locals, NoItem
<1> HIDE DEF v
<1>4. \A q \in Procs : pc[q] \notin {"proof", "addproof"}
  BY <1>1, OtherWaits DEF Holding
<1>5. t = bls.height /\ Between(b, b, bls)
  BY <1>4 DEF Held, Tip, Process, Positions, Rests
<1>6. IsNext(IF bls.height < b THEN b ELSE bls.height, k)
  BY <1>1 DEF Process, At, AtBuild
<1>7. ~(bls.height < b)
  BY <1>5, HeightIsInt, SMT DEF Between
<1>8. IsNext(t, v.item.height)
  BY <1>3, <1>5, <1>6, <1>7
<1>9. Supplies("update", v, brss, rmi) /\ Sends(f, t, "update", v)
      /\ "update" \in Places \ {"proof", "addproof", "success", "resync"}
  BY DEF Supplies, Sends, Places, Waiting
<1> HIDE DEF k, item
<1> QED
  BY <1>1, <1>8, <1>9, Moves

LEMMA UpdateCalm ==
  ASSUME TypeInv, DeliveryInv, ~Preemptive, NEW b, NEW c, Process(b, c), NEW f, NEW t, Held(f, t),
         NEW p \in Procs, MayRun(p), UpdateBMCLinkStatus(p)
  PROVE  Held(f, t)'
<1>1. /\ pc[p] = "update" /\ Goto(p, "proof") /\ rmi' = addBlockUpdate(loc[p].item)
      /\ UNCHANGED <<relayState, rms, queue, txs, brss>>
  BY DEF UpdateBMCLinkStatus, sndVars, rcvVars
<1>2. PICK v : SetLoc(p, v)
  BY DEF UpdateBMCLinkStatus
<1>3. rmi \in [bu : Heights, first : Nat, last : Nat, size : Int]
  BY DEF TypeInv, TypeOK, LinkTypeOK
<1>4. rmi'.bu = loc[p].item.height
  BY <1>1, <1>3 DEF addBlockUpdate
<1>5. Target("proof", v, rmi') = Target(pc[p], loc[p], rmi) /\ Supplies("proof", v, brss, rmi')
  BY <1>1, <1>4 DEF Target, Supplies
<1>6. pc[p] \in Works /\ \A q \in Procs \ {p} : pc[q] \in {"idle", "handle", "report", "resync"}
  BY <1>1, OtherWaits DEF Holding, Works
<1> QED
  BY <1>1, <1>2, <1>5, <1>6, Builds

\* Messages that fit take one proof.
LEMMA FitsOnce ==
  ASSUME BlocksFit, NEW k \in BlockHeights, NEW n \in Nat, n < MessageCount(k)
  PROVE  ~(TxSizeLimit < BlockUpdateSize + ProofSize(n))
<1>1. MessageCount(k) \in Nat /\ MessageSize \in Nat /\ BlockUpdateSize \in Nat /\ TxSizeLimit \in Nat
  BY MessageCountType, ReceiverAssumption, LinkAssumption
<1>2. PICK m \in Nat : m = MessageCount(k) - 1 - n
  BY <1>1, SMT
<1>3. BlockUpdateSize + (MessageCount(k) - 1) * MessageSize <= TxSizeLimit
  BY DEF BlocksFit, ProofSize
<1>4. MessageCount(k) - 1 = n + m
  BY <1>1, <1>2, SMT
<1>5. (n + m) * MessageSize = n * MessageSize + m * MessageSize /\ m * MessageSize \in Nat /\ n * MessageSize \in Nat
  BY <1>1, SMT
<1>6. BlockUpdateSize + (n * MessageSize + m * MessageSize) <= TxSizeLimit
  BY <1>3, <1>4, <1>5
<1> QED
  BY <1>1, <1>5, <1>6, SMT DEF ProofSize

LEMMA OneProof ==
  ASSUME TypeInv, BlocksFit, NEW b \in BlockHeights, NEW c \in Nat, Process(b, c),
         NEW p \in Procs, pc[p] = "proof", bls.rxSeq < loc[p].seq
  PROVE  /\ NoProof(rmi) /\ rmi.bu \in BlockHeights /\ In(brss, rmi.bu) /\ bls.height = rmi.bu
         /\ bls.rxSeq = StartSeq(rmi.bu) /\ StartSeq(rmi.bu) < EndSeq[rmi.bu]
<1> DEFINE k == rmi.bu
<1>1. bls \in Position /\ rmi \in [bu : Heights, first : Nat, last : Nat, size : Int]
  BY DEF TypeInv, TypeOK, LinkTypeOK
<1>2. AtProof(b, c, loc[p], bls, brss, rmi) /\ k \in BlockHeights
  BY DEF Process, At, Target
<1>3. ~Skips(b, c)
  BY ProofFound
<1>4. /\ loc[p].seq = EndSeq[k] /\ EndSeq[k] \in Nat /\ StartSeq(k) \in Nat /\ bls.rxSeq \in Int
      /\ MessageCount(k) = EndSeq[k] - StartSeq(k)
  BY <1>1, <1>2, <1>3, StartSeqType, EndSeqGrows, PositionIs, ZenonT(60) DEF AtProof, Counted, MessageCount
<1>5. CASE NoProof(rmi) /\ Ahead(b, c, k, bls.rxSeq)
  BY <1>2, <1>3, <1>4, <1>5 DEF AtProof, Ahead
<1>6. CASE Proves(k, rmi.last) /\ bls.rxSeq = StartSeq(k) + rmi.last
  <2>1. rmi.last \in Nat /\ rmi.last < MessageCount(k)
    BY <1>1, <1>4, <1>6, SMT
  <2>2. TxSizeLimit < BlockUpdateSize + ProofSize(rmi.last)
    BY <1>6, <2>1 DEF Proves
  <2> QED
    BY <1>2, <2>1, <2>2, FitsOnce
<1> QED
  BY <1>2, <1>5, <1>6 DEF AtProof

LEMMA ProofCalm ==
  ASSUME TypeInv, DeliveryInv, ~Preemptive, NEW b \in BlockHeights, NEW c \in Nat, Process(b, c),
         NEW f, NEW t, Held(f, t), NEW p \in Procs, MayRun(p), BuildProof(p)
  PROVE  Held(f, t)'
<1>1. /\ pc[p] = "proof" /\ Goto(p, "addproof") /\ SetLoc(p, [loc[p] EXCEPT !.item = NextProof])
      /\ bls.rxSeq < loc[p].seq /\ UNCHANGED <<relayState, rmi, rms, queue, txs, brss>>
  BY DEF BuildProof, sndVars, rcvVars
<1>2. BlocksFit => rmi.size = BlockUpdateSize
  BY <1>1, OneProof DEF NoProof
<1>3. \A v : Target("addproof", v, rmi') = Target(pc[p], loc[p], rmi) /\ Supplies("addproof", v, brss, rmi')
  BY <1>1, <1>2 DEF Target, Supplies
<1>4. pc[p] \in Works /\ \A q \in Procs \ {p} : pc[q] \in {"idle", "handle", "report", "resync"}
  BY <1>1, OtherWaits DEF Holding, Works
<1> QED
  BY <1>1, <1>3, <1>4, Builds

LEMMA AddCalm ==
  ASSUME TypeInv, DeliveryInv, ~Preemptive, NEW b, NEW c, Process(b, c), NEW f, NEW t, Held(f, t),
         NEW p \in Procs, MayRun(p), AddProof(p)
  PROVE  Held(f, t)'
<1>1. /\ pc[p] = "addproof" /\ Goto(p, "proof") /\ rmi' = addMessageProof(loc[p].item)
      /\ SetLoc(p, [loc[p] EXCEPT !.item = NoItem]) /\ UNCHANGED <<relayState, rms, queue, txs, brss>>
  BY DEF AddProof, sndVars, rcvVars
<1>2. rmi \in [bu : Heights, first : Nat, last : Nat, size : Int]
  BY DEF TypeInv, TypeOK, LinkTypeOK
<1>3. rmi'.bu = rmi.bu
  BY <1>1, <1>2 DEF addMessageProof
<1>4. \A v : Target("proof", v, rmi') = Target(pc[p], loc[p], rmi) /\ Supplies("proof", v, brss, rmi')
  BY <1>1, <1>3 DEF Target, Supplies
<1>5. pc[p] \in Works /\ \A q \in Procs \ {p} : pc[q] \in {"idle", "handle", "report", "resync"}
  BY <1>1, OtherWaits DEF Holding, Works
<1> QED
  BY <1>1, <1>4, <1>5, Builds

LEMMA TransactionOf ==
  ASSUME NEW list \in Seq(FullTransactions)
  PROVE  /\ Len(list) \in Nat
         /\ \A i \in 1 .. Len(list) :
              list[i] \in FullTransactions /\ list[i].msg.bu \in BlockHeights /\ list[i].msg.bu \in Int
<1>1. Len(list) \in Nat /\ \A i \in 1 .. Len(list) : list[i] \in FullTransactions
  BY SeqLen, SMT
<1> QED
  BY <1>1, HeightIsInt DEF FullTransactions, Whole

\* A message is sent: f becomes its block.
LEMMA RelayCalm ==
  ASSUME TypeInv, DeliveryInv, ~Preemptive, Sending,
         NEW b, NEW c, Process(b, c), NEW f \in BlockHeights, NEW t \in BlockHeights, Executing(f), Held(f, t),
         NEW p \in Procs, MayRun(p), bmc' = bmc, SendRelayMessage(p)
  PROVE  \E k \in BlockHeights : Executing(k)' /\ Held(k, t)'
<1> DEFINE rm == Head(loc[p].todo)
           e == [st |-> "pool", id |-> rm.id, msg |-> rm.msg, code |-> NoCode]
           v == [loc[p] EXCEPT !.todo = Tail(@)]
<1>1. /\ pc[p] = "send" /\ loc[p].todo # <<>> /\ Relay(rm.id, rm.msg) /\ rms' = MarkSent(rms, rm) /\ SetLoc(p, v)
      /\ UNCHANGED <<relayState, bls, rmi, pc, brss>>
  BY DEF SendRelayMessage, rcvVars
<1>2. txs' = Append(txs, e) /\ queue' = Append(queue, rm.id)
  BY <1>1 DEF Relay, SetQueue
<1>3. loc[p].todo \in Seq(FullMessages) /\ rms \in Seq(FullMessages) /\ txs \in Seq(FullTransactions)
  BY DEF Sending, FullList
<1>4. rm \in FullMessages /\ v.todo = Tail(loc[p].todo)
  <2>1. loc[p] \in Locals
    BY DEF TypeInv, TypeOK, LinkTypeOK
  <2>2. rm \in FullMessages
    BY <1>1, <1>3, SeqHeadTail, SMT
  <2> QED
    BY <2>1, <2>2 DEF Locals
<1>5. PICK k : k = rm.msg.bu
  OBVIOUS
<1>6. Covering(loc[p].todo, f, t) /\ Above(loc[p].todo, f)
  BY <1>1 DEF Held, Ready, Sends
<1>7. /\ rm.id = Label(k) /\ IsNext(f, k) /\ k <= t /\ Covering(v.todo, k, t) /\ Above(v.todo, k)
  <2>1. /\ rm.id = Label(k) /\ IsNext(f, k) /\ k <= t
        /\ Covering(Tail(loc[p].todo), k, t) /\ Above(Tail(loc[p].todo), k)
    BY <1>1, <1>3, <1>5, <1>6, CoveringHead
  <2> HIDE DEF v
  <2> QED
    BY ONLY <1>4, <2>1
<1>8. /\ txs' \in Seq(FullTransactions) /\ e.st = "pool" /\ e.code = NoCode /\ e.msg.bu = k /\ e.id = Label(k)
  BY <1>1, <1>3, <1>4, <1>5, <1>7, SentTransactions
<1> HIDE DEF e, rm, v
<1>9. k \in BlockHeights /\ k \in Nat /\ f \in Nat /\ t \in Nat /\ f < k
  BY <1>7, HeightIsInt DEF IsNext
<1>10. PICK n \in Nat : n = Len(txs)
  BY <1>3, TransactionOf
<1>11. /\ Len(txs') = n + 1 /\ txs'[n + 1] = e /\ e \in FullTransactions /\ n + 1 \in 1 .. Len(txs')
       /\ \A i \in 1 .. n : txs'[i] = txs[i] /\ i \in 1 .. Len(txs')
  <2>1. Len(txs') = n + 1 /\ \A i \in 1 .. n + 1 : txs'[i] = IF i <= n THEN txs[i] ELSE e
    BY <1>2, <1>3, <1>10, SMT DEF FullTransactions
  <2>2. n + 1 \in 1 .. Len(txs') /\ ~(n + 1 <= n) /\ \A i \in 1 .. n : i <= n /\ i \in 1 .. n + 1 /\ i \in 1 .. Len(txs')
    BY <2>1, SMT
  <2>3. txs'[n + 1] \in FullTransactions
    BY <1>8, <2>2, TransactionOf
  <2> QED
    BY <2>1, <2>2, <2>3
<1>12. \A i \in 1 .. Len(txs') : i = n + 1 \/ i \in 1 .. n
  BY <1>11, SMT
<1>13. bmc.height \in Nat /\ bmc.height <= f /\ Covering(txs, bmc.height, f)
  <2>1. bmc.height \in BlockHeights
    BY DEF TypeInv, TypeOK, SenderTypeOK
  <2> QED
    BY <2>1, HeightIsInt DEF Executing
<1>14. bmc.height <= k /\ bmc.height < k
  BY <1>9, <1>13, SMT
<1>15. Covering(txs', bmc.height, k)
  <2>1. \A i \in 1 .. Len(txs) : txs[i].msg.bu \in Int
    BY <1>3, TransactionOf
  <2>2. e \in FullTransactions /\ txs \in Seq(FullTransactions) /\ e.id = Label(k) /\ e.msg.bu = k
    BY <1>3, <1>8, <1>11
  <2>3. Covering(Append(txs, e), bmc.height, k)
    BY ONLY <1>7, <1>13, <2>1, <2>2, f \in BlockHeights, CoveringAppend
  <2> QED
    BY ONLY <1>2, <2>3
<1>16. Executing(k)'
  <2>1. ASSUME NEW i \in 1 .. Len(txs')
        PROVE  IF bmc.height < txs'[i].msg.bu THEN txs'[i].st = "pool" /\ txs'[i].code = NoCode
               ELSE txs'[i].st \in {"done", "result"} /\ txs'[i].code = "SUCCESS"
    <3>1. CASE i = n + 1
      <4>1. bmc.height < txs'[i].msg.bu /\ txs'[i].st = "pool" /\ txs'[i].code = NoCode
        BY <1>8, <1>11, <1>14, <3>1
      <4> QED
        BY <4>1
    <3>2. CASE i \in 1 .. n
      BY <1>10, <1>11, <3>2 DEF Executing
    <3> QED
      BY <1>12, <3>1, <3>2
  <2> QED
    BY <1>14, <1>15, <2>1 DEF Executing, Covering, Has
<1>17. /\ Covering(rms, f, t) /\ \A i \in 1 .. Len(rms) : rms[i].sent <=> rms[i].msg.bu <= f
  BY DEF Held, Ready
<1>18. Has(rms, k)
  BY <1>7, <1>9, <1>17 DEF Covering
<1>19. Same(rms, rms') /\ \A i \in 1 .. Len(rms') : rms'[i].sent <=> rms'[i].msg.bu <= k
  BY <1>1, <1>3, <1>7, <1>17, <1>18, MessageMarked
<1>20. Covering(rms', k, t) /\ Has(rms', k)
  <2>1. Covering(rms', f, t) /\ Has(rms', k)
    BY <1>17, <1>18, <1>19, SameCovers
  <2>2. \A x \in BlockHeights : k < x => f < x
    BY <1>9, HeightIsInt, SMT
  <2> QED
    BY <2>1, <2>2 DEF Covering
<1>21. /\ pc' = pc /\ loc'[p] = v /\ \A q \in Procs \ {p} : pc[q] \in {"idle", "handle", "report", "resync"}
  <2>1. loc'[p] = v
    BY <1>1 DEF TypeInv, TypeOK, LinkTypeOK, SetLoc
  <2> QED
    BY <1>1, <2>1, OtherWaits DEF Holding
<1>22. Ready(k, t)'
  <2>1. \A q \in Procs : Sends(k, t, pc'[q], loc'[q])
    BY <1>1, <1>7, <1>21 DEF Sends
  <2> QED
    BY <1>7, <1>19, <1>20, <2>1 DEF Ready, Covering, Has, Sends, Above
<1>23. \A q \in Procs : pc'[q] \notin Works \union {"success", "suspend", "build"}
  BY <1>1, <1>21 DEF Works
<1>24. Tip(t)'
  <2>1. t = bls.height
    BY <1>21, <1>23 DEF Held, Tip, Works
  <2> QED
    BY <1>1, <1>23, <2>1 DEF Tip
<1>25. Done(k)'
  <2>1. pc'["send"] # "success" /\ pc'["send"] # "resync"
    BY <1>21, <1>23 DEF Held, Done, Procs
  <2> QED
    BY <2>1 DEF Done
<1>26. Queued(k)'
  <2>1. Ends(queue', k)
    <3>1. queue \in Seq(Id) /\ Ends(queue, f)
      BY DEF TypeInv, TypeOK, SenderTypeOK, Held, Queued
    <3>2. Ends(Append(queue, Label(k)), k)
      BY <1>9, <3>1, QueueAppend
    <3> QED
      BY ONLY <1>2, <1>7, <3>2
  <2>2. Awaited(k)'
    <3>1. txs'[n + 1].msg.bu = k /\ txs'[n + 1].st # "result"
      BY <1>8, <1>11
    <3> QED
      BY <1>11, <3>1 DEF Awaited
  <2> QED
    BY <1>20, <2>1, <2>2 DEF Queued, Ends, Has, Last
<1>27. PICK j \in 1 .. Len(rms') : rms'[j].msg.bu = k
  BY <1>20 DEF Has
<1>28. Waking'
  <2>1. rms'[j].id = Label(k)
    BY ONLY <1>20, <1>27, Zenon DEF Covering
  <2>2. txs'[n + 1].id = Label(k)
    BY <1>8, <1>11
  <2>3. Wake'
    BY <1>11, <2>1, <2>2 DEF Wake
  <2>4. rms' # <<>>
    BY <1>27, SMT
  <2> QED
    BY <2>3, <2>4 DEF Waking
<1>29. Supplied'
  BY <1>23 DEF Supplied, Supplies, Works
<1> QED
  BY <1>9, <1>16, <1>22, <1>24, <1>25, <1>26, <1>28, <1>29 DEF Held

-----------------------------------------------------------------------------
(***************************************************************************)
(* Results.                                                                *)
(***************************************************************************)
\* A message's position is its block's.
LEMMA LabelledWell ==
  ASSUME DeliveryInv, rms \in Seq(FullMessages), NEW f, NEW t, Covering(rms, f, t), NEW i \in 1 .. Len(rms)
  PROVE  rms[i].bls.height = rms[i].msg.bu
<1>1. rms[i] \in GoodMessages
  BY SMT DEF DeliveryInv, Built
<1>2. rms[i].id[1] = rms[i].bls.height
  BY <1>1 DEF GoodMessages
<1>3. rms[i].id = Label(rms[i].msg.bu)
  BY DEF Covering
<1> QED
  BY ONLY <1>2, <1>3 DEF Label

\* A transaction whose result is at hand is removed.
LEMMA ResultTaken ==
  ASSUME TypeInv, Sending, NEW f \in BlockHeights, Executing(f), NEW i \in DOMAIN txs,
         txs[i].st \in {"done", "result"}, txs' = RemoveAt(txs, i), UNCHANGED <<bmc, queue, rms>>
  PROVE  /\ i \in 1 .. Len(txs) /\ txs[i].code = "SUCCESS" /\ txs[i].id = Label(txs[i].msg.bu)
         /\ txs[i].msg.bu \in BlockHeights /\ txs[i].msg.bu <= f
         /\ (\E j \in 1 .. Len(txs') : txs'[j].msg.bu = f) => txs[i].msg.bu < f
         /\ Executing(f)' /\ (Queued(f) /\ txs[i].st = "result" => Queued(f)')
         /\ \A k \in 1 .. Len(txs) : k # i => \E j \in 1 .. Len(txs') : txs'[j] = txs[k]
<1>1. txs \in Seq(FullTransactions)
  BY DEF Sending
<1>2. i \in 1 .. Len(txs)
  BY <1>1, SeqLen, SMT
<1>3. /\ bmc.height <= f /\ Covering(txs, bmc.height, f)
      /\ \A j \in 1 .. Len(txs) :
           IF bmc.height < txs[j].msg.bu THEN txs[j].st = "pool" /\ txs[j].code = NoCode
           ELSE txs[j].st \in {"done", "result"} /\ txs[j].code = "SUCCESS"
  BY DEF Executing
<1>4. ~(bmc.height < txs[i].msg.bu) /\ txs[i].code = "SUCCESS"
  <2>1. ~(bmc.height < txs[i].msg.bu)
    BY <1>2, <1>3
  <2> QED
    BY <1>2, <1>3, <2>1
<1>5. txs[i].id = Label(txs[i].msg.bu) /\ txs[i].msg.bu <= f /\ txs[i].msg.bu \in BlockHeights
  BY <1>1, <1>2, <1>3, TransactionOf DEF Covering
<1>6. /\ \E m : Picks(txs, txs', m, bmc.height)
      /\ \A j \in 1 .. Len(txs') : \E k \in 1 .. Len(txs) : txs'[j] = txs[k] /\ k # i
      /\ \A k \in 1 .. Len(txs) : k # i => \E j \in 1 .. Len(txs') : txs'[j] = txs[k]
  <2>1. Removed(txs, txs', i, bmc.height)
    BY ONLY <1>1, <1>2, <1>4, txs' = RemoveAt(txs, i), RemoveAtPicks, Zenon
  <2> QED
    BY <2>1 DEF Removed
<1>7. Covering(txs', bmc.height, f) /\ \A k : Has(txs', k) => Has(txs, k)
  BY <1>3, <1>6, CoveringPicks
<1>8. Executing(f)'
  <2>1. ASSUME NEW j \in 1 .. Len(txs')
        PROVE  IF bmc.height < txs'[j].msg.bu THEN txs'[j].st = "pool" /\ txs'[j].code = NoCode
               ELSE txs'[j].st \in {"done", "result"} /\ txs'[j].code = "SUCCESS"
    <3>1. PICK k \in 1 .. Len(txs) : txs'[j] = txs[k]
      BY <1>6
    <3>2. IF bmc.height < txs[k].msg.bu THEN txs[k].st = "pool" /\ txs[k].code = NoCode
          ELSE txs[k].st \in {"done", "result"} /\ txs[k].code = "SUCCESS"
      BY <1>3
    <3> QED
      BY ONLY <3>1, <3>2
  <2> QED
    BY <1>3, <1>7, <2>1 DEF Executing, Covering, Has
<1>9. ASSUME Queued(f), txs[i].st = "result" PROVE Queued(f)'
  <2>1. ASSUME queue # <<>> PROVE Awaited(f)'
    <3>1. PICK k \in 1 .. Len(txs) : txs[k].msg.bu = f /\ txs[k].st # "result"
      BY <1>9, <2>1 DEF Queued, Awaited
    <3>2. PICK j \in 1 .. Len(txs') : txs'[j] = txs[k]
      BY <1>6, <1>9, <3>1
    <3>3. txs'[j].msg.bu = f /\ txs'[j].st # "result"
      BY ONLY <3>1, <3>2
    <3> QED
      BY <3>3 DEF Awaited
  <2>2. Has(txs', f) => Has(rms, f)
    BY <1>7, <1>9 DEF Queued
  <2> QED
    BY <1>9, <2>1, <2>2 DEF Queued, Ends, Has, Last
<1>10. ASSUME NEW j \in 1 .. Len(txs'), txs'[j].msg.bu = f PROVE txs[i].msg.bu < f
  <2>1. PICK k \in 1 .. Len(txs) : txs'[j] = txs[k] /\ k # i
    BY <1>6
  <2>2. txs[k].msg.bu = f
    BY ONLY <1>10, <2>1
  <2>3. i \in Int /\ k \in Int /\ f \in Int /\ txs[i].msg.bu \in Int
    BY <1>1, <1>2, HeightIsInt, TransactionOf, SMT
  <2>4. \A x, y \in 1 .. Len(txs) : x < y => txs[x].msg.bu < txs[y].msg.bu
    BY <1>3 DEF Covering
  <2>5. i < k \/ k < i
    BY <2>1, <2>3, SMT
  <2>6. CASE i < k
    BY <1>2, <2>2, <2>4, <2>6
  <2>7. CASE k < i
    <3>1. f < txs[i].msg.bu
      BY <1>2, <2>2, <2>4, <2>7
    <3> QED
      BY <1>5, <2>3, <3>1, SMT
  <2> QED
    BY <2>5, <2>6, <2>7
<1> QED
  BY <1>2, <1>4, <1>5, <1>6, <1>8, <1>9, <1>10

LEMMA NotFound ==
  ASSUME rms \in Seq(FullMessages), NEW id, getRelayMessageForId(id) = 0, NEW j \in 1 .. Len(rms)
  PROVE  rms[j].id # id
<1> DEFINE I == {i \in 1 .. Len(rms) : rms[i].id = id}
<1>1. getRelayMessageForId(id) = IF I # {} THEN Min(I) ELSE 0
  BY DEF getRelayMessageForId, SelectInSeq
<1>2. I \subseteq Nat /\ 0 \notin I
  BY BlockOf, SMT
<1>3. I = {}
  <2> HIDE DEF I
  <2> QED
    BY <1>1, <1>2, NatMin
<1> QED
  BY <1>3

LEMMA IgnoreCalm ==
  ASSUME TypeInv, Sending, NEW f \in BlockHeights, NEW t, Executing(f), Held(f, t), bmc' = bmc,
         NEW i \in DOMAIN txs, IgnoreResult(i)
  PROVE  Executing(f)' /\ Held(f, t)'
<1>1. /\ pc["send"] = "idle" /\ txs[i].st = "result" /\ txs' = RemoveAt(txs, i)
      /\ UNCHANGED <<relayState, bls, rms, rmi, pc, loc, brss, queue>>
  BY DEF IgnoreResult, lnkVars, rcvVars
<1>2. /\ i \in 1 .. Len(txs) /\ txs[i].code = "SUCCESS" /\ Executing(f)' /\ Queued(f)'
      /\ \A k \in 1 .. Len(txs) : k # i => \E j \in 1 .. Len(txs') : txs'[j] = txs[k]
  BY <1>1, ResultTaken DEF Held
<1>3. getRelayMessageForId(txs[i].id) = 0
  BY <1>2 DEF IgnoreResult
<1>4. ASSUME Wake PROVE Wake'
  <2>1. PICK k \in 1 .. Len(txs), j \in 1 .. Len(rms) : rms[j].id = txs[k].id
    BY <1>1, <1>4 DEF Wake
  <2>2. rms \in Seq(FullMessages)
    BY DEF Sending, FullList
  <2>3. k # i
    BY <1>3, <2>1, <2>2, NotFound
  <2>4. PICK m \in 1 .. Len(txs') : txs'[m] = txs[k]
    BY <1>2, <2>3
  <2>5. rms[j].id = txs'[m].id
    BY ONLY <2>1, <2>4
  <2> QED
    BY <1>1, <2>5 DEF Wake
<1>5. Waking'
  BY <1>1, <1>4 DEF Held, Waking
<1>6. Ready(f, t)'
  BY <1>1 DEF Held, Ready, Covering, Has, Sends, Above
<1>7. Tip(t)'
  BY <1>1 DEF Held, Tip, Target
<1>8. Done(f)'
  BY <1>1 DEF Done
<1>9. Supplied'
  BY <1>1 DEF Held, Supplied, Supplies
<1> QED
  BY <1>2, <1>5, <1>6, <1>7, <1>8, <1>9 DEF Held

LEMMA TakeCalm ==
  ASSUME TypeInv, DeliveryInv, Sending, NEW f \in BlockHeights, NEW t, Executing(f), Held(f, t), bmc' = bmc,
         NEW i \in DOMAIN txs, ResultSuccess(i)
  PROVE  Executing(f)' /\ Held(f, t)'
<1> DEFINE m == getRelayMessageForId(txs[i].id)
           v == [loc["send"] EXCEPT !.done = rms[m].bls, !.rms = removeRelayMessage(rms, rms[m].bls),
                                    !.rss = removeReceiveStatus(rss, rms[m].bls)]
<1>1. /\ pc["send"] = "idle" /\ txs[i].st = "result" /\ m # 0 /\ txs' = RemoveAt(txs, i)
      /\ Goto("send", "success") /\ SetLoc("send", v)
      /\ UNCHANGED <<relayState, bls, rms, rmi, brss, queue>>
  BY DEF ResultSuccess, KnownResult, rcvVars
<1>2. /\ txs[i].id = Label(txs[i].msg.bu) /\ txs[i].msg.bu <= f
      /\ (\E j \in 1 .. Len(txs') : txs'[j].msg.bu = f) => txs[i].msg.bu < f
      /\ Executing(f)' /\ Queued(f)'
  BY <1>1, ResultTaken DEF Held
<1>3. loc["send"] \in Locals /\ rms \in Seq(RelayMessage) /\ "send" \in Procs
  BY DEF TypeInv, TypeOK, LinkTypeOK, Procs
<1>4. v.done = rms[m].bls
  BY <1>3 DEF Locals
<1> HIDE DEF v
<1>5. m \in 1 .. Len(rms) /\ rms[m].id = txs[i].id
  BY <1>1, <1>3, RelayMessageForId, SeqLen, SMT
<1> HIDE DEF m
<1>6. Covering(rms, f, t) /\ rms \in Seq(FullMessages)
  BY DEF Held, Ready, Sending, FullList
<1>7. v.done.height = rms[m].msg.bu
  BY <1>4, <1>5, <1>6, LabelledWell
<1>8. rms[m].id = Label(rms[m].msg.bu)
  BY <1>5, <1>6 DEF Covering
<1>9. rms[m].msg.bu = txs[i].msg.bu
  BY ONLY <1>2, <1>5, <1>8, LabelIs, Zenon
<1>10. v.done.height <= f /\ ((\E j \in 1 .. Len(txs') : txs'[j].msg.bu = f) => v.done.height < f)
  BY ONLY <1>2, <1>7, <1>9
<1>11. /\ pc'["send"] = "success" /\ loc'["send"] = v
       /\ \A q \in Procs \ {"send"} : pc'[q] = pc[q] /\ loc'[q] = loc[q]
  BY <1>1, <1>3, Moved
<1>12. Ready(f, t)'
  <2>1. \A q \in Procs : Sends(f, t, pc'[q], loc'[q])
    BY <1>11 DEF Held, Ready, Sends
  <2> QED
    BY <1>1, <2>1 DEF Held, Ready, Covering, Has, Sends, Above
<1>13. Tip(t)'
  <2>1. ASSUME \A q \in Procs : pc'[q] \notin {"proof", "addproof"} PROVE t = bls.height
    <3>1. \A q \in Procs : pc[q] \notin {"proof", "addproof"}
      BY <1>1, <1>11, <2>1
    <3> QED
      BY <3>1 DEF Held, Tip
  <2>2. ASSUME NEW q \in Procs, pc'[q] \in Works PROVE IsNext(t, Target(pc'[q], loc'[q], rmi))
    <3>1. q # "send"
      BY <1>11, <2>2 DEF Works
    <3> QED
      BY <1>11, <2>2, <3>1 DEF Held, Tip
  <2> QED
    BY <1>1, <2>1, <2>2 DEF Tip, Target
<1>14. Done(f)'
  BY <1>10, <1>11 DEF Done, Has
<1>15. Waking'
  <2>1. Wake'
    BY <1>11 DEF Wake
  <2>2. ASSUME relayState' = "INIT", NEW q \in Procs, pc'[q] = "send", ~loc'[q].first PROVE rms' # <<>>
    BY <1>1, <1>11, <2>2 DEF Held, Waking
  <2> QED
    BY <2>1, <2>2 DEF Waking
<1>16. Supplied'
  <2>1. \A q \in Procs : Supplies(pc'[q], loc'[q], brss, rmi)
    BY <1>11 DEF Held, Supplied, Supplies
  <2> QED
    BY <1>1, <2>1 DEF Supplied, Supplies
<1> QED
  BY <1>2, <1>12, <1>13, <1>14, <1>15, <1>16 DEF Held

LEMMA SuccessCalm ==
  ASSUME TypeInv, DeliveryInv, ~Preemptive, Sending, NEW b, NEW c, Process(b, c),
         NEW f \in BlockHeights, NEW t, Held(f, t), MayRun("send"), SuccessRelayMessage
  PROVE  Held(f, t)'
<1> DEFINE done == loc["send"].done
           v == [Idle EXCEPT !.done = done, !.ret = "report"]
<1>1. /\ pc["send"] = "success" /\ Goto("send", "handle") /\ SetLoc("send", v)
      /\ rms' = loc["send"].rms /\ relayState' = "RUNNING" /\ UNCHANGED <<bls, rmi, brss, queue, txs>>
  BY DEF SuccessRelayMessage, rcvVars, sndVars
<1>2. rms' = removeRelayMessage(rms, done)
  BY <1>1 DEF Process, Slices
<1>3. done.height <= f /\ (Has(txs, f) => done.height < f)
  BY <1>1 DEF Held, Done
<1>4. "send" \in Procs /\ done.height \in Int
  <2>1. "send" \in Procs /\ done \in Position
    BY DEF TypeInv, TypeOK, LinkTypeOK, Locals, Procs
  <2> QED
    BY <2>1, PositionIs, SMT
<1> HIDE DEF done, v
<1>5. /\ pc'["send"] = "handle" /\ loc'["send"] = v
      /\ \A q \in Procs \ {"send"} : pc'[q] = pc[q] /\ loc'[q] = loc[q] /\ pc[q] \in Waiting
  BY <1>1, <1>4, Moved DEF MayRun
<1>6. rms \in Seq(FullMessages) /\ Covering(rms, f, t)
      /\ \A i \in 1 .. Len(rms) : rms[i].sent <=> rms[i].msg.bu <= f
  BY DEF Sending, FullList, Held, Ready
<1>7. \A i \in 1 .. Len(rms) : rms[i].bls.height = rms[i].msg.bu
  BY <1>6, LabelledWell
<1>8. /\ Covering(rms', f, t)
      /\ \A i \in 1 .. Len(rms') : \E j \in 1 .. Len(rms) : rms'[i] = rms[j]
      /\ \A k \in BlockHeights : done.height < k /\ Has(rms, k) => Has(rms', k)
  BY ONLY <1>2, <1>3, <1>4, <1>6, <1>7, f \in BlockHeights, MessagesRemoved
<1>9. Ready(f, t)'
  <2>1. ASSUME NEW i \in 1 .. Len(rms') PROVE rms'[i].sent <=> rms'[i].msg.bu <= f
    <3>1. PICK j \in 1 .. Len(rms) : rms'[i] = rms[j]
      BY <1>8
    <3>2. rms[j].sent <=> rms[j].msg.bu <= f
      BY <1>6
    <3> QED
      BY ONLY <3>1, <3>2
  <2>2. \A q \in Procs : Sends(f, t, pc'[q], loc'[q])
    BY <1>5 DEF Held, Ready, Sends
  <2> QED
    BY <1>8, <2>1, <2>2 DEF Held, Ready, Covering, Has, Sends, Above
<1>10. Tip(t)'
  <2>1. ASSUME \A q \in Procs : pc'[q] \notin {"proof", "addproof"} PROVE t = bls.height
    <3>1. \A q \in Procs : pc[q] \notin {"proof", "addproof"}
      BY <1>1, <1>5, <2>1
    <3> QED
      BY <3>1 DEF Held, Tip
  <2>2. ASSUME NEW q \in Procs, pc'[q] \in Works PROVE IsNext(t, Target(pc'[q], loc'[q], rmi))
    <3>1. q # "send"
      BY <1>5, <2>2 DEF Works
    <3> QED
      BY <1>5, <2>2, <3>1 DEF Held, Tip
  <2> QED
    BY <1>1, <2>1, <2>2 DEF Tip, Target
<1>11. Done(f)'
  BY <1>5 DEF Done
<1>12. Queued(f)'
  <2>1. Has(txs, f) => Has(rms', f)
    BY <1>3, <1>8 DEF Held, Queued
  <2> QED
    BY <1>1, <2>1 DEF Held, Queued, Ends, Awaited, Has, Last
<1>13. Waking'
  <2>1. \A q \in Procs : pc'[q] # "suspend"
    BY <1>5 DEF Waiting
  <2> QED
    BY <1>1, <2>1 DEF Waking
<1>14. Supplied'
  <2>1. \A q \in Procs : Supplies(pc'[q], loc'[q], brss, rmi)
    BY <1>5 DEF Held, Supplied, Supplies
  <2> QED
    BY <1>1, <2>1 DEF Supplied, Supplies
<1> QED
  BY <1>9, <1>10, <1>11, <1>12, <1>13, <1>14 DEF Held

-----------------------------------------------------------------------------
(***************************************************************************)
(* Steps of the receiver, of the sender and of the chain.                  *)
(***************************************************************************)
LEMMA ReceiverCalm ==
  ASSUME NEW f, NEW t, Held(f, t), \A p \in Procs : pc[p] \in Waiting,
         UNCHANGED <<relayState, bls, rms, rmi, pc, loc, queue, txs>>
  PROVE  Held(f, t)'
<1>1. Ready(f, t)'
  BY DEF Held, Ready, Covering, Has, Sends, Above
<1>2. Tip(t)'
  BY DEF Held, Tip, Target
<1>3. Done(f)'
  BY DEF Held, Done, Has
<1>4. Queued(f)'
  BY DEF Held, Queued, Ends, Awaited, Has, Last
<1>5. Waking'
  BY DEF Held, Waking, Wake
<1>6. Supplied'
  BY DEF Held, Supplied, Supplies, Waiting
<1> QED
  BY <1>1, <1>2, <1>3, <1>4, <1>5, <1>6 DEF Held

\* Transactions change their states.
LEMMA TransactionsCalm ==
  ASSUME NEW f, NEW t, Held(f, t), Same(txs, txs'), UNCHANGED <<relayState, bls, rms, rmi, pc, loc, brss>>,
         Ends(queue', f), queue' # <<>> => Awaited(f)'
  PROVE  Held(f, t)'
<1>1. /\ Len(txs') = Len(txs)
      /\ \A i \in 1 .. Len(txs) : txs'[i].id = txs[i].id /\ txs'[i].msg = txs[i].msg
  BY DEF Same
<1>2. ASSUME NEW k, Has(txs', k) PROVE Has(txs, k)
  <2>1. PICK i \in 1 .. Len(txs') : txs'[i].msg.bu = k
    BY <1>2 DEF Has
  <2>2. i \in 1 .. Len(txs) /\ txs[i].msg.bu = k
    <3>1. i \in 1 .. Len(txs)
      BY <1>1, <2>1, SMT
    <3>2. txs'[i].msg = txs[i].msg
      BY <1>1, <3>1
    <3> QED
      BY ONLY <2>1, <3>1, <3>2
  <2> QED
    BY <2>2 DEF Has
<1>3. Ready(f, t)'
  BY DEF Held, Ready, Covering, Has, Sends, Above
<1>4. Tip(t)'
  BY DEF Held, Tip, Target
<1>5. Done(f)'
  <2>1. pc["send"] = "success" => loc["send"].done.height <= f /\ (Has(txs', f) => loc["send"].done.height < f)
    BY <1>2 DEF Held, Done
  <2> QED
    BY <2>1 DEF Held, Done, Has
<1>6. Queued(f)'
  <2>1. Has(txs', f) => Has(rms, f)
    BY <1>2 DEF Held, Queued
  <2> QED
    BY <2>1 DEF Queued, Ends, Has, Last
<1>7. Waking'
  <2>1. ASSUME Wake PROVE Wake'
    <3>1. CASE pc["send"] = "success"
      BY <3>1 DEF Wake
    <3>2. CASE pc["send"] # "success"
      <4>1. PICK i \in 1 .. Len(txs), j \in 1 .. Len(rms) : rms[j].id = txs[i].id
        BY <2>1, <3>2 DEF Wake
      <4>2. i \in 1 .. Len(txs') /\ rms'[j].id = txs'[i].id /\ j \in 1 .. Len(rms')
        <5>1. i \in 1 .. Len(txs')
          BY <1>1, <4>1, SMT
        <5>2. txs'[i].id = txs[i].id
          BY <1>1, <4>1
        <5> QED
          BY <4>1, <5>1, <5>2
      <4> QED
        BY <4>2 DEF Wake
    <3> QED
      BY <3>1, <3>2
  <2> QED
    BY <2>1 DEF Held, Waking
<1>8. Supplied'
  BY DEF Held, Supplied, Supplies
<1> QED
  BY <1>3, <1>4, <1>5, <1>6, <1>7, <1>8 DEF Held

\* Transaction i becomes e.
LEMMA TransactionSame ==
  ASSUME txs \in Seq(FullTransactions), NEW i \in 1 .. Len(txs), NEW e, e.id = txs[i].id, e.msg = txs[i].msg,
         txs' = [txs EXCEPT ![i] = e]
  PROVE  /\ Same(txs, txs') /\ txs'[i] = e
         /\ \A j \in 1 .. Len(txs) : j # i => txs'[j] = txs[j]
<1>1. DOMAIN txs = 1 .. Len(txs) /\ Len(txs) \in Nat
  BY SeqLen, SMT
<1>2. Len(txs') = Len(txs)
  BY <1>1, SMT
<1>3. txs'[i] = e /\ \A j \in 1 .. Len(txs) : j # i => txs'[j] = txs[j]
  BY <1>1, SMT
<1>4. ASSUME NEW j \in 1 .. Len(txs) PROVE txs'[j].id = txs[j].id /\ txs'[j].msg = txs[j].msg
  <2>1. CASE j = i
    BY ONLY <1>3, <2>1, e.id = txs[i].id, e.msg = txs[i].msg
  <2>2. CASE j # i
    BY <1>3, <2>2
  <2> QED
    BY <2>1, <2>2
<1> QED
  BY <1>2, <1>3, <1>4 DEF Same

LEMMA ResultCalm ==
  ASSUME TypeInv, ~Preemptive, Sending, NEW f \in BlockHeights, NEW t, Executing(f), Held(f, t),
         NEW i \in DOMAIN txs, Result(i), UNCHANGED <<relayState, bls, rms, rmi, pc, loc, brss, bmc>>
  PROVE  Executing(f)' /\ Held(f, t)'
<1>1. txs \in Seq(FullTransactions) /\ queue \in Seq(Id)
  BY DEF Sending, TypeInv, TypeOK, SenderTypeOK
<1>2. i \in 1 .. Len(txs)
  BY <1>1, SeqLen, SMT
<1>3. /\ bmc.height <= f /\ Covering(txs, bmc.height, f)
      /\ \A j \in 1 .. Len(txs) :
           IF bmc.height < txs[j].msg.bu THEN txs[j].st = "pool" /\ txs[j].code = NoCode
           ELSE txs[j].st \in {"done", "result"} /\ txs[j].code = "SUCCESS"
  BY DEF Executing
<1>4. txs[i].st = "done" /\ queue' = dequeue(txs[i].id)
  BY DEF Result, SetQueue
<1>5. ~(bmc.height < txs[i].msg.bu)
  BY <1>2, <1>3, <1>4
<1>6. txs[i].code = "SUCCESS"
  BY <1>2, <1>3, <1>5
<1>7. PICK e : e = [txs[i] EXCEPT !.st = "result"]
  OBVIOUS
<1>8. e.id = txs[i].id /\ e.msg = txs[i].msg /\ e.st = "result" /\ e.code = "SUCCESS"
  <2>1. txs[i] \in Transaction
    BY <1>1, <1>2, TransactionOf DEF FullTransactions
  <2> QED
    BY <1>6, <1>7, <2>1 DEF Transaction
<1>9. txs' = [txs EXCEPT ![i] = e]
  BY <1>6, <1>7, SMT DEF Result, Uncoded
<1>10. Same(txs, txs') /\ txs'[i] = e /\ \A j \in 1 .. Len(txs) : j # i => txs'[j] = txs[j]
  BY <1>1, <1>2, <1>8, <1>9, TransactionSame
<1>11. Len(txs') = Len(txs)
  BY <1>10 DEF Same
<1>12. Executing(f)'
  <2>1. Covering(txs', bmc.height, f)
    BY <1>3, <1>10, SameCovers
  <2>2. ASSUME NEW j \in 1 .. Len(txs')
        PROVE  IF bmc.height < txs'[j].msg.bu THEN txs'[j].st = "pool" /\ txs'[j].code = NoCode
               ELSE txs'[j].st \in {"done", "result"} /\ txs'[j].code = "SUCCESS"
    <3>1. j \in 1 .. Len(txs)
      BY <1>11, <2>2, SMT
    <3>2. CASE j = i
      <4>1. ~(bmc.height < txs'[j].msg.bu) /\ txs'[j].st = "result" /\ txs'[j].code = "SUCCESS"
        BY ONLY <1>5, <1>8, <1>10, <3>2
      <4> QED
        BY ONLY <4>1
    <3>3. CASE j # i
      <4>1. txs'[j] = txs[j]
        BY <1>10, <3>1, <3>3
      <4>2. IF bmc.height < txs[j].msg.bu THEN txs[j].st = "pool" /\ txs[j].code = NoCode
            ELSE txs[j].st \in {"done", "result"} /\ txs[j].code = "SUCCESS"
        BY <1>3, <3>1
      <4> QED
        BY ONLY <4>1, <4>2
    <3> QED
      BY <3>2, <3>3
  <2> QED
    BY <1>3, <2>1, <2>2 DEF Executing, Covering, Has
<1>13. Ends(queue, f) /\ (queue # <<>> => Awaited(f))
  BY DEF Held, Queued
<1>14. PICK h : h = txs[i].msg.bu
  OBVIOUS
<1>15. txs[i].id = Label(h)
  BY <1>2, <1>3, <1>14 DEF Covering
<1>16. queue' = dequeue(Label(h))
  BY ONLY <1>4, <1>15
<1>17. Ends(queue', f) /\ (queue' # <<>> => queue # <<>> /\ h # f)
  BY <1>1, <1>13, <1>16, QueueDrop
<1>18. ASSUME queue' # <<>> PROVE Awaited(f)'
  <2>1. PICK j \in 1 .. Len(txs) : txs[j].msg.bu = f /\ txs[j].st # "result"
    BY <1>13, <1>17, <1>18 DEF Awaited
  <2>2. j # i
    BY <1>14, <1>17, <1>18, <2>1
  <2>3. txs'[j] = txs[j] /\ j \in 1 .. Len(txs')
    BY <1>10, <1>11, <2>2
  <2>4. txs'[j].msg.bu = f /\ txs'[j].st # "result"
    BY ONLY <2>1, <2>3
  <2> QED
    BY <2>3, <2>4 DEF Awaited
<1> QED
  BY <1>10, <1>12, <1>17, <1>18, TransactionsCalm

\* The transaction that the chain executes is the one for the next block, and succeeds.
LEMMA ExecutesNext ==
  ASSUME TypeInv, LeftAlone, Sending, NEW f \in BlockHeights, Executing(f), NEW i \in 1 .. Len(txs), Execute(i)
  PROVE  /\ txs[i].st = "pool" /\ bmc.height < txs[i].msg.bu /\ Verdict(txs[i].msg) = "SUCCESS"
         /\ \A j \in 1 .. Len(txs) : bmc.height < txs[j].msg.bu => ~(j < i)
<1>1. txs \in Seq(FullTransactions) /\ DeliveredWhole /\ Faults = {} /\ SequenceOffset = 0
  BY DEF Sending, LeftAlone, TakingTurns
<1>2. /\ bmc.height <= f /\ Covering(txs, bmc.height, f)
      /\ \A j \in 1 .. Len(txs) :
           IF bmc.height < txs[j].msg.bu THEN txs[j].st = "pool" /\ txs[j].code = NoCode
           ELSE txs[j].st \in {"done", "result"} /\ txs[j].code = "SUCCESS"
  BY DEF Executing
<1>3. txs[i].st \in {"pool", "orphan"} /\ \A j \in 1 .. (i - 1) : txs[j].st \notin {"pool", "orphan"}
  BY <1>1 DEF Execute, Pooled
<1>4. bmc.height < txs[i].msg.bu /\ txs[i].st = "pool"
  BY <1>2, <1>3
<1>5. ASSUME NEW j \in 1 .. Len(txs), bmc.height < txs[j].msg.bu, j < i PROVE FALSE
  <2>1. txs[j].st = "pool"
    BY <1>2, <1>5
  <2>2. j \in 1 .. (i - 1)
    BY <1>5, SMT
  <2> QED
    BY <1>3, <2>1, <2>2
<1>6. PICK k : k = txs[i].msg.bu
  OBVIOUS
<1>7. k \in BlockHeights /\ k \in Int /\ f \in Int /\ k <= f /\ bmc.height < k
  BY <1>1, <1>2, <1>4, <1>6, TransactionOf, HeightIsInt DEF Covering
<1>8. bmc.height \in BlockHeights /\ bmc.height \in Nat /\ bmc.rxSeq \in Int
  <2>1. bmc.height \in BlockHeights /\ bmc.rxSeq \in Int
    BY DEF TypeInv, TypeOK, SenderTypeOK
  <2> QED
    BY <2>1, HeightIsInt
<1>9. ASSUME NEW x \in BlockHeights, bmc.height < x PROVE k <= x
  <2>1. x \in Int
    BY HeightIsInt
  <2>2. CASE x <= f
    <3>1. PICK j \in 1 .. Len(txs) : txs[j].msg.bu = x
      BY <1>2, <1>9, <2>2 DEF Covering, Has
    <3>2. ~(j < i)
      BY <1>5, <1>9, <3>1
    <3>3. i < j => txs[i].msg.bu < txs[j].msg.bu
      BY <1>2 DEF Covering
    <3>4. i = j \/ i < j
      BY <1>1, <3>2, TransactionOf, SMT
    <3> QED
      BY <1>6, <1>7, <2>1, <3>1, <3>3, <3>4, SMT
  <2>3. CASE ~(x <= f)
    BY <1>7, <2>1, <2>3, SMT
  <2> QED
    BY <2>2, <2>3
<1>10. IsNext(bmc.height, k)
  BY <1>7, <1>9 DEF IsNext
<1>11. StartSeq(k) = EndSeq[bmc.height] /\ EndSeq[bmc.height] \in Nat
  BY <1>8, <1>10, UptoNext, UptoBlock
<1>12. bmc.rxSeq + SequenceOffset + 1 = StartSeq(k) + 1
  BY <1>1, <1>11 DEF DeliveredWhole
<1>13. PICK m : m = txs[i].msg
  OBVIOUS
<1>14. Whole(m) /\ m.bu = k
  BY <1>1, <1>6, <1>13, TransactionOf DEF FullTransactions
<1>15. ~(m.last # 0 /\ StartSeq(m.bu) + m.first # bmc.rxSeq + SequenceOffset + 1)
  BY ONLY <1>12, <1>14, Zenon DEF Whole
<1>16. ~(m.bu <= bmc.height) /\ m.bu \in BlockHeights /\ IsNext(bmc.height, m.bu)
  BY ONLY <1>7, <1>8, <1>10, <1>14
<1>17. Verdict(m) = "SUCCESS"
  BY <1>15, <1>16 DEF Verdict
<1> QED
  BY <1>4, <1>5, <1>13, <1>17

LEMMA ExecuteCalm ==
  ASSUME TypeInv, LeftAlone, Sending, NEW f \in BlockHeights, Executing(f),
         NEW i \in DOMAIN txs, Execute(i), UNCHANGED <<relayState, bls, rms, rmi, pc, loc, brss>>
  PROVE  Executing(f)' /\ \A t : Held(f, t) => Held(f, t)'
<1>1. txs \in Seq(FullTransactions)
  BY DEF Sending
<1>2. i \in 1 .. Len(txs)
  BY <1>1, SeqLen, SMT
<1>3. /\ txs[i].st = "pool" /\ bmc.height < txs[i].msg.bu /\ Verdict(txs[i].msg) = "SUCCESS"
      /\ \A j \in 1 .. Len(txs) : bmc.height < txs[j].msg.bu => ~(j < i)
  BY <1>2, ExecutesNext
<1>4. /\ bmc.height <= f /\ Covering(txs, bmc.height, f)
      /\ \A j \in 1 .. Len(txs) :
           IF bmc.height < txs[j].msg.bu THEN txs[j].st = "pool" /\ txs[j].code = NoCode
           ELSE txs[j].st \in {"done", "result"} /\ txs[j].code = "SUCCESS"
  BY DEF Executing
<1>5. PICK e : e = [txs[i] EXCEPT !.st = "done", !.code = "SUCCESS"]
  OBVIOUS
<1>6. e.id = txs[i].id /\ e.msg = txs[i].msg /\ e.st = "done" /\ e.code = "SUCCESS"
  <2>1. txs[i] \in Transaction
    BY <1>1, <1>2, TransactionOf DEF FullTransactions
  <2> QED
    BY <1>5, <2>1 DEF Transaction
<1>7. txs' = [txs EXCEPT ![i] = e] /\ queue' = queue
  <2>1. Finish(i, "SUCCESS") /\ queue' = queue
    BY <1>3 DEF Execute
  <2>2. txs' = [txs EXCEPT ![i] = [@ EXCEPT !.st = "done", !.code = "SUCCESS"]]
    BY <1>3, <2>1, SMT DEF Finish
  <2> QED
    BY <1>5, <2>1, <2>2, SMT
<1>8. Same(txs, txs') /\ txs'[i] = e /\ \A j \in 1 .. Len(txs) : j # i => txs'[j] = txs[j]
  BY <1>1, <1>2, <1>6, <1>7, TransactionSame
<1>9. Len(txs') = Len(txs)
  BY <1>8 DEF Same
<1>10. PICK k : k = txs[i].msg.bu
  OBVIOUS
<1>11. bmc'.height = k
  BY <1>3, <1>10 DEF Execute, After
<1>12. k \in Int /\ bmc.height \in Int /\ k <= f /\ bmc.height < k
  <2>1. bmc.height \in BlockHeights
    BY DEF TypeInv, TypeOK, SenderTypeOK
  <2> QED
    BY <1>1, <1>2, <1>3, <1>4, <1>10, <2>1, TransactionOf, HeightIsInt DEF Covering
<1>13. Covering(txs', k, f)
  <2>1. Covering(txs', bmc.height, f)
    BY <1>4, <1>8, SameCovers
  <2>2. \A x \in BlockHeights : k < x => bmc.height < x
    BY <1>12, HeightIsInt, SMT
  <2> QED
    BY <2>1, <2>2 DEF Covering
<1>14. ASSUME NEW j \in 1 .. Len(txs)
       PROVE  IF k < txs'[j].msg.bu THEN txs'[j].st = "pool" /\ txs'[j].code = NoCode
              ELSE txs'[j].st \in {"done", "result"} /\ txs'[j].code = "SUCCESS"
  <2>1. CASE j = i
    <3>1. ~(k < txs'[j].msg.bu) /\ txs'[j].st = "done" /\ txs'[j].code = "SUCCESS"
      BY ONLY <1>6, <1>8, <1>10, <1>12, <2>1
    <3> QED
      BY ONLY <3>1
  <2>2. CASE j # i
    <3>1. txs'[j] = txs[j]
      BY <1>8, <2>2
    <3>2. PICK h : h = txs[j].msg.bu
      OBVIOUS
    <3>3. h \in Int
      BY <1>1, <3>2, TransactionOf
    <3>4. bmc.height < h <=> k < h
      <4>1. CASE j < i
        <5>1. h < k
          BY <1>2, <1>4, <1>10, <3>2, <4>1 DEF Covering
        <5>2. ~(bmc.height < h)
          BY <1>3, <3>2, <4>1
        <5> QED
          BY ONLY <1>12, <3>3, <5>1, <5>2
      <4>2. CASE i < j
        <5>1. k < h
          BY <1>2, <1>4, <1>10, <3>2, <4>2 DEF Covering
        <5> QED
          BY ONLY <1>12, <3>3, <5>1
      <4> QED
        BY <1>1, <1>2, <2>2, <4>1, <4>2, TransactionOf, SMT
    <3>5. IF bmc.height < h THEN txs[j].st = "pool" /\ txs[j].code = NoCode
          ELSE txs[j].st \in {"done", "result"} /\ txs[j].code = "SUCCESS"
      BY <1>4, <3>2
    <3> QED
      BY ONLY <3>1, <3>2, <3>4, <3>5
  <2> QED
    BY <2>1, <2>2
<1>15. Executing(f)'
  BY <1>9, <1>11, <1>12, <1>13, <1>14 DEF Executing, Covering, Has
<1>16. ASSUME NEW t, Held(f, t) PROVE Held(f, t)'
  <2>1. Ends(queue', f)
    BY <1>7, <1>16 DEF Held, Queued, Ends, Last
  <2>2. ASSUME queue' # <<>> PROVE Awaited(f)'
    <3>1. PICK j \in 1 .. Len(txs) : txs[j].msg.bu = f /\ txs[j].st # "result"
      BY <1>7, <1>16, <2>2 DEF Held, Queued, Awaited
    <3>2. txs'[j].msg = txs[j].msg /\ j \in 1 .. Len(txs')
      BY <1>8, <1>9 DEF Same
    <3>3. txs'[j].msg.bu = f
      BY ONLY <3>1, <3>2
    <3>4. CASE j = i
      BY <1>6, <1>8, <3>2, <3>3, <3>4 DEF Awaited
    <3>5. CASE j # i
      <4>1. txs'[j].st # "result"
        BY <1>8, <3>1, <3>5
      <4> QED
        BY <3>2, <3>3, <4>1 DEF Awaited
    <3> QED
      BY <3>4, <3>5
  <2> QED
    BY <1>8, <1>16, <2>1, <2>2, TransactionsCalm
<1> QED
  BY <1>15, <1>16

-----------------------------------------------------------------------------
(***************************************************************************)
(* The process does not end by itself.                                     *)
(***************************************************************************)
LEMMA NoError ==
  ASSUME TypeInv, LeftAlone, BlocksFit, NEW b \in BlockHeights, Process(b, b), ~Skips(b, b),
         NEW f, NEW t, Held(f, t)
  PROVE  ~Stop
<1>1. ASSUME InvalidSeq PROVE FALSE
  <2>1. PICK k : IsNext(cursor, k) /\ StartSeq(k) # bseq
    BY <1>1 DEF InvalidSeq
  <2>2. cursor \in Nat
    BY DEF TypeInv, TypeOK, ReceiverTypeOK
  <2>3. StartSeq(k) = Upto(cursor)
    BY <2>1, <2>2, UptoNext
  <2> QED
    BY <2>1, <2>3 DEF Process, Telling
<1>2. ASSUME NEW p \in Procs, SendError(p) PROVE FALSE
  BY <1>2 DEF SendError, LeftAlone
<1>3. ASSUME NEW p \in Procs, NoBlockUpdate(p) PROVE FALSE
  <2>1. loc[p].index \in 1 .. Len(brss) /\ loc[p].index = 0
    BY <1>3 DEF NoBlockUpdate, Held, Supplied, Supplies
  <2> QED
    BY <2>1, SMT
<1>4. ASSUME NEW p \in Procs, BuildProofError(p) PROVE FALSE
  <2>1. pc[p] = "proof" /\ bls.rxSeq < loc[p].seq /\ ~ValidProof(bls, NextProof)
    BY <1>4 DEF BuildProofError
  <2>2. b \in Nat
    BY HeightIsInt
  <2>3. PICK k : k = rmi.bu
    OBVIOUS
  <2>4. /\ NoProof(rmi) /\ k \in BlockHeights /\ In(brss, k) /\ bls.height = k
        /\ bls.rxSeq = StartSeq(k) /\ StartSeq(k) < EndSeq[k]
    BY <2>1, <2>2, <2>3, OneProof
  <2>5. BlockUpdateSize <= TxSizeLimit /\ Statuses(b, b, brss)
    BY <2>1 DEF Process, At, Telling
  <2>6. NextProof = BuildMessageProof(bls, TxSizeLimit - BlockUpdateSize)
    BY <2>4 DEF NextProof, NoProof
  <2>7. NextProof.first = 1 /\ Proves(k, NextProof.last)
    BY <2>2, <2>4, <2>5, <2>6, FirstProof, SMT
  <2>8. MessageCount(k) \in Nat
    BY <2>4, MessageCountType
  <2>9. NextProof.last \in 1 .. MessageCount(k)
    BY <2>7 DEF Proves
  <2>10. ValidProof(bls, NextProof)
    BY ONLY <2>4, <2>7, <2>8, <2>9 DEF ValidProof
  <2> QED
    BY <2>1, <2>10
<1> QED
  BY <1>1, <1>2, <1>3, <1>4 DEF Stop

LEMMA NoPanic ==
  ASSUME TypeInv, BlocksFit, Sending, NEW b, NEW c, Process(b, c), NEW f, NEW t, Executing(f), Held(f, t)
  PROVE  ~Panic
<1>1. ASSUME NEW p \in Procs, IndexOutOfRange(p) PROVE FALSE
  <2>1. loc[p].index \in 1 .. Len(brss) /\ loc[p].index > Len(brss)
    BY <1>1 DEF IndexOutOfRange, Held, Supplied, Supplies
  <2>2. Len(brss) \in Nat
    BY SeqLen, SMT DEF TypeInv, TypeOK, ReceiverTypeOK
  <2> QED
    BY <2>1, <2>2, SMT
<1>2. ASSUME NEW p \in Procs, NoReceiveStatus(p) PROVE FALSE
  <2>1. rss = <<>> /\ \E k : In(rss, k)
    BY <1>2 DEF NoReceiveStatus, Process, At, AtUpdate
  <2> QED
    BY <2>1, SMT DEF In
<1>3. ASSUME NEW p \in Procs, NilBlockProof(p) PROVE FALSE
  <2>1. pc[p] = "addproof" /\ (~loc[p].bu \/ TxSizeLimit < rmi.size)
    BY <1>3 DEF NilBlockProof, isOverLimit
  <2>2. loc[p].bu /\ BlockUpdateSize <= TxSizeLimit /\ rmi.size = BlockUpdateSize
    BY <2>1 DEF Process, At, Held, Supplied, Supplies
  <2>3. TxSizeLimit < BlockUpdateSize
    BY <2>1, <2>2
  <2> QED
    BY <2>2, <2>3, ReceiverAssumption, LinkAssumption, SMT
<1>4. ASSUME NEW i \in DOMAIN txs, ResultPanic(i) PROVE FALSE
  <2>1. txs[i].st = "result" /\ txs[i].code = "BMVUnknown"
    BY <1>4 DEF ResultPanic, KnownResult
  <2>2. i \in 1 .. Len(txs)
    BY SeqLen, SMT DEF Sending
  <2>3. IF bmc.height < txs[i].msg.bu THEN txs[i].st = "pool" /\ txs[i].code = NoCode
        ELSE txs[i].st \in {"done", "result"} /\ txs[i].code = "SUCCESS"
    BY <2>2 DEF Executing
  <2> QED
    BY ONLY <2>1, <2>3
<1> QED
  BY <1>1, <1>2, <1>3, <1>4 DEF Panic

-----------------------------------------------------------------------------
(***************************************************************************)
(* The invariant.                                                          *)
(***************************************************************************)
LEMMA CalmInit == LeftAlone /\ Init => CalmInv
<1> SUFFICES ASSUME LeftAlone, Init PROVE CalmInv
  OBVIOUS
<1>1. PICK h \in BlockHeights : /\ bmc = [height |-> h, rxSeq |-> EndSeq[h] - SequenceOffset]
                                /\ LinkInit(bmc)
  BY DEF Init
<1>2. txs = <<>> /\ queue = <<>> /\ mode = "run"
  BY DEF Init, SenderInit
<1>3. rms = <<>> /\ relayState = "INIT" /\ bls = bmc /\ bmc.height = h /\ \A p \in Procs : pc[p] = "idle"
  BY <1>1 DEF LinkInit
<1>4. 1 .. Len(<<>>) = {} /\ h <= h
  BY HeightIsInt, SMT
<1>5. Covering(txs, h, h) /\ Covering(rms, h, h)
  <2>1. \A list : list = <<>> => Covering(list, h, h)
    <3>1. \A k \in BlockHeights : ~(h < k /\ k <= h)
      BY HeightIsInt, SMT
    <3> QED
      BY <1>4, <3>1 DEF Covering
  <2> QED
    BY <1>2, <1>3, <2>1
<1>6. Executing(h)
  BY <1>2, <1>3, <1>4, <1>5 DEF Executing
<1>7. "send" \in Procs
  BY DEF Procs
<1>8. Ready(h, h)
  BY <1>3, <1>4, <1>5 DEF Ready, Sends
<1>9. Tip(h) /\ Done(h) /\ Supplied
  BY <1>3, <1>7 DEF Tip, Done, Supplied, Supplies, Works
<1>10. Queued(h)
  BY <1>2, <1>4 DEF Queued, Ends, Has
<1>11. Waking
  BY <1>3, <1>4 DEF Waking
<1> QED
  BY <1>2, <1>6, <1>8, <1>9, <1>10, <1>11 DEF CalmInv, Held
=============================================================================
