---------------------------- MODULE SenderProofs ----------------------------
(***************************************************************************)
(* The senders, for every value of the constants: what they tell the link  *)
(* is right, the BMC of ICON handles only whole messages, and the sender   *)
(* of the Ethereum bridge panics for one reason only.                      *)
(***************************************************************************)
EXTENDS MCSenders, Integers, Sequences, SequenceTheorems, TLAPS

USE SendersAssumption

-----------------------------------------------------------------------------
(***************************************************************************)
(* The ICON sender: what a result says.  Of the transactions of a message  *)
(* one has the index 0, the last one.  It is with the call of Relay under  *)
(* way, in the pool, or decided; and whoever asks for a result asks for    *)
(* the one of that transaction.                                            *)
(***************************************************************************)
Ranges == [msg : Nat, first : Int, last : Int]
Sendings == [fragment : BOOLEAN, index : Int, part : Ranges]
Polls == [msg : Nat, hash : Nat, retry : Int]
Results == [msg : Nat, err : {"SUCCESS", "REVERT"}]

IconTypeOK ==
  /\ msgs \in Seq(Nat \ {0}) /\ frags \in Seq(Sendings) /\ signs \in Nat /\ signed \in BOOLEAN
  /\ polls \subseteq Polls /\ results \subseteq Results
  /\ pool \in Seq([hash : Nat, tx : Sendings]) /\ DOMAIN done \subseteq Nat
  /\ cache \in [next : Int, parts : Seq(Ranges)] /\ taken \in Seq(Seq(Ranges))
  /\ faults \in IconFaults

\* The BMC has handled message m.
Handled(tk, m) == \E i \in 1 .. Len(tk) : tk[i][Len(tk[i])].msg = m
\* Entry e of the pool is the last transaction of message m, which may as well be
\* still to be sent.
Final(e, m) == e.tx.index = 0 /\ e.tx.part.msg = m
Sending(fr, ms, m) == fr # <<>> /\ m = Len(ms)
Settled(ms, fr, pl, m) ==
  m \in 1 .. Len(ms) /\ ~Sending(fr, ms, m) /\ \A i \in 1 .. Len(pl) : ~Final(pl[i], m)

\* A hash is of one transaction; the one just signed is of none yet.
HashesApart ==
  /\ signed => frags # <<>> /\ signs \in 1 .. signs
  /\ \A i \in 1 .. Len(pool) :
       /\ pool[i].hash \in 1 .. signs /\ pool[i].hash \notin DOMAIN done
       /\ signed => pool[i].hash # signs
       /\ \A j \in 1 .. Len(pool) : pool[i].hash = pool[j].hash => i = j
  /\ \A h \in DOMAIN done : h \in 1 .. signs /\ (signed => h # signs)
  /\ \A p \in polls : p.hash \in 0 .. signs /\ (signed => p.hash # signs)

\* The messages: of those that are not decided none has been handled.
OneFinal ==
  /\ frags # <<>> => Len(msgs) \in 1 .. Len(msgs)
  /\ \A i \in 1 .. Len(frags) : frags[i].part.msg = Len(msgs) /\ (frags[i].index = 0 <=> i = Len(frags))
  /\ \A i \in 1 .. Len(taken) : taken[i][Len(taken[i])].msg \in 1 .. Len(msgs)
  /\ \A i \in 1 .. Len(pool) :
       /\ pool[i].tx.part.msg \in 1 .. Len(msgs)
       /\ \A m \in 1 .. Len(msgs) : Final(pool[i], m) =>
            /\ ~Handled(taken, m) /\ ~Sending(frags, msgs, m)
            /\ \A j \in 1 .. Len(pool) : Final(pool[j], m) => i = j
  /\ \A m \in 1 .. Len(msgs) : Sending(frags, msgs, m) => ~Handled(taken, m)

\* Whoever asks, asks for the last transaction; what is known is settled and right.
Right(ms, fr, pl, tk, m, ok) == Settled(ms, fr, pl, m) /\ (ok <=> Handled(tk, m))
Asked ==
  \A p \in polls :
    /\ p.msg \in 1 .. Len(msgs) /\ ~Sending(frags, msgs, p.msg)
    /\ \A i \in 1 .. Len(pool) : pool[i].hash = p.hash => Final(pool[i], p.msg)
    /\ p.hash \in DOMAIN done => Right(msgs, frags, pool, taken, p.msg, done[p.hash] = "ok")
Told == \A r \in results : Right(msgs, frags, pool, taken, r.msg, r.err = "SUCCESS")

IconInv == IconTypeOK /\ HashesApart /\ OneFinal /\ Asked /\ Told

\* What the sender does when nothing is sent: it waits, asks, gives up, or ends.
LEMMA Waiting ==
  ASSUME HashesApart, OneFinal, Asked, UNCHANGED <<msgs, taken, signs, done, pool>>,
         frags' = frags \/ frags' = <<>>, signed' => signed /\ frags' = frags,
         \A q \in polls' : \E p \in polls : q.msg = p.msg /\ q.hash = p.hash,
         \A r \in results' : Right(msgs, frags, pool, taken, r.msg, r.err = "SUCCESS")
  PROVE  HashesApart' /\ OneFinal' /\ Asked' /\ Told'
<1>1. \A m : Sending(frags', msgs, m) => Sending(frags, msgs, m)
  BY Zenon DEF Sending
<1>2. \A m, ok : Right(msgs, frags, pool, taken, m, ok) => Right(msgs, frags', pool, taken, m, ok)
  BY <1>1, Zenon DEF Right, Settled
<1>3. HashesApart'
  BY Zenon DEF HashesApart
<1>4. OneFinal'
  BY <1>1, SMTT(60) DEF OneFinal
<1>5. Asked'
  BY <1>1, <1>2, Zenon DEF Asked
<1>6. Told'
  BY <1>2, Zenon DEF Told
<1> QED
  BY <1>3, <1>4, <1>5, <1>6, Zenon

LEMMA Signing ==
  ASSUME signs \in Nat, HashesApart, OneFinal, Asked, Told, Icon!SignTransaction
  PROVE  HashesApart' /\ OneFinal' /\ Asked' /\ Told'
<1>1. /\ UNCHANGED <<msgs, frags, polls, results, pool, done, taken>> /\ signs' = signs + 1 /\ signed' = TRUE
      /\ frags # <<>>
  BY Zenon DEF Icon!SignTransaction, Icon!nodeVars
<1>2. /\ signs' \in 1 .. signs' /\ signs' \notin 0 .. signs /\ 0 .. signs \subseteq 0 .. signs'
      /\ 1 .. signs \subseteq 1 .. signs' /\ 1 .. signs \subseteq 0 .. signs
  BY <1>1, SMTT(60)
<1>3. HashesApart'
  BY ONLY <1>1, <1>2, HashesApart, Zenon DEF HashesApart
<1>4. OneFinal'
  BY <1>1, Zenon DEF OneFinal
<1>5. Asked' /\ Told'
  BY <1>1, Zenon DEF Asked, Told
<1> QED
  BY <1>3, <1>4, <1>5, Zenon

\* The call of Relay: the message is new to everyone.
LEMMA Relaying ==
  ASSUME HashesApart, OneFinal, Asked, Told, frags = <<>>, Len(msgs) \in Nat, Len(msgs') = Len(msgs) + 1,
         UNCHANGED <<signs, signed, polls, results, pool, done, taken>>,
         \A i \in 1 .. Len(frags') : frags'[i].part.msg = Len(msgs') /\ (frags'[i].index = 0 <=> i = Len(frags'))
  PROVE  HashesApart' /\ OneFinal' /\ Asked' /\ Told'
<1>1. PICK n \in Nat : n = Len(msgs)
  BY Zenon
<1>2. /\ Len(msgs') = n + 1 /\ n + 1 \in 1 .. n + 1 /\ n + 1 \notin 1 .. n
      /\ \A m \in 1 .. n : m \in 1 .. n + 1 /\ m # n + 1
      /\ \A m \in 1 .. n + 1 : m \in 1 .. n \/ m = n + 1
  BY <1>1, SMTT(60)
<1>3. \A m \in 1 .. n : ~Sending(frags', msgs', m)
  BY <1>2, Zenon DEF Sending
<1>4. \A m, ok : Right(msgs, frags, pool, taken, m, ok) => Right(msgs', frags', pool, taken, m, ok)
  BY <1>1, <1>2, <1>3, Zenon DEF Right, Settled
<1>5. HashesApart'
  BY Zenon DEF HashesApart
<1>6. ~Handled(taken, n + 1)
  BY <1>1, <1>2, Zenon DEF OneFinal, Handled
<1>7. OneFinal'
  <2>1. \A i \in 1 .. Len(pool) : ~Final(pool[i], n + 1)
    BY <1>1, <1>2, Zenon DEF OneFinal, Final
  <2>2. /\ \A i \in 1 .. Len(taken) : taken[i][Len(taken[i])].msg \in 1 .. n + 1
        /\ \A i \in 1 .. Len(pool) : pool[i].tx.part.msg \in 1 .. n + 1
    BY <1>1, <1>2, Zenon DEF OneFinal
  <2>3. \A i \in 1 .. Len(pool) : \A m \in 1 .. n + 1 : Final(pool[i], m) =>
            /\ ~Handled(taken, m) /\ ~Sending(frags', msgs', m)
            /\ \A j \in 1 .. Len(pool) : Final(pool[j], m) => i = j
    BY <1>1, <1>2, <1>3, <2>1, ZenonT(60) DEF OneFinal
  <2>4. \A m \in 1 .. n + 1 : Sending(frags', msgs', m) => ~Handled(taken, m)
    BY <1>2, <1>3, <1>6, Zenon
  <2> QED
    BY <1>2, <2>2, <2>3, <2>4, Zenon DEF OneFinal
<1>8. Asked' /\ Told'
  BY <1>1, <1>2, <1>3, <1>4, Zenon DEF Asked, Told
<1> QED
  BY <1>5, <1>7, <1>8, Zenon

\* A node accepts the first of the transactions still to be sent.
LEMMA Accepting ==
  ASSUME HashesApart, OneFinal, Asked, Told, frags \in Seq(Sendings), pool \in Seq([hash : Nat, tx : Sendings]),
         signs \in Nat, signed, ~signed', UNCHANGED <<msgs, signs, results, done, taken>>,
         pool' = Append(pool, [hash |-> signs, tx |-> Head(frags)]),
         frags' = Tail(frags) \/ frags' = <<>>,
         \A q \in polls' :
           q \in polls \/ (Len(frags) = 1 /\ frags' = <<>> /\ q.msg = Len(msgs) /\ q.hash \in {0, signs})
  PROVE  HashesApart' /\ OneFinal' /\ Asked' /\ Told'
<1> DEFINE e == [hash |-> signs, tx |-> Head(frags)]
           M == Len(msgs)
<1>1. frags # <<>> /\ signs \in 1 .. signs /\ M \in 1 .. M
  BY Zenon DEF HashesApart, OneFinal
<1>2. PICK l \in Nat : l = Len(frags) /\ l > 0 /\ Head(frags) = frags[1] /\ frags[1] \in Sendings
  BY <1>1, SMTT(60)
<1>3. PICK n \in Nat : n = Len(pool)
  BY LenProperties, Zenon
<1>4. Final(e, M) <=> l = 1
  <2>1. 1 \in 1 .. l
    BY <1>2, SMTT(60)
  <2> QED
    BY <1>2, <2>1, Zenon DEF OneFinal, Final
<1>5. \A m : Final(e, m) => m = M
  <2>1. 1 \in 1 .. l
    BY <1>2
  <2> QED
    BY <1>2, <2>1, Zenon DEF OneFinal, Final
<1>6. e.hash = signs /\ e.tx.part.msg = M
  <2>1. 1 \in 1 .. l
    BY <1>2
  <2> QED
    BY <1>2, <2>1, Zenon DEF OneFinal
<1>7. Len(pool') = n + 1 /\ pool'[n + 1] = e /\ \A i \in 1 .. n : pool'[i] = pool[i]
  <2>1. e \in [hash : Nat, tx : Sendings]
    BY <1>2, Zenon
  <2> HIDE DEF e
  <2>2. pool' = Append(pool, e)
    BY Zenon DEF e
  <2> QED
    BY <1>3, <2>1, <2>2, AppendProperties, SMTT(60)
<1>8. \A i \in 1 .. n + 1 : i \in 1 .. n \/ i = n + 1
  BY SMTT(60)
<1>9. \A i \in 1 .. n : i \in 1 .. n + 1 /\ i # n + 1
  BY SMTT(60)
<1> HIDE DEF e, M
<1>10. \A m : Sending(frags, msgs, m) <=> m = M
  BY <1>1, Zenon DEF Sending, M
<1>11. (l = 1 => frags' = <<>>) /\ \A m : Sending(frags', msgs, m) => m = M
  <2>1. Tail(frags) \in Seq(Sendings) /\ Len(Tail(frags)) = l - 1
    BY <1>1, <1>2, HeadTailProperties, Zenon
  <2>2. l = 1 => Len(Tail(frags)) = 0
    BY <2>1
  <2>3. l = 1 => Tail(frags) = <<>>
    BY <2>1, <2>2, EmptySeq, Zenon
  <2> QED
    BY <2>3, Zenon DEF Sending, M
<1>12. \A m, ok : Right(msgs, frags, pool, taken, m, ok) => Right(msgs, frags', pool', taken, m, ok)
  BY <1>3, <1>5, <1>7, <1>8, <1>10, <1>11, Zenon DEF Right, Settled
<1>13. HashesApart'
  <2>1. \A i \in 1 .. n : pool[i].hash \in 1 .. signs /\ pool[i].hash \notin DOMAIN done /\ pool[i].hash # signs
    BY <1>3, Zenon DEF HashesApart
  <2>2. \A h \in DOMAIN done : h \in 1 .. signs /\ h # signs
    BY Zenon DEF HashesApart
  <2>3. ASSUME NEW i \in 1 .. n + 1
        PROVE  /\ pool'[i].hash \in 1 .. signs /\ pool'[i].hash \notin DOMAIN done
               /\ \A j \in 1 .. n + 1 : pool'[i].hash = pool'[j].hash => i = j
    BY <1>1, <1>3, <1>6, <1>7, <1>8, <2>1, <2>2, SMTT(60) DEF HashesApart
  <2>4. ASSUME NEW q \in polls' PROVE q.hash \in 0 .. signs
    BY <2>4, SMTT(60) DEF HashesApart
  <2> QED
    BY <1>7, <2>2, <2>3, <2>4, Zenon DEF HashesApart
<1>14. OneFinal'
  <2>1. \A i \in 1 .. Len(frags') : frags'[i].part.msg = M /\ (frags'[i].index = 0 <=> i = Len(frags'))
    <3>1. CASE frags' = <<>>
      BY <3>1, SMTT(60)
    <3>2. CASE frags' = Tail(frags)
      <4>1. Len(frags') = l - 1 /\ \A i \in 1 .. l - 1 : frags'[i] = frags[i + 1] /\ i + 1 \in 1 .. l
        BY <1>2, <3>2, SMTT(60)
      <4>2. \A i \in 1 .. l - 1 : i + 1 = l <=> i = l - 1
        BY <1>2, SMTT(60)
      <4> QED
        BY <1>2, <4>1, <4>2, SMTT(60) DEF OneFinal, M
    <3> QED
      BY <3>1, <3>2, Zenon
  <2>2. \A i \in 1 .. n + 1 : pool'[i].tx.part.msg \in 1 .. Len(msgs)
    BY <1>1, <1>3, <1>6, <1>7, <1>8, SMTT(60) DEF OneFinal, M
  <2>3. ASSUME NEW i \in 1 .. n + 1, NEW m \in 1 .. Len(msgs), Final(pool'[i], m)
        PROVE  /\ ~Handled(taken, m) /\ ~Sending(frags', msgs, m)
               /\ \A j \in 1 .. n + 1 : Final(pool'[j], m) => i = j
    <3>1. CASE i = n + 1
      <4>1. m = M /\ l = 1 /\ Sending(frags, msgs, m)
        BY <1>4, <1>5, <1>7, <1>10, <2>3, <3>1, Zenon
      <4>2. ~Handled(taken, m) /\ \A j \in 1 .. n : ~Final(pool[j], m)
        BY <1>3, <2>3, <4>1, Zenon DEF OneFinal
      <4>3. ~Sending(frags', msgs, m)
        BY <1>11, <4>1, Zenon DEF Sending
      <4> QED
        BY <1>7, <1>8, <3>1, <4>2, <4>3, Zenon
    <3>2. CASE i \in 1 .. n
      <4>1. Final(pool[i], m)
        BY <1>7, <2>3, <3>2, Zenon
      <4>2. /\ ~Handled(taken, m) /\ ~Sending(frags, msgs, m)
            /\ \A j \in 1 .. n : Final(pool[j], m) => i = j
        BY <1>3, <2>3, <3>2, <4>1, Zenon DEF OneFinal
      <4>3. m # M
        BY <1>10, <4>2, Zenon
      <4> QED
        BY <1>5, <1>7, <1>8, <1>11, <4>2, <4>3, Zenon
    <3> QED
      BY <1>8, <3>1, <3>2, Zenon
  <2>4. \A m \in 1 .. Len(msgs) : Sending(frags', msgs, m) => ~Handled(taken, m)
    BY <1>10, <1>11, Zenon DEF OneFinal
  <2> QED
    BY <1>1, <1>7, <2>1, <2>2, <2>3, <2>4, Zenon DEF OneFinal, M
<1>15. Asked'
  <2> SUFFICES ASSUME NEW q \in polls'
               PROVE  /\ q.msg \in 1 .. Len(msgs) /\ ~Sending(frags', msgs, q.msg)
                      /\ \A i \in 1 .. n + 1 : pool'[i].hash = q.hash => Final(pool'[i], q.msg)
                      /\ q.hash \in DOMAIN done =>
                           Right(msgs, frags', pool', taken, q.msg, done[q.hash] = "ok")
    BY <1>7, Zenon DEF Asked
  <2>1. CASE q \in polls
    <3>1. /\ q.msg \in 1 .. Len(msgs) /\ ~Sending(frags, msgs, q.msg)
          /\ \A i \in 1 .. n : pool[i].hash = q.hash => Final(pool[i], q.msg)
          /\ q.hash \in DOMAIN done => Right(msgs, frags, pool, taken, q.msg, done[q.hash] = "ok")
      BY <1>3, <2>1, Zenon DEF Asked
    <3>2. q.hash # signs
      BY <2>1, Zenon DEF HashesApart
    <3> QED
      BY <1>6, <1>7, <1>8, <1>10, <1>11, <1>12, <3>1, <3>2, Zenon
  <2>2. CASE Len(frags) = 1 /\ frags' = <<>> /\ q.msg = Len(msgs) /\ q.hash \in {0, signs}
    <3>1. ~Sending(frags', msgs, q.msg) /\ q.msg \in 1 .. Len(msgs) /\ Final(e, q.msg)
      BY <1>1, <1>2, <1>4, <2>2, Zenon DEF Sending, M
    <3>2. q.hash \notin DOMAIN done /\ \A i \in 1 .. n : pool[i].hash # q.hash
      BY <1>3, <2>2, SMTT(60) DEF HashesApart
    <3> QED
      BY <1>7, <1>8, <3>1, <3>2, Zenon
  <2> QED
    BY <2>1, <2>2, Zenon
<1>16. Told'
  BY <1>12, Zenon DEF Told
<1> QED
  BY <1>13, <1>14, <1>15, <1>16, Zenon

\* The node executes a transaction, or loses it; "handled" tells whether the BMC has
\* handled a message by it.
LEMMA Executing ==
  ASSUME HashesApart, OneFinal, Asked, Told, pool \in Seq([hash : Nat, tx : Sendings]), pool # <<>>,
         pool' = Tail(pool), UNCHANGED <<msgs, frags, signs, signed, polls, results>>,
         NEW handled \in BOOLEAN, NEW e, e = Head(pool), handled => e.tx.index = 0,
         \A m : Handled(taken', m) <=> Handled(taken, m) \/ (handled /\ m = e.tx.part.msg),
         \A i \in 1 .. Len(taken') : taken'[i][Len(taken'[i])].msg \in 1 .. Len(msgs),
         \A h \in DOMAIN done' : \/ h = e.hash /\ (e.tx.index = 0 => (done'[h] = "ok" <=> handled))
                                 \/ h # e.hash /\ h \in DOMAIN done /\ done'[h] = done[h]
  PROVE  HashesApart' /\ OneFinal' /\ Asked' /\ Told'
<1> DEFINE M == e.tx.part.msg
<1>1. PICK n \in Nat : n = Len(pool) /\ n > 0 /\ e = pool[1] /\ 1 \in 1 .. n
  BY LenProperties, EmptySeq, SMTT(60)
<1>2. /\ Len(pool') = n - 1
      /\ \A i \in 1 .. n - 1 : pool'[i] = pool[i + 1] /\ i + 1 \in 1 .. n /\ i + 1 # 1
  BY <1>1, HeadTailProperties, SMTT(60)
<1>3. \A i, j \in 1 .. n - 1 : i + 1 = j + 1 => i = j
  BY SMTT(60)
<1>4. handled => Final(e, M)
  BY Zenon DEF Final
<1>5. M \in 1 .. Len(msgs) /\ e.hash \in 1 .. signs /\ (signed => e.hash # signs)
  BY <1>1, Zenon DEF OneFinal, HashesApart
<1>6. \A m, ok : Right(msgs, frags, pool, taken, m, ok) => Right(msgs, frags, pool', taken', m, ok)
  <2> SUFFICES ASSUME NEW m, NEW ok, Right(msgs, frags, pool, taken, m, ok)
               PROVE  Right(msgs, frags, pool', taken', m, ok)
    BY Zenon
  <2>1. ~Final(e, m)
    BY <1>1, Zenon DEF Right, Settled
  <2>2. Handled(taken', m) <=> Handled(taken, m)
    BY <1>4, <2>1, Zenon
  <2> QED
    BY <1>1, <1>2, <2>2, Zenon DEF Right, Settled
<1>7. HashesApart'
  <2>1. \A h \in DOMAIN done' : h = e.hash \/ h \in DOMAIN done
    BY Zenon
  <2>2. ASSUME NEW i \in 1 .. n - 1
        PROVE  /\ pool'[i].hash \in 1 .. signs /\ pool'[i].hash \notin DOMAIN done'
               /\ signed => pool'[i].hash # signs
               /\ \A j \in 1 .. n - 1 : pool'[i].hash = pool'[j].hash => i = j
    BY <1>1, <1>2, <1>3, <2>1, SMTT(60) DEF HashesApart
  <2>3. \A h \in DOMAIN done' : h \in 1 .. signs /\ (signed => h # signs)
    BY <1>5, <2>1, Zenon DEF HashesApart
  <2> QED
    BY <1>2, <2>2, <2>3, Zenon DEF HashesApart
<1>8. OneFinal'
  <2>1. ASSUME NEW i \in 1 .. n - 1 PROVE pool'[i].tx.part.msg \in 1 .. Len(msgs)
    BY <1>1, <1>2, Zenon DEF OneFinal
  <2>2. ASSUME NEW i \in 1 .. n - 1, NEW m \in 1 .. Len(msgs), Final(pool'[i], m)
        PROVE  /\ ~Handled(taken', m) /\ ~Sending(frags, msgs, m)
               /\ \A j \in 1 .. n - 1 : Final(pool'[j], m) => i = j
    <3>1. /\ ~Handled(taken, m) /\ ~Sending(frags, msgs, m)
          /\ \A j \in 1 .. n : Final(pool[j], m) => i + 1 = j
      BY <1>1, <1>2, <2>2, ZenonT(60) DEF OneFinal
    <3>2. ~Final(e, m)
      BY <1>1, <1>2, <3>1, Zenon
    <3> QED
      BY <1>2, <1>3, <1>4, <3>1, <3>2, Zenon
  <2>3. \A m \in 1 .. Len(msgs) : Sending(frags, msgs, m) => ~Handled(taken', m)
    <3> SUFFICES ASSUME NEW m \in 1 .. Len(msgs), Sending(frags, msgs, m) PROVE ~Handled(taken', m)
      BY Zenon
    <3>1. ~Final(e, m) /\ ~Handled(taken, m)
      BY <1>1, Zenon DEF OneFinal
    <3> QED
      BY <1>4, <3>1, Zenon
  <2> QED
    BY <1>2, <2>1, <2>2, <2>3, Zenon DEF OneFinal
<1>9. Asked'
  <2> SUFFICES ASSUME NEW q \in polls
               PROVE  /\ q.msg \in 1 .. Len(msgs) /\ ~Sending(frags, msgs, q.msg)
                      /\ \A i \in 1 .. n - 1 : pool'[i].hash = q.hash => Final(pool'[i], q.msg)
                      /\ q.hash \in DOMAIN done' =>
                           Right(msgs, frags, pool', taken', q.msg, done'[q.hash] = "ok")
    BY <1>2, Zenon DEF Asked
  <2>1. /\ q.msg \in 1 .. Len(msgs) /\ ~Sending(frags, msgs, q.msg)
        /\ \A i \in 1 .. n : pool[i].hash = q.hash => Final(pool[i], q.msg)
        /\ q.hash \in DOMAIN done => Right(msgs, frags, pool, taken, q.msg, done[q.hash] = "ok")
    BY <1>1, Zenon DEF Asked
  <2>2. ASSUME q.hash \in DOMAIN done', q.hash = e.hash
        PROVE  Right(msgs, frags, pool', taken', q.msg, done'[q.hash] = "ok")
    <3>1. Final(e, q.msg)
      BY <1>1, <2>1, <2>2, Zenon
    <3>2. q.msg = M /\ (done'[q.hash] = "ok" <=> handled)
      BY <2>2, <3>1, Zenon DEF Final
    <3>3. ~Handled(taken, q.msg) /\ \A j \in 1 .. n : Final(pool[j], q.msg) => 1 = j
      BY <1>1, <2>1, <3>1, SMTT(30), ZenonT(60) DEF OneFinal
    <3>4. Handled(taken', q.msg) <=> handled
      BY <3>2, <3>3, Zenon
    <3>5. \A i \in 1 .. n - 1 : ~Final(pool'[i], q.msg)
      BY <1>2, <3>3, Zenon
    <3> QED
      BY <1>2, <2>1, <3>2, <3>4, <3>5, Zenon DEF Right, Settled
  <2>3. ASSUME q.hash \in DOMAIN done', q.hash # e.hash
        PROVE  Right(msgs, frags, pool', taken', q.msg, done'[q.hash] = "ok")
    BY <1>6, <2>1, <2>3, Zenon
  <2> QED
    BY <1>2, <2>1, <2>2, <2>3, Zenon
<1>10. Told'
  BY <1>6, Zenon DEF Told
<1> QED
  BY <1>7, <1>8, <1>9, <1>10, Zenon

-----------------------------------------------------------------------------
\* The k-th of the transactions of message m.
Index(idx, k) == IF k = 1 THEN -idx ELSE idx - k + 1
Piece(tx, m, size, idx, k) ==
  /\ tx.part.msg = m /\ (tx.index = 0 <=> k = idx + 1) /\ tx.index = Index(idx, k)
  /\ tx.fragment <=> idx # 0
  /\ tx.part.first = (k - 1) * txSizeLimit + 1
  /\ tx.part.last = IF k = idx + 1 THEN size ELSE k * txSizeLimit

LEMMA Fragments ==
  ASSUME NEW m \in Nat, NEW size \in Nat \ {0}, NEW idx, idx = size \div txSizeLimit
  PROVE  /\ idx \in Nat /\ Icon!_relay(m, size) \in Seq(Sendings) /\ Len(Icon!_relay(m, size)) = idx + 1
         /\ \A k \in 1 .. idx + 1 : Piece(Icon!_relay(m, size)[k], m, size, idx, k)
<1>1. txSizeLimit \in Nat \ {0}
  BY Zenon DEF Icon!IconSubmitAssumption
<1>2. idx \in Nat
  BY <1>1, SMTT(60)
<1>3. CASE idx = 0
  <2>1. Icon!_relay(m, size) = <<Icon!WholeMessage(m, size)>>
    BY <1>3, Zenon DEF Icon!_relay
  <2>2. Icon!WholeMessage(m, size) \in Sendings
    BY DEF Icon!WholeMessage, Icon!Part, Sendings, Ranges
  <2>3. 0 * txSizeLimit = 0
    BY <1>1, SMTT(60)
  <2>4. Piece(Icon!WholeMessage(m, size), m, size, idx, 1)
    BY <1>3, <2>3, SMTT(60) DEF Icon!WholeMessage, Icon!Part, Piece, Index
  <2> QED
    BY <1>2, <1>3, <2>1, <2>2, <2>4, SMTT(60)
<1>4. CASE idx # 0
  <2> DEFINE F(k) == Icon!Fragment(m, Index(idx, k), (k - 1) * txSizeLimit + 1,
                                   IF k = idx + 1 THEN size ELSE k * txSizeLimit)
  <2>1. Icon!_relay(m, size) = [k \in 1 .. idx + 1 |-> F(k)]
    BY <1>4, Zenon DEF Icon!_relay, Index
  <2>2. ASSUME NEW k \in 1 .. idx + 1
        PROVE  Index(idx, k) \in Int /\ (Index(idx, k) = 0 <=> k = idx + 1)
    BY <1>2, <1>4, SMTT(60) DEF Index
  <2>3. ASSUME NEW k \in 1 .. idx + 1
        PROVE  F(k) \in Sendings
    <3>1. (k - 1) * txSizeLimit + 1 \in Int /\ k * txSizeLimit \in Int
      BY <1>1, <1>2, SMTT(60)
    <3> QED
      BY <1>2, <2>2, <3>1, SMTT(60) DEF Icon!Fragment, Icon!Part, Sendings, Ranges
  <2>4. ASSUME NEW k \in 1 .. idx + 1
        PROVE  Piece(F(k), m, size, idx, k)
    BY <1>4, <2>2, Zenon DEF Icon!Fragment, Icon!Part, Piece
  <2> HIDE DEF F
  <2>5. Icon!_relay(m, size) \in Seq(Sendings) /\ Len(Icon!_relay(m, size)) = idx + 1
    BY <1>2, <2>1, <2>3, SMTT(60)
  <2>6. \A k \in 1 .. idx + 1 : Icon!_relay(m, size)[k] = F(k)
    BY <2>1, Zenon
  <2> QED
    BY ONLY <1>2, <2>4, <2>5, <2>6, Zenon
<1> QED
  BY <1>3, <1>4, Zenon

-----------------------------------------------------------------------------
\* What the answers are to the caller of Do.
LEMMA Errors == Icon!OK.kind = "" /\ \A kind, code : Icon!Err(kind, code).kind = kind /\ Icon!Err(kind, code).code = code
BY Zenon DEF Icon!OK, Icon!Err

LEMMA DoOf ==
  ASSUME NEW x, NEW h, NEW b, NEW c, x = Icon!Exchange(h, b, c)
  PROVE  /\ h = "fail" => Icon!Do(x) = Icon!Err("fail", "")
         /\ h = "refused" => Icon!Do(x) = Icon!Err("refused", "")
         /\ h = "error" /\ b = "text" => Icon!Do(x) = Icon!Err("http", "")
         /\ h = "error" /\ b = "json" /\ c = "" => Icon!Do(x) = Icon!Err("nil", "")
         /\ h = "error" /\ b = "json" /\ c # "" => Icon!Do(x) = Icon!Err("rpc", c)
         /\ h = "ok" /\ b = "broken" => Icon!Do(x) = Icon!Err("decode", "")
         /\ h = "ok" /\ b = "json" /\ c = "" => Icon!Do(x) = Icon!OK
<1>0. x.http = h /\ x.body = b /\ x.code = c
  BY Zenon DEF Icon!Exchange
<1>1. ASSUME h = "fail" PROVE Icon!Do(x) = Icon!Err("fail", "")
  BY ONLY <1>0, <1>1, Zenon DEF Icon!Do
<1>2. ASSUME h = "refused" PROVE Icon!Do(x) = Icon!Err("refused", "")
  BY ONLY <1>0, <1>2, Zenon DEF Icon!Do
<1>3. ASSUME h = "error", b = "text" PROVE Icon!Do(x) = Icon!Err("http", "")
  BY ONLY <1>0, <1>3, Zenon DEF Icon!Do
<1>4. ASSUME h = "error", b = "json", c = "" PROVE Icon!Do(x) = Icon!Err("nil", "")
  BY ONLY <1>0, <1>4, Zenon DEF Icon!Do
<1>5. ASSUME h = "error", b = "json", c # "" PROVE Icon!Do(x) = Icon!Err("rpc", c)
  BY ONLY <1>0, <1>5, Zenon DEF Icon!Do
<1>6. ASSUME h = "ok", b = "broken" PROVE Icon!Do(x) = Icon!Err("decode", "")
  BY ONLY <1>0, <1>6, Zenon DEF Icon!Do
<1>7. ASSUME h = "ok", b = "json", c = "" PROVE Icon!Do(x) = Icon!OK
  BY ONLY <1>0, <1>7, Zenon DEF Icon!Do
<1> QED
  BY <1>1, <1>2, <1>3, <1>4, <1>5, <1>6, <1>7, Zenon

LEMMA Does ==
  /\ Icon!Do(Icon!Exchange("ok", "json", "")) = Icon!OK
  /\ \A code : code # "" => Icon!Do(Icon!Exchange("error", "json", code)) = Icon!Err("rpc", code)
  /\ Icon!Do(Icon!Exchange("fail", "none", "")) = Icon!Err("fail", "")
  /\ Icon!Do(Icon!Exchange("refused", "none", "")) = Icon!Err("refused", "")
  /\ Icon!Do(Icon!Exchange("error", "text", "")) = Icon!Err("http", "")
  /\ Icon!Do(Icon!Exchange("error", "json", "")) = Icon!Err("nil", "")
  /\ Icon!Do(Icon!Exchange("ok", "broken", "")) = Icon!Err("decode", "")
BY DoOf, Zenon

\* What may be answered to a transaction that is sent, and whether a node has it then.
LEMMA Answers ==
  ASSUME NEW o \in Icon!SendOutcomes, NEW e, e = Icon!Do(o[2])
  PROVE  \/ o[1] /\ e.kind = ""
         \/ ~o[1] /\ e.kind = "rpc" /\ e.code \in {"TxPoolOverflow", "Expired"}
         \/ o[1] /\ e.kind = "rpc" /\ e.code = "Duplicate" /\ "duplicate" \in faults
         \/ e.kind \notin {"", "rpc"} \/ (e.kind = "rpc" /\ e.code = "Future")
<1>0. \A kind, code : e = Icon!Err(kind, code) => e.kind = kind /\ e.code = code
  BY Errors, ZenonT(60)
<1>1. CASE o \in {TRUE} \X {Icon!Exchange("ok", "json", "")}
  BY <1>1, Does, Errors, Zenon
<1>2. CASE o \in {FALSE} \X Icon!Refusals
  <2>1. ~o[1] /\ o[2] \in {Icon!Exchange("error", "json", "TxPoolOverflow"), Icon!Exchange("error", "json", "Expired")}
    BY <1>2, Zenon DEF Icon!Refusals
  <2>2. e \in {Icon!Err("rpc", "TxPoolOverflow"), Icon!Err("rpc", "Expired")}
    BY <2>1, DoOf, Zenon
  <2>3. e.kind = "rpc" /\ e.code \in {"TxPoolOverflow", "Expired"}
    BY ONLY <1>0, <2>2, Zenon
  <2> QED
    BY ONLY <2>1, <2>3, Zenon
<1>3. CASE o \in {TRUE} \X {Icon!Exchange("error", "json", "Duplicate")} /\ "duplicate" \in faults
  <2>1. o[1] /\ o[2] = Icon!Exchange("error", "json", "Duplicate")
    BY <1>3, Zenon
  <2>2. e = Icon!Err("rpc", "Duplicate")
    BY <2>1, DoOf, Zenon
  <2>3. e.kind = "rpc" /\ e.code = "Duplicate"
    BY ONLY <2>2, Errors, Zenon
  <2> QED
    BY ONLY <1>3, <2>1, <2>3, Zenon
<1>4. CASE o \in Icon!Failures
  <2>1. o[2] \in {Icon!Exchange("fail", "none", ""), Icon!Exchange("error", "text", ""),
                 Icon!Exchange("error", "json", ""), Icon!Exchange("ok", "broken", ""),
                 Icon!Exchange("refused", "none", ""), Icon!Exchange("error", "json", "Future")}
    BY <1>4, Zenon DEF Icon!Failures
  <2>2. e \in {Icon!Err("fail", ""), Icon!Err("http", ""), Icon!Err("nil", ""), Icon!Err("decode", ""),
              Icon!Err("refused", ""), Icon!Err("rpc", "Future")}
    BY <2>1, Does, DoOf, Zenon
  <2>3. e.kind \in {"fail", "http", "nil", "decode", "refused"} \/ (e.kind = "rpc" /\ e.code = "Future")
    BY ONLY <1>0, <2>2, Zenon
  <2> QED
    BY ONLY <2>3, Zenon
<1> QED
  BY <1>1, <1>2, <1>3, <1>4, Zenon DEF Icon!SendOutcomes

\* The ways SendTransaction may go.
LEMMA Sends ==
  ASSUME Icon!SendTransaction
  PROVE  /\ signed /\ UNCHANGED <<done, cache, taken>>
         /\ LET accepted == pool' = Append(pool, [hash |-> signs, tx |-> Head(frags)]) IN
            \/ accepted /\ Icon!Sent(signs)
            \/ accepted /\ Icon!Sent(0) /\ "duplicate" \in faults
            \/ (accepted \/ UNCHANGED pool) /\ Icon!End
            \/ UNCHANGED pool /\ (signed' = FALSE \/ UNCHANGED signed)
                              /\ UNCHANGED <<running, msgs, frags, signs, queue, polls, results>>
<1>1. PICK o \in Icon!SendOutcomes :
        /\ Icon!HandleAnswer(Icon!Do(o[2]))
        /\ pool' = IF o[1] THEN Append(pool, [hash |-> signs, tx |-> Head(frags)]) ELSE pool
        /\ UNCHANGED <<done, cache, taken>>
  BY Zenon DEF Icon!SendTransaction
<1>2. signed
  BY Zenon DEF Icon!SendTransaction
<1> DEFINE e == Icon!Do(o[2])
<1>3. \/ o[1] /\ e.kind = ""
      \/ ~o[1] /\ e.kind = "rpc" /\ e.code \in {"TxPoolOverflow", "Expired"}
      \/ o[1] /\ e.kind = "rpc" /\ e.code = "Duplicate" /\ "duplicate" \in faults
      \/ e.kind \notin {"", "rpc"} \/ (e.kind = "rpc" /\ e.code = "Future")
  BY Answers, Zenon
<1>4. Icon!HandleAnswer(e)
  BY <1>1, Zenon
<1> HIDE DEF e
<1>5. CASE e.kind = "" /\ o[1]
  BY <1>1, <1>2, <1>4, <1>5, Zenon DEF Icon!HandleAnswer
<1>6. CASE ~o[1] /\ e.kind = "rpc" /\ e.code \in {"TxPoolOverflow", "Expired"}
  BY <1>1, <1>2, <1>4, <1>6, Zenon DEF Icon!HandleAnswer, Icon!senderVars
<1>7. CASE o[1] /\ e.kind = "rpc" /\ e.code = "Duplicate" /\ "duplicate" \in faults
  BY <1>1, <1>2, <1>4, <1>7, Zenon DEF Icon!HandleAnswer
<1>8. CASE e.kind \notin {"", "rpc"} \/ (e.kind = "rpc" /\ e.code = "Future")
  <2>1. Icon!End
    BY <1>4, <1>8, Zenon DEF Icon!HandleAnswer
  <2> QED
    BY <1>1, <1>2, <2>1, Zenon
<1> QED
  BY <1>3, <1>5, <1>6, <1>7, <1>8, Zenon

\* The ways a request of GetResult may go.
LEMMA Asks ==
  ASSUME NEW p \in polls, p \in Polls, Icon!GetResult(p)
  PROVE  /\ UNCHANGED <<msgs, frags, signs, signed, pool, done, cache, taken>>
         /\ polls' = polls \/ polls' = (polls \ {p}) \cup {Icon!Retried(p)} \/ polls' = polls \ {p}
         /\ \/ UNCHANGED results
            \/ p.hash \in DOMAIN done /\ \E r : /\ results' = results \cup {r}
                  /\ \/ done[p.hash] = "ok" /\ r = [msg |-> p.msg, err |-> "SUCCESS"]
                     \/ done[p.hash] = "revert" /\ r = [msg |-> p.msg, err |-> "REVERT"]
<1> DEFINE outcome == IF Icon!Executed(p) THEN done[p.hash] ELSE "ok"
           again(e) == e.kind = "rpc" /\ e.code \in {"Pending", "Executing"}
           notFound(e) == e.kind = "rpc" /\ e.code = "NotFound"
<1>1. UNCHANGED <<msgs, frags, signs, signed, pool, done, cache, taken>>
  BY Zenon DEF Icon!GetResult, Icon!nodeVars
<1>2. PICK x \in Icon!ResultExchanges(p) :
        LET e == Icon!Do(x) IN
        CASE again(e) -> UNCHANGED <<queue, polls, results>>
          [] notFound(e) /\ p.retry > 0 -> polls' = (polls \ {p}) \cup {Icon!Retried(p)} /\ UNCHANGED <<queue, results>>
          [] notFound(e) /\ p.retry = 0 -> Icon!result(p, Icon!Err("not found", ""))
          [] OTHER -> Icon!result(p, Icon!mapErrorWithTransactionResult(e, outcome))
  BY Zenon DEF Icon!GetResult
<1> DEFINE e == Icon!Do(x)
<1>3. (e = Icon!OK /\ Icon!Executed(p)) \/ e.kind \in {"rpc", "refused", "nil"}
  <2>1. \/ x = Icon!Exchange("ok", "json", "") /\ Icon!Executed(p)
        \/ x \in {Icon!Exchange("error", "json", c) : c \in {"other", "Pending", "Executing", "NotFound"}}
        \/ x \in {Icon!Exchange("refused", "none", ""), Icon!Exchange("error", "json", "")}
    BY Zenon DEF Icon!ResultExchanges
  <2>2. ASSUME NEW c \in {"other", "Pending", "Executing", "NotFound"}, x = Icon!Exchange("error", "json", c)
        PROVE  e = Icon!Err("rpc", c)
    BY <2>2, DoOf, Zenon
  <2>3. \/ e = Icon!OK /\ Icon!Executed(p)
        \/ \E c : e = Icon!Err("rpc", c)
        \/ e \in {Icon!Err("refused", ""), Icon!Err("nil", "")}
    BY <2>1, <2>2, Does, Zenon
  <2> QED
    BY <2>3, Errors, Zenon
<1>4. CASE e = Icon!OK /\ Icon!Executed(p)
  <2>1. ~again(e) /\ ~notFound(e)
    BY <1>4, Errors, Zenon
  <2>2. Icon!result(p, Icon!mapErrorWithTransactionResult(e, outcome))
    BY <1>2, <2>1, Zenon
  <2>3. Icon!result(p, Icon!mapErrorWithTransactionResult(Icon!OK, done[p.hash]))
    BY <1>4, <2>2, Zenon
  <2>4. CASE done[p.hash] = "ok"
    <3>1. Icon!mapErrorWithTransactionResult(Icon!OK, done[p.hash]) = Icon!OK
      BY <2>4, Zenon DEF Icon!mapErrorWithTransactionResult, Icon!MapError, Icon!OK, Icon!Err
    <3> QED
      BY <1>1, <1>4, <2>3, <2>4, <3>1, Errors, Zenon DEF Icon!result, Icon!Executed
  <2>5. CASE done[p.hash] = "revert"
    <3>1. Icon!mapErrorWithTransactionResult(Icon!OK, done[p.hash]) = Icon!Err("revert", "")
      BY <2>5, Zenon DEF Icon!mapErrorWithTransactionResult
    <3>2. Icon!result(p, Icon!Err("revert", "")) /\ Icon!Err("revert", "") # Icon!OK
      BY <2>3, <3>1, Zenon DEF Icon!OK, Icon!Err
    <3> QED
      BY <1>1, <1>4, <2>5, <3>2, Zenon DEF Icon!result, Icon!Executed, Icon!Err
  <2>6. CASE done[p.hash] \notin {"ok", "revert"}
    <3>1. Icon!mapErrorWithTransactionResult(Icon!OK, done[p.hash]) = Icon!Err("failure", "")
      BY <2>6, Zenon DEF Icon!mapErrorWithTransactionResult
    <3>2. Icon!result(p, Icon!Err("failure", "")) /\ Icon!Err("failure", "") # Icon!OK
      BY <2>3, <3>1, Zenon DEF Icon!OK, Icon!Err
    <3> QED
      BY <1>1, <3>2, Zenon DEF Icon!result, Icon!Err
  <2> QED
    BY <2>4, <2>5, <2>6, Zenon
<1>5. CASE e.kind \in {"rpc", "refused", "nil"}
  <2>1. /\ Icon!mapErrorWithTransactionResult(e, outcome) # Icon!OK
        /\ Icon!mapErrorWithTransactionResult(e, outcome).kind # "revert"
    <3>1. e # Icon!OK
      BY <1>5, Errors, Zenon
    <3>2. Icon!mapErrorWithTransactionResult(e, outcome) = Icon!MapError(e)
      BY <3>1, Zenon DEF Icon!mapErrorWithTransactionResult
    <3> HIDE DEF e
    <3>3. Icon!MapError(e).kind \notin {"", "revert"}
      BY <1>5, Zenon DEF Icon!MapError, Icon!Err
    <3> QED
      BY <3>2, <3>3, Errors, Zenon
  <2>2. Icon!Err("not found", "") # Icon!OK /\ Icon!Err("not found", "").kind # "revert"
    BY Zenon DEF Icon!OK, Icon!Err
  <2>3. ASSUME NEW f, f # Icon!OK, f.kind # "revert", Icon!result(p, f)
        PROVE  UNCHANGED results /\ polls' = polls \ {p}
    BY <2>3, Zenon DEF Icon!result
  <2> HIDE DEF e, again, notFound, outcome
  <2>4. \/ UNCHANGED <<queue, polls, results>>
        \/ polls' = (polls \ {p}) \cup {Icon!Retried(p)} /\ UNCHANGED <<queue, results>>
        \/ Icon!result(p, Icon!Err("not found", ""))
        \/ Icon!result(p, Icon!mapErrorWithTransactionResult(e, outcome))
    <3>1. (CASE again(e) -> UNCHANGED <<queue, polls, results>>
            [] notFound(e) /\ p.retry > 0 -> polls' = (polls \ {p}) \cup {Icon!Retried(p)} /\ UNCHANGED <<queue, results>>
            [] notFound(e) /\ p.retry = 0 -> Icon!result(p, Icon!Err("not found", ""))
            [] OTHER -> Icon!result(p, Icon!mapErrorWithTransactionResult(e, outcome)))
      BY <1>2, Zenon DEF e
    <3> QED
      BY <3>1, Zenon
  <2> QED
    BY <1>1, <2>1, <2>2, <2>3, <2>4, Zenon
<1> QED
  BY <1>3, <1>4, <1>5, Zenon

-----------------------------------------------------------------------------
Entries == [hash : Nat, tx : Sendings]

LEMMA HeadIsEntry ==
  ASSUME pool \in Seq(Entries), pool # <<>>
  PROVE  Head(pool) \in Entries /\ Head(pool).tx \in Sendings /\ Head(pool).hash \in Nat
         /\ Head(pool).tx.part \in Ranges /\ Tail(pool) \in Seq(Entries)
<1>1. Head(pool) \in Entries /\ Tail(pool) \in Seq(Entries)
  BY HeadTailProperties, Zenon
<1> QED
  BY <1>1, Zenon DEF Entries, Sendings

\* What the BMC puts together ends with the part of the transaction.
LEMMA PartsEnd ==
  ASSUME cache \in [next : Int, parts : Seq(Ranges)], NEW tx \in Sendings, NEW ps, ps = Icon!Parts(tx)
  PROVE  ps \in Seq(Ranges) /\ ps[Len(ps)] = tx.part
<1>1. tx.part \in Ranges /\ cache.parts \in Seq(Ranges)
  BY Zenon DEF Sendings
<1>2. CASE ps = <<tx.part>>
  BY <1>1, <1>2, SMTT(60)
<1>3. CASE ps = Append(cache.parts, tx.part)
  BY <1>1, <1>3, AppendProperties, SMTT(60)
<1> QED
  BY <1>2, <1>3, Zenon DEF Icon!Parts

LEMMA HandlesOne ==
  ASSUME taken \in Seq(Seq(Ranges)), NEW ps \in Seq(Ranges), NEW part, ps[Len(ps)] = part, taken' = Append(taken, ps)
  PROVE  /\ taken' \in Seq(Seq(Ranges))
         /\ \A i \in 1 .. Len(taken') : taken'[i] = ps \/ (i \in 1 .. Len(taken) /\ taken'[i] = taken[i])
         /\ \A m : Handled(taken', m) <=> Handled(taken, m) \/ m = part.msg
<1>1. PICK n \in Nat : n = Len(taken)
  BY LenProperties, Zenon
<1>2. taken' \in Seq(Seq(Ranges)) /\ Len(taken') = n + 1 /\ taken'[n + 1] = ps /\ \A i \in 1 .. n : taken'[i] = taken[i]
  BY <1>1, AppendProperties, SMTT(60)
<1>3. /\ \A i \in 1 .. n + 1 : i \in 1 .. n \/ i = n + 1
      /\ \A i \in 1 .. n : i \in 1 .. n + 1
      /\ n + 1 \in 1 .. n + 1
  BY SMTT(60)
<1>4. \A i \in 1 .. Len(taken') : taken'[i] = ps \/ (i \in 1 .. Len(taken) /\ taken'[i] = taken[i])
  BY ONLY <1>1, <1>2, <1>3, Zenon
<1>5. ASSUME NEW m PROVE Handled(taken', m) <=> Handled(taken, m) \/ m = part.msg
  BY <1>1, <1>2, <1>3, Zenon DEF Handled
<1> QED
  BY <1>2, <1>4, <1>5, Zenon

\* What the node does with the first transaction of the pool.
LEMMA Executes ==
  ASSUME IconTypeOK, Icon!Execute
  PROVE  /\ pool # <<>> /\ pool' = Tail(pool)
         /\ UNCHANGED <<running, msgs, frags, signs, signed, queue, polls, results>>
         /\ LET tx == Head(pool).tx
                hash == Head(pool).hash
                outcome(o) == done' = [h \in DOMAIN done \cup {hash} |-> IF h = hash THEN o ELSE done[h]]
            IN \/ /\ outcome("ok") /\ tx.index = 0 /\ (tx.fragment => tx.index = cache.next)
                  /\ taken' = Append(taken, Icon!Parts(tx))
                  /\ cache' = IF tx.fragment THEN Icon!NoFragments ELSE cache
               \/ /\ outcome("ok") /\ tx.index # 0 /\ Icon!Follows(tx) /\ UNCHANGED taken
                  /\ cache' = [next |-> IF tx.index < 0 THEN -tx.index - 1 ELSE tx.index - 1, parts |-> Icon!Parts(tx)]
               \/ outcome("revert") /\ (tx.index = 0 \/ ~Icon!Follows(tx)) /\ UNCHANGED <<cache, taken>>
               \/ outcome("failure") /\ "lose" \in faults /\ UNCHANGED <<cache, taken>>
               \/ "lose" \in faults /\ UNCHANGED <<done, cache, taken>>
<1>1. pool # <<>> /\ pool' = Tail(pool) /\ UNCHANGED <<running, msgs, frags, signs, signed, queue, polls, results>>
  BY Zenon DEF Icon!Execute, Icon!senderVars
<1>2. pool \in Seq(Entries)
  BY Zenon DEF IconTypeOK, Entries
<1>3. Head(pool).tx.index \in Int
  BY <1>1, <1>2, HeadIsEntry, Zenon DEF Sendings
<1>4. Head(pool).tx.index = 0 /\ Icon!Follows(Head(pool).tx) => Head(pool).tx.index = cache.next
  BY <1>3, SMTT(60) DEF Icon!Follows
<1> QED
  BY <1>1, <1>4, Zenon DEF Icon!Execute, Icon!Handle

LEMMA IconExecutes ==
  ASSUME IconInv, UNCHANGED faults, Icon!Execute
  PROVE  IconInv'
<1> DEFINE e == Head(pool)
           tx == e.tx
<1>0. IconTypeOK /\ HashesApart /\ OneFinal /\ Asked /\ Told /\ pool \in Seq(Entries)
  BY Zenon DEF IconInv, IconTypeOK, Entries
<1>1. pool # <<>> /\ pool' = Tail(pool) /\ UNCHANGED <<msgs, frags, signs, signed, polls, results>>
  BY <1>0, Executes, Zenon
<1>2. e \in Entries /\ tx \in Sendings /\ e.hash \in Nat /\ tx.part \in Ranges /\ pool' \in Seq(Entries) /\ tx.index \in Int
  BY <1>0, <1>1, HeadIsEntry, Zenon DEF Sendings
<1>3. Icon!Parts(tx) \in Seq(Ranges) /\ Icon!Parts(tx)[Len(Icon!Parts(tx))] = tx.part
  BY <1>0, <1>2, PartsEnd, Zenon DEF IconTypeOK
<1>4. tx.part.msg \in 1 .. Len(msgs)
  <2>1. 1 \in 1 .. Len(pool) /\ e = pool[1]
    BY <1>0, <1>1, LenProperties, EmptySeq, SMTT(60)
  <2> QED
    BY <1>0, <2>1, Zenon DEF OneFinal
<1>5. ASSUME NEW handled \in BOOLEAN, handled => tx.index = 0,
             taken' \in Seq(Seq(Ranges)), cache' \in [next : Int, parts : Seq(Ranges)], DOMAIN done' \subseteq Nat,
             \A m : Handled(taken', m) <=> Handled(taken, m) \/ (handled /\ m = tx.part.msg),
             \A i \in 1 .. Len(taken') : taken'[i][Len(taken'[i])].msg \in 1 .. Len(msgs),
             \A h \in DOMAIN done' : \/ h = e.hash /\ (tx.index = 0 => (done'[h] = "ok" <=> handled))
                                     \/ h # e.hash /\ h \in DOMAIN done /\ done'[h] = done[h]
      PROVE  IconInv'
  <2>1. HashesApart' /\ OneFinal' /\ Asked' /\ Told'
    <3> HIDE DEF e
    <3> QED
      BY <1>0, <1>1, <1>5, Executing, Zenon DEF e, Entries
  <2>2. IconTypeOK'
    BY <1>0, <1>1, <1>2, <1>5, Zenon DEF IconTypeOK, Entries
  <2> QED
    BY <2>1, <2>2, Zenon DEF IconInv
<1>6. ASSUME NEW o, done' = [h \in DOMAIN done \cup {e.hash} |-> IF h = e.hash THEN o ELSE done[h]]
      PROVE  /\ DOMAIN done' \subseteq Nat
             /\ \A h \in DOMAIN done' : \/ h = e.hash /\ done'[h] = o
                                        \/ h # e.hash /\ h \in DOMAIN done /\ done'[h] = done[h]
  <2>1. DOMAIN done \subseteq Nat
    BY <1>0, Zenon DEF IconTypeOK
  <2>2. e.hash \in Nat
    BY <1>2, Zenon
  <2> HIDE DEF e
  <2>3. DOMAIN done' = DOMAIN done \cup {e.hash}
    BY <1>6, Zenon
  <2>4. \A h \in DOMAIN done' : done'[h] = IF h = e.hash THEN o ELSE done[h]
    BY <1>6, Zenon
  <2>5. DOMAIN done' \subseteq Nat
    BY ONLY <2>1, <2>2, <2>3, Zenon
  <2>6. ASSUME NEW h \in DOMAIN done'
        PROVE  \/ h = e.hash /\ done'[h] = o
               \/ h # e.hash /\ h \in DOMAIN done /\ done'[h] = done[h]
    BY <2>3, <2>4, Zenon
  <2> QED
    BY <2>5, <2>6, Zenon
<1>7. \A i \in 1 .. Len(taken) : taken[i][Len(taken[i])].msg \in 1 .. Len(msgs)
  BY <1>0, Zenon DEF OneFinal
<1>8. cache \in [next : Int, parts : Seq(Ranges)] /\ taken \in Seq(Seq(Ranges)) /\ DOMAIN done \subseteq Nat
  BY <1>0, Zenon DEF IconTypeOK
<1> HIDE DEF e, tx
<1>9. CASE /\ done' = [h \in DOMAIN done \cup {e.hash} |-> IF h = e.hash THEN "ok" ELSE done[h]] /\ tx.index = 0
           /\ taken' = Append(taken, Icon!Parts(tx)) /\ cache' = IF tx.fragment THEN Icon!NoFragments ELSE cache
  <2>1. Icon!NoFragments \in [next : Int, parts : Seq(Ranges)]
    BY DEF Icon!NoFragments
  <2>2. cache' \in [next : Int, parts : Seq(Ranges)]
    BY <1>8, <1>9, <2>1, Zenon
  <2>3. /\ taken' \in Seq(Seq(Ranges))
        /\ \A i \in 1 .. Len(taken') : taken'[i] = Icon!Parts(tx) \/ (i \in 1 .. Len(taken) /\ taken'[i] = taken[i])
        /\ \A m : Handled(taken', m) <=> Handled(taken, m) \/ m = tx.part.msg
    BY <1>3, <1>8, <1>9, HandlesOne, Zenon
  <2>4. \A i \in 1 .. Len(taken') : taken'[i][Len(taken'[i])].msg \in 1 .. Len(msgs)
    BY <1>3, <1>4, <1>7, <2>3, Zenon
  <2> QED
    BY <1>5, <1>6, <1>9, <2>2, <2>3, <2>4, Zenon
<1>10. CASE /\ done' = [h \in DOMAIN done \cup {e.hash} |-> IF h = e.hash THEN "ok" ELSE done[h]] /\ tx.index # 0
            /\ cache' = [next |-> IF tx.index < 0 THEN -tx.index - 1 ELSE tx.index - 1, parts |-> Icon!Parts(tx)]
            /\ UNCHANGED taken
  <2>1. (IF tx.index < 0 THEN -tx.index - 1 ELSE tx.index - 1) \in Int
    BY <1>2, SMTT(60)
  <2>2. cache' \in [next : Int, parts : Seq(Ranges)]
    BY <1>3, <1>10, <2>1, Zenon
  <2> QED
    BY <1>5, <1>6, <1>7, <1>8, <1>10, <2>2, Zenon
<1>11. CASE /\ \E o \in {"revert", "failure"} :
                 done' = [h \in DOMAIN done \cup {e.hash} |-> IF h = e.hash THEN o ELSE done[h]]
            /\ UNCHANGED <<cache, taken>>
  <2>1. PICK o \in {"revert", "failure"} : done' = [h \in DOMAIN done \cup {e.hash} |-> IF h = e.hash THEN o ELSE done[h]]
    BY <1>11, Zenon
  <2> QED
    BY <1>5, <1>6, <1>7, <1>8, <1>11, <2>1, Zenon
<1>12. CASE UNCHANGED <<done, cache, taken>>
  <2>1. \A h \in DOMAIN done : h # e.hash
    <3>1. 1 \in 1 .. Len(pool) /\ e = pool[1]
      BY <1>0, <1>1, LenProperties, EmptySeq DEF e
    <3> QED
      BY <1>0, <3>1, Zenon DEF HashesApart
  <2> QED
    BY <1>5, <1>7, <1>8, <1>12, <2>1, Zenon
<1> QED
  BY <1>0, <1>9, <1>10, <1>11, <1>12, Executes, Zenon DEF e, tx

LEMMA IconRelays ==
  ASSUME IconInv, UNCHANGED faults, NEW size \in Sizes, Icon!Relay(size)
  PROVE  IconInv'
<1>0. IconTypeOK /\ HashesApart /\ OneFinal /\ Asked /\ Told
  BY Zenon DEF IconInv
<1>1. /\ frags = <<>> /\ msgs' = Append(msgs, size) /\ frags' = Icon!_relay(Len(msgs) + 1, size)
      /\ UNCHANGED <<signs, signed, polls, results, pool, done, cache, taken>>
  BY Zenon DEF Icon!Relay, Icon!nodeVars
<1>2. size \in Nat \ {0} /\ msgs \in Seq(Nat \ {0})
  BY <1>0, Zenon DEF IconTypeOK, Icon!IconSubmitAssumption
<1>3. PICK n \in Nat : n = Len(msgs)
  BY <1>2, LenProperties, Zenon
<1>4. msgs' \in Seq(Nat \ {0}) /\ Len(msgs') = n + 1
  BY <1>1, <1>2, <1>3, AppendProperties, Zenon
<1>5. PICK idx : idx = size \div txSizeLimit
  BY Zenon
<1>6. /\ idx \in Nat /\ frags' \in Seq(Sendings) /\ Len(frags') = idx + 1
      /\ \A k \in 1 .. idx + 1 : Piece(frags'[k], n + 1, size, idx, k)
  <2>1. n + 1 \in Nat
    OBVIOUS
  <2> QED
    BY <1>1, <1>2, <1>3, <1>5, <2>1, Fragments, Zenon
<1>7. \A i \in 1 .. Len(frags') : frags'[i].part.msg = Len(msgs') /\ (frags'[i].index = 0 <=> i = Len(frags'))
  BY <1>4, <1>6, Zenon DEF Piece
<1>8. HashesApart' /\ OneFinal' /\ Asked' /\ Told'
  BY <1>0, <1>1, <1>3, <1>4, <1>7, Relaying, Zenon
<1>9. IconTypeOK'
  BY <1>0, <1>1, <1>4, <1>6, Zenon DEF IconTypeOK
<1> QED
  BY <1>8, <1>9, Zenon DEF IconInv

LEMMA IconSends ==
  ASSUME IconInv, UNCHANGED faults, Icon!SendTransaction
  PROVE  IconInv'
<1> DEFINE accepted == pool' = Append(pool, [hash |-> signs, tx |-> Head(frags)])
<1>0. IconTypeOK /\ HashesApart /\ OneFinal /\ Asked /\ Told
  BY Zenon DEF IconInv
<1>1. /\ signed /\ UNCHANGED <<done, cache, taken>>
      /\ \/ accepted /\ Icon!Sent(signs)
         \/ accepted /\ Icon!Sent(0) /\ "duplicate" \in faults
         \/ (accepted \/ UNCHANGED pool) /\ Icon!End
         \/ UNCHANGED pool /\ (signed' = FALSE \/ UNCHANGED signed)
                           /\ UNCHANGED <<running, msgs, frags, signs, queue, polls, results>>
  BY Sends, Zenon
<1>2. /\ frags \in Seq(Sendings) /\ frags # <<>> /\ signs \in Nat /\ pool \in Seq([hash : Nat, tx : Sendings])
      /\ Head(frags) \in Sendings /\ Tail(frags) \in Seq(Sendings) /\ <<>> \in Seq(Sendings)
  <2>1. frags \in Seq(Sendings) /\ frags # <<>> /\ signs \in Nat /\ pool \in Seq([hash : Nat, tx : Sendings])
    BY <1>0, <1>1, Zenon DEF IconTypeOK, HashesApart
  <2> QED
    BY <2>1, HeadTailProperties, EmptySeq, Zenon
<1>3. accepted => pool' \in Seq([hash : Nat, tx : Sendings])
  <2>1. [hash |-> signs, tx |-> Head(frags)] \in [hash : Nat, tx : Sendings]
    BY <1>2, Zenon
  <2> QED
    BY <1>2, <2>1, AppendProperties, SMTT(60)
<1>4. Head(frags).part.msg = Len(msgs) /\ Len(msgs) \in Nat
  <2>1. 1 \in 1 .. Len(frags) /\ Head(frags) = frags[1]
    BY <1>2, LenProperties, EmptySeq, SMTT(60)
  <2>2. Len(msgs) \in Nat
    BY <1>0, LenProperties, Zenon DEF IconTypeOK
  <2> QED
    BY <1>0, <2>1, <2>2, Zenon DEF OneFinal
<1>5. ASSUME accepted, NEW hash \in {0, signs}, Icon!Sent(hash) PROVE IconInv'
  <2>1. /\ signed' = FALSE /\ frags' = Tail(frags) /\ UNCHANGED <<msgs, signs, results>>
        /\ polls' = IF Len(frags) = 1 THEN polls \cup {Icon!Started(Len(msgs), hash)} ELSE polls
    BY <1>4, <1>5, Zenon DEF Icon!Sent
  <2>2. Len(frags) = 1 => Tail(frags) = <<>>
    <3>1. Len(frags) = 1 => Len(Tail(frags)) = 0
      BY <1>2, HeadTailProperties
    <3> QED
      BY <1>2, <3>1, EmptySeq, Zenon
  <2>3. /\ Icon!Started(Len(msgs), hash).msg = Len(msgs) /\ Icon!Started(Len(msgs), hash).hash = hash
        /\ Icon!Started(Len(msgs), hash) \in Polls
    <3>1. TransactionResultRetryLimit \in Int /\ hash \in Nat
      BY <1>2, SMTT(60) DEF Icon!IconSubmitAssumption
    <3> QED
      BY <1>4, <3>1, Zenon DEF Icon!Started, Polls
  <2>4. \A q \in polls' :
           q \in polls \/ (Len(frags) = 1 /\ frags' = <<>> /\ q.msg = Len(msgs) /\ q.hash \in {0, signs})
    BY <2>1, <2>2, <2>3, Zenon
  <2>5. HashesApart' /\ OneFinal' /\ Asked' /\ Told'
    BY <1>0, <1>1, <1>2, <1>5, <2>1, <2>4, Accepting, Zenon
  <2>6. polls' \subseteq Polls
    BY <1>0, <2>1, <2>3, Zenon DEF IconTypeOK
  <2>7. IconTypeOK'
    BY <1>0, <1>1, <1>2, <1>3, <1>5, <2>1, <2>6, Zenon DEF IconTypeOK
  <2> QED
    BY <2>5, <2>7, Zenon DEF IconInv
<1>6. CASE accepted /\ Icon!End
  <2>1. ~signed' /\ frags' = <<>> /\ polls' = {} /\ UNCHANGED <<msgs, signs, results>>
    BY <1>6, Zenon DEF Icon!End
  <2>2. HashesApart' /\ OneFinal' /\ Asked' /\ Told'
    BY <1>0, <1>1, <1>2, <1>6, <2>1, Accepting, Zenon
  <2>3. IconTypeOK'
    BY <1>0, <1>1, <1>2, <1>3, <1>6, <2>1, Zenon DEF IconTypeOK, Icon!End
  <2> QED
    BY <2>2, <2>3, Zenon DEF IconInv
<1>7. CASE UNCHANGED pool /\ Icon!End
  <2>1. signed' = FALSE /\ frags' = <<>> /\ polls' = {} /\ UNCHANGED <<msgs, signs, results>>
    BY <1>7, Zenon DEF Icon!End
  <2>2. HashesApart' /\ OneFinal' /\ Asked' /\ Told'
    BY <1>0, <1>1, <1>7, <2>1, Waiting, Zenon DEF Told
  <2>3. IconTypeOK'
    BY <1>0, <1>1, <1>2, <1>7, <2>1, Zenon DEF IconTypeOK
  <2> QED
    BY <2>2, <2>3, Zenon DEF IconInv
<1>8. CASE /\ UNCHANGED pool /\ (signed' = FALSE \/ UNCHANGED signed)
           /\ UNCHANGED <<running, msgs, frags, signs, queue, polls, results>>
  <2>1. HashesApart' /\ OneFinal' /\ Asked' /\ Told'
    BY <1>0, <1>1, <1>8, Waiting, Zenon DEF Told
  <2>2. IconTypeOK'
    BY <1>0, <1>1, <1>8, Zenon DEF IconTypeOK
  <2> QED
    BY <2>1, <2>2, Zenon DEF IconInv
<1> HIDE DEF accepted
<1> QED
  BY <1>1, <1>5, <1>6, <1>7, <1>8, Zenon

LEMMA IconAsks ==
  ASSUME IconInv, UNCHANGED faults, NEW p \in polls, Icon!GetResult(p)
  PROVE  IconInv'
<1>0. IconTypeOK /\ HashesApart /\ OneFinal /\ Asked /\ Told /\ p \in Polls
  BY Zenon DEF IconInv, IconTypeOK
<1>1. /\ UNCHANGED <<msgs, frags, signs, signed, pool, done, cache, taken>>
      /\ polls' = polls \/ polls' = (polls \ {p}) \cup {Icon!Retried(p)} \/ polls' = polls \ {p}
      /\ \/ UNCHANGED results
         \/ p.hash \in DOMAIN done /\ \E r : /\ results' = results \cup {r}
               /\ \/ done[p.hash] = "ok" /\ r = [msg |-> p.msg, err |-> "SUCCESS"]
                  \/ done[p.hash] = "revert" /\ r = [msg |-> p.msg, err |-> "REVERT"]
  BY <1>0, Asks, Zenon
<1>2. Icon!Retried(p) \in Polls /\ Icon!Retried(p).msg = p.msg /\ Icon!Retried(p).hash = p.hash
  BY <1>0, SMTT(60) DEF Polls, Icon!Retried
<1>3. polls' \subseteq Polls
  BY <1>0, <1>1, <1>2, Zenon DEF IconTypeOK
<1>4. \A q \in polls' : \E s \in polls : q.msg = s.msg /\ q.hash = s.hash
  BY <1>1, <1>2, Zenon
<1>5. \A r \in results' : r \in Results /\ Right(msgs, frags, pool, taken, r.msg, r.err = "SUCCESS")
  <2>1. \A r \in results : r \in Results /\ Right(msgs, frags, pool, taken, r.msg, r.err = "SUCCESS")
    BY <1>0, Zenon DEF Told, IconTypeOK
  <2>2. CASE UNCHANGED results
    BY <2>1, <2>2, Zenon
  <2>3. ASSUME NEW r, p.hash \in DOMAIN done, results' = results \cup {r},
               \/ done[p.hash] = "ok" /\ r = [msg |-> p.msg, err |-> "SUCCESS"]
               \/ done[p.hash] = "revert" /\ r = [msg |-> p.msg, err |-> "REVERT"]
        PROVE  \A q \in results' : q \in Results /\ Right(msgs, frags, pool, taken, q.msg, q.err = "SUCCESS")
    <3>1. r \in Results /\ r.msg = p.msg /\ (r.err = "SUCCESS" <=> done[p.hash] = "ok")
      BY <1>0, <2>3, SMTT(60) DEF Results, Polls
    <3>2. Right(msgs, frags, pool, taken, p.msg, done[p.hash] = "ok")
      BY <1>0, <2>3, Zenon DEF Asked
    <3>3. Right(msgs, frags, pool, taken, r.msg, r.err = "SUCCESS")
      BY <3>1, <3>2, Zenon DEF Right
    <3> QED
      BY <2>1, <2>3, <3>1, <3>3, Zenon
  <2> QED
    BY <1>1, <2>2, <2>3, Zenon
<1>6. HashesApart' /\ OneFinal' /\ Asked' /\ Told'
  BY <1>0, <1>1, <1>4, <1>5, Waiting, Zenon
<1>7. IconTypeOK'
  BY <1>0, <1>1, <1>3, <1>5, Zenon DEF IconTypeOK
<1> QED
  BY <1>6, <1>7, Zenon DEF IconInv

LEMMA IconStep ==
  ASSUME IconInv, [Next]_vars
  PROVE  IconInv'
<1>0. IconTypeOK /\ HashesApart /\ OneFinal /\ Asked /\ Told
  BY Zenon DEF IconInv
<1>1. CASE UNCHANGED iconVars
  <2>1. UNCHANGED <<msgs, frags, signs, signed, polls, results, pool, done, cache, taken, faults>>
    BY <1>1, Zenon DEF iconVars
  <2>2. HashesApart' /\ OneFinal' /\ Asked' /\ Told'
    BY <1>0, <2>1, Waiting, Zenon DEF Told
  <2> QED
    BY <1>0, <2>1, <2>2, Zenon DEF IconInv, IconTypeOK
<1>2. CASE Icon!Next
  <2>0. UNCHANGED faults
    BY <1>2, Zenon DEF Icon!Next
  <2>1. ASSUME NEW size \in Sizes, Icon!Relay(size) PROVE IconInv'
    BY <2>0, <2>1, IconRelays, Zenon
  <2>2. CASE Icon!SignTransaction
    <3>1. /\ UNCHANGED <<msgs, frags, polls, results, pool, done, cache, taken>>
          /\ signs' = signs + 1 /\ signed' = TRUE /\ signs \in Nat
      BY <1>0, <2>2, Zenon DEF Icon!SignTransaction, Icon!nodeVars, IconTypeOK
    <3>2. HashesApart' /\ OneFinal' /\ Asked' /\ Told'
      BY <1>0, <2>2, <3>1, Signing, Zenon
    <3>3. signs' \in Nat
      BY <3>1, SMTT(60)
    <3> QED
      BY <1>0, <2>0, <3>1, <3>2, <3>3, Zenon DEF IconInv, IconTypeOK
  <2>3. CASE Icon!SendTransaction
    BY <2>0, <2>3, IconSends, Zenon
  <2>4. ASSUME NEW p \in polls, Icon!GetResult(p) PROVE IconInv'
    BY <2>0, <2>4, IconAsks, Zenon
  <2>5. ASSUME NEW p \in polls, Icon!GetResultPanics(p) PROVE IconInv'
    <3>1. /\ signed' = FALSE /\ frags' = <<>> /\ polls' = {}
          /\ UNCHANGED <<msgs, signs, results, pool, done, cache, taken>>
      BY <2>5, Zenon DEF Icon!GetResultPanics, Icon!End, Icon!nodeVars
    <3>2. HashesApart' /\ OneFinal' /\ Asked' /\ Told'
      BY <1>0, <3>1, Waiting, Zenon DEF Told
    <3>3. <<>> \in Seq(Sendings)
      BY EmptySeq, Zenon
    <3> QED
      BY <1>0, <2>0, <3>1, <3>2, <3>3, Zenon DEF IconInv, IconTypeOK
  <2>6. CASE Icon!Restart
    <3>1. UNCHANGED <<msgs, frags, signs, signed, polls, results, pool, done, cache, taken>>
      BY <2>6, Zenon DEF Icon!Restart, Icon!nodeVars
    <3>2. HashesApart' /\ OneFinal' /\ Asked' /\ Told'
      BY <1>0, <3>1, Waiting, Zenon DEF Told
    <3> QED
      BY <1>0, <2>0, <3>1, <3>2, Zenon DEF IconInv, IconTypeOK
  <2>7. CASE Icon!Execute
    BY <2>0, <2>7, IconExecutes, Zenon
  <2> QED
    BY <1>2, <2>1, <2>2, <2>3, <2>4, <2>5, <2>6, <2>7, Zenon DEF Icon!Next
<1> QED
  BY <1>1, <1>2, Zenon DEF Next, EthOnly, vars

LEMMA IconInit == Init => IconInv
<1> SUFFICES ASSUME Init PROVE IconInv
  BY Zenon
<1>1. /\ msgs = <<>> /\ frags = <<>> /\ signs = 0 /\ signed = FALSE /\ polls = {} /\ results = {}
      /\ pool = <<>> /\ done = <<>> /\ cache = Icon!NoFragments /\ taken = <<>> /\ faults \in IconFaults
  BY Zenon DEF Init, Icon!Init
<1>2. Len(msgs) = 0 /\ Len(frags) = 0 /\ Len(pool) = 0 /\ Len(taken) = 0 /\ DOMAIN done = {}
  BY <1>1, SMTT(60)
<1>3. \A S : <<>> \in Seq(S)
  BY EmptySeq, Zenon
<1>4. Icon!NoFragments \in [next : Int, parts : Seq(Ranges)]
  BY <1>3, SMTT(60) DEF Icon!NoFragments
<1>5. IconTypeOK
  BY <1>1, <1>2, <1>3, <1>4, Zenon DEF IconTypeOK
<1> QED
  BY <1>1, <1>2, <1>5, SMTT(60) DEF IconInv, HashesApart, OneFinal, Asked, Told

-----------------------------------------------------------------------------
(***************************************************************************)
(* The ICON sender: what the BMC puts together.  The pool is a queue, so   *)
(* that as long as nothing is lost in it, a fragment other than the first  *)
(* one of its message comes right after the one before it, or finds that   *)
(* one and all before it with the BMC.                                     *)
(***************************************************************************)
Cut(ms, m) == Icon!_relay(m, ms[m])

\* The BMC has taken the first k fragments of message m and waits for the next one.
Begun(ms, c, m, k) ==
  /\ c.next = (ms[m] \div txSizeLimit) - k /\ Len(c.parts) = k
  /\ \A j \in 1 .. k : c.parts[j] = Cut(ms, m)[j].part

\* Fragment k of message m follows its predecessor at place i of the pool.
Joined(ms, pl, c, m, k, i) ==
  \/ k = 1
  \/ i = 1 /\ Begun(ms, c, m, k - 1)
  \/ i > 1 /\ pl[i - 1].tx = Cut(ms, m)[k - 1]

InPool(ms, pl, c, i) ==
  \E m \in 1 .. Len(ms) : \E k \in 1 .. Len(Cut(ms, m)) :
    pl[i].tx = Cut(ms, m)[k] /\ Joined(ms, pl, c, m, k, i)

ToSend(ms, fr, pl, c, m, k) ==
  /\ m \in 1 .. Len(ms) /\ k \in 1 .. Len(Cut(ms, m)) /\ Len(fr) = Len(Cut(ms, m)) - k + 1
  /\ \A j \in 1 .. Len(fr) : fr[j] = Cut(ms, m)[k + j - 1]
  /\ Joined(ms, pl, c, m, k, Len(pl) + 1)

Whole(ms, parts) ==
  \E m \in 1 .. Len(ms) :
    Len(parts) = Len(Cut(ms, m)) /\ \A j \in 1 .. Len(parts) : parts[j] = Cut(ms, m)[j].part

InOrder ==
  /\ \A i \in 1 .. Len(pool) : InPool(msgs, pool, cache, i)
  /\ frags # <<>> => \E m \in 1 .. Len(msgs) : \E k \in 1 .. Len(Cut(msgs, m)) :
                       ToSend(msgs, frags, pool, cache, m, k)
  /\ \A i \in 1 .. Len(taken) : Whole(msgs, taken[i])

InOrderInv == IconInv /\ ("lose" \notin faults => InOrder)

LEMMA CutIs ==
  ASSUME NEW ms \in Seq(Nat \ {0}), NEW m \in 1 .. Len(ms)
  PROVE  \E idx \in Nat : /\ idx = ms[m] \div txSizeLimit
                          /\ Cut(ms, m) \in Seq(Sendings) /\ Len(Cut(ms, m)) = idx + 1
                          /\ \A k \in 1 .. idx + 1 : Piece(Cut(ms, m)[k], m, ms[m], idx, k)
<1>1. m \in Nat /\ ms[m] \in Nat \ {0}
  OBVIOUS
<1> QED
  BY <1>1, Fragments, Zenon DEF Cut

LEMMA IndexApart ==
  \A idx \in Nat : \A k, l \in 1 .. idx + 1 : Index(idx, k) = Index(idx, l) => k = l
BY DEF Index

\* A transaction is the part of one message only, and at one place.
LEMMA CutApart ==
  ASSUME NEW ms \in Seq(Nat \ {0}), NEW m \in 1 .. Len(ms), NEW n \in 1 .. Len(ms),
         NEW k \in 1 .. Len(Cut(ms, m)), NEW l \in 1 .. Len(Cut(ms, n)), Cut(ms, m)[k] = Cut(ms, n)[l]
  PROVE  m = n /\ k = l
<1>1. PICK i \in Nat : /\ Len(Cut(ms, m)) = i + 1
                      /\ \A q \in 1 .. i + 1 : Piece(Cut(ms, m)[q], m, ms[m], i, q)
  BY CutIs, Zenon
<1>2. PICK j \in Nat : /\ Len(Cut(ms, n)) = j + 1
                      /\ \A q \in 1 .. j + 1 : Piece(Cut(ms, n)[q], n, ms[n], j, q)
  BY CutIs, Zenon
<1>3. m = n
  <2>1. Cut(ms, m)[k].part.msg = m
    BY <1>1, Zenon DEF Piece
  <2>2. Cut(ms, n)[l].part.msg = n
    BY <1>2, Zenon DEF Piece
  <2> QED
    BY <2>1, <2>2, Zenon
<1>4. i = j
  <2>1. i + 1 = j + 1
    BY <1>1, <1>2, <1>3, Zenon
  <2> QED
    BY <2>1, SMTT(60)
<1>5. Index(i, k) = Index(i, l)
  BY <1>1, <1>2, <1>3, <1>4, SMTT(30), ZenonT(60) DEF Piece
<1> QED
  BY <1>1, <1>2, <1>3, <1>4, <1>5, IndexApart, Zenon

\* A new message.
LEMMA OrderRelayed ==
  ASSUME IconTypeOK, InOrder, NEW size \in Nat \ {0}, msgs' = Append(msgs, size), frags' = Icon!_relay(Len(msgs) + 1, size),
         UNCHANGED <<pool, cache, taken>>
  PROVE  InOrder'
<1>0. msgs \in Seq(Nat \ {0})
  BY Zenon DEF IconTypeOK
<1>1. PICK n \in Nat : n = Len(msgs)
  BY <1>0, LenProperties, Zenon
<1>2. /\ msgs' \in Seq(Nat \ {0}) /\ Len(msgs') = n + 1 /\ msgs'[n + 1] = size
      /\ \A m \in 1 .. n : m \in 1 .. n + 1 /\ msgs'[m] = msgs[m] /\ Cut(msgs', m) = Cut(msgs, m)
  <2>1. msgs' \in Seq(Nat \ {0}) /\ Len(msgs') = n + 1 /\ msgs'[n + 1] = size /\ \A m \in 1 .. n : msgs'[m] = msgs[m]
    BY <1>0, <1>1, AppendProperties, SMTT(60)
  <2>2. \A m \in 1 .. n : m \in 1 .. n + 1
    BY SMTT(60)
  <2> QED
    BY <2>1, <2>2, Zenon DEF Cut
<1>3. \A c, k : \A m \in 1 .. n : Begun(msgs, c, m, k) => Begun(msgs', c, m, k)
  BY <1>2, Zenon DEF Begun
<1>4. \A pl, c, k, i : \A m \in 1 .. n : Joined(msgs, pl, c, m, k, i) => Joined(msgs', pl, c, m, k, i)
  BY <1>2, <1>3, Zenon DEF Joined
<1>5. \A pl, c, i : InPool(msgs, pl, c, i) => InPool(msgs', pl, c, i)
  BY <1>1, <1>2, <1>4, ZenonT(60) DEF InPool
<1>6. \A ps : Whole(msgs, ps) => Whole(msgs', ps)
  BY <1>1, <1>2, Zenon DEF Whole
<1>7. frags' = Cut(msgs', n + 1) /\ n + 1 \in 1 .. n + 1
  BY <1>1, <1>2 DEF Cut
<1>8. PICK idx \in Nat : Cut(msgs', n + 1) \in Seq(Sendings) /\ Len(Cut(msgs', n + 1)) = idx + 1
  BY <1>2, <1>7, CutIs, Zenon
<1>9. ToSend(msgs', frags', pool, cache, n + 1, 1)
  <2>1. 1 \in 1 .. idx + 1 /\ idx + 1 = (idx + 1) - 1 + 1 /\ \A j \in 1 .. idx + 1 : j = 1 + j - 1
    BY <1>8, SMTT(60)
  <2> QED
    BY <1>2, <1>7, <1>8, <2>1, Zenon DEF ToSend, Joined
<1>10. \E m \in 1 .. Len(msgs') : \E k \in 1 .. Len(Cut(msgs', m)) : ToSend(msgs', frags', pool, cache, m, k)
  BY <1>9, Zenon DEF ToSend
<1> QED
  BY <1>5, <1>6, <1>10, Zenon DEF InOrder

\* A node accepts a transaction.
LEMMA OrderAccepted ==
  ASSUME IconTypeOK, InOrder, frags # <<>>, pool' = Append(pool, [hash |-> signs, tx |-> Head(frags)]),
         frags' = Tail(frags) \/ frags' = <<>>, UNCHANGED <<msgs, cache, taken>>
  PROVE  InOrder'
<1> DEFINE e == [hash |-> signs, tx |-> Head(frags)]
<1>0. /\ msgs \in Seq(Nat \ {0}) /\ frags \in Seq(Sendings) /\ signs \in Nat /\ pool \in Seq(Entries)
  BY Zenon DEF IconTypeOK, Entries
<1>1. PICK n \in Nat : n = Len(pool)
  BY <1>0, LenProperties, Zenon
<1>2. PICK l \in Nat : l = Len(frags) /\ l > 0 /\ Head(frags) = frags[1] /\ Head(frags) \in Sendings
  BY <1>0, HeadTailProperties, EmptySeq, LenProperties, SMTT(60)
<1>3. e.tx = frags[1] /\ e \in Entries
  BY <1>0, <1>2, Zenon DEF Entries
<1> HIDE DEF e
<1>4. pool' = Append(pool, e)
  BY Zenon DEF e
<1>5. Len(pool') = n + 1 /\ pool'[n + 1] = e /\ \A i \in 1 .. n : pool'[i] = pool[i]
  BY <1>0, <1>1, <1>3, <1>4, AppendProperties, SMTT(60)
<1>6. \A m, k : \A i \in 1 .. n + 1 : Joined(msgs, pool, cache, m, k, i) => Joined(msgs, pool', cache, m, k, i)
  <2>1. \A i \in 1 .. n + 1 : i > 1 => i - 1 \in 1 .. n
    BY SMTT(60)
  <2> QED
    BY <1>5, <2>1, Zenon DEF Joined
<1>7. PICK m \in Nat, k \in Nat : ToSend(msgs, frags, pool, cache, m, k)
  <2>1. PICK m \in 1 .. Len(msgs) : \E k \in 1 .. Len(Cut(msgs, m)) : ToSend(msgs, frags, pool, cache, m, k)
    BY Zenon DEF InOrder
  <2>2. PICK k \in 1 .. Len(Cut(msgs, m)) : ToSend(msgs, frags, pool, cache, m, k)
    BY <2>1, Zenon
  <2> QED
    BY <2>2, SMTT(60)
<1>8. PICK c \in Nat : c = Len(Cut(msgs, m)) /\ k \in 1 .. c /\ l = c - k + 1 /\ m \in 1 .. Len(msgs)
  <2>1. m \in 1 .. Len(msgs)
    BY <1>7, Zenon DEF ToSend
  <2>2. PICK idx \in Nat : Len(Cut(msgs, m)) = idx + 1
    BY <1>0, <2>1, CutIs, Zenon
  <2> QED
    BY <1>2, <1>7, <2>1, <2>2, SMTT(30), ZenonT(60) DEF ToSend
<1>9. e.tx = Cut(msgs, m)[k] /\ Joined(msgs, pool, cache, m, k, n + 1)
  <2>1. 1 \in 1 .. l /\ k + 1 - 1 = k
    BY <1>2, <1>7, SMTT(60)
  <2> QED
    BY <1>1, <1>2, <1>3, <1>7, <2>1, Zenon DEF ToSend
<1>10. \A i \in 1 .. n + 1 : InPool(msgs, pool', cache, i)
  <2>1. InPool(msgs, pool', cache, n + 1)
    <3>1. Joined(msgs, pool', cache, m, k, n + 1)
      BY <1>6, <1>9, SMTT(30), ZenonT(60)
    <3> QED
      BY <1>5, <1>8, <1>9, <3>1, Zenon DEF InPool
  <2>2. ASSUME NEW i \in 1 .. n PROVE InPool(msgs, pool', cache, i)
    <3>1. InPool(msgs, pool, cache, i) /\ i \in 1 .. n + 1
      BY <1>1, SMTT(60) DEF InOrder
    <3> QED
      BY <1>5, <1>6, <3>1, Zenon DEF InPool
  <2>3. \A i \in 1 .. n + 1 : i \in 1 .. n \/ i = n + 1
    BY SMTT(60)
  <2> QED
    BY <2>1, <2>2, <2>3, Zenon
<1>11. ASSUME frags' # <<>> PROVE ToSend(msgs, frags', pool', cache, m, k + 1)
  <2>1. frags' = Tail(frags) /\ frags' \in Seq(Sendings) /\ Len(frags') = l - 1
    BY <1>0, <1>2, <1>11, HeadTailProperties, Zenon
  <2>2. l - 1 > 0
    BY <1>11, <2>1, EmptySeq, LenProperties
  <2>3. \A j \in 1 .. l - 1 : frags'[j] = frags[j + 1] /\ j + 1 \in 1 .. l /\ k + (j + 1) - 1 = (k + 1) + j - 1
    BY <1>0, <1>2, <1>7, <2>1, HeadTailProperties, SMTT(60)
  <2>4. k + 1 \in 1 .. c /\ l - 1 = c - (k + 1) + 1
    BY <1>8, <2>2, SMTT(60)
  <2>5. \A j \in 1 .. l - 1 : frags'[j] = Cut(msgs, m)[(k + 1) + j - 1]
    BY <1>2, <1>7, <2>3, Zenon DEF ToSend
  <2>6. (n + 1) + 1 > 1 /\ ((n + 1) + 1) - 1 = n + 1 /\ (k + 1) - 1 = k
    BY <1>7, SMTT(60)
  <2>7. Joined(msgs, pool', cache, m, k + 1, (n + 1) + 1)
    BY <1>5, <1>9, <2>6, Zenon DEF Joined
  <2> QED
    BY <1>5, <1>8, <2>1, <2>4, <2>5, <2>7, Zenon DEF ToSend
<1>12. frags' # <<>> => \E a \in 1 .. Len(msgs) : \E b \in 1 .. Len(Cut(msgs, a)) :
                         ToSend(msgs, frags', pool', cache, a, b)
  BY <1>11, Zenon DEF ToSend
<1> QED
  BY <1>5, <1>10, <1>12, Zenon DEF InOrder

\* The node executes a transaction, or loses it only where it may.
LEMMA OrderExecuted ==
  ASSUME IconTypeOK, InOrder, "lose" \notin faults, Icon!Execute
  PROVE  InOrder'
<1> DEFINE tx == Head(pool).tx
<1>0. /\ msgs \in Seq(Nat \ {0}) /\ frags \in Seq(Sendings) /\ pool \in Seq(Entries)
      /\ cache \in [next : Int, parts : Seq(Ranges)] /\ taken \in Seq(Seq(Ranges))
  BY Zenon DEF IconTypeOK, Entries
<1>1. pool # <<>> /\ pool' = Tail(pool) /\ UNCHANGED <<msgs, frags>>
  BY Executes, Zenon
<1>2. \/ /\ tx.index = 0 /\ taken' = Append(taken, Icon!Parts(tx))
         /\ cache' = IF tx.fragment THEN Icon!NoFragments ELSE cache
      \/ /\ tx.index # 0 /\ UNCHANGED taken
         /\ cache' = [next |-> IF tx.index < 0 THEN -tx.index - 1 ELSE tx.index - 1, parts |-> Icon!Parts(tx)]
      \/ (tx.index = 0 \/ ~Icon!Follows(tx)) /\ UNCHANGED <<cache, taken>>
  BY Executes, Zenon
<1>3. PICK n \in Nat : n = Len(pool) /\ n > 0 /\ Head(pool) = pool[1] /\ 1 \in 1 .. n /\ tx \in Sendings
  BY <1>0, <1>1, HeadIsEntry, LenProperties, EmptySeq, SMTT(60)
<1>4. Len(pool') = n - 1 /\ \A i \in 1 .. n - 1 : pool'[i] = pool[i + 1]
  BY <1>0, <1>1, <1>3, HeadTailProperties, SMTT(60)
<1>5. PICK m \in 1 .. Len(msgs) : \E k \in 1 .. Len(Cut(msgs, m)) :
        tx = Cut(msgs, m)[k] /\ Joined(msgs, pool, cache, m, k, 1)
  BY <1>3, Zenon DEF InOrder, InPool
<1>6. PICK k \in 1 .. Len(Cut(msgs, m)) : tx = Cut(msgs, m)[k] /\ Joined(msgs, pool, cache, m, k, 1)
  BY <1>5, Zenon
<1>7. PICK idx \in Nat : /\ idx = msgs[m] \div txSizeLimit /\ Len(Cut(msgs, m)) = idx + 1
                        /\ \A q \in 1 .. idx + 1 : Piece(Cut(msgs, m)[q], m, msgs[m], idx, q)
  BY <1>0, CutIs, Zenon
<1>8. k \in 1 .. idx + 1 /\ (tx.index = 0 <=> k = idx + 1) /\ tx.index = Index(idx, k) /\ (tx.fragment <=> idx # 0)
  BY <1>6, <1>7, SMTT(30), ZenonT(60) DEF Piece
<1>9. k = 1 \/ Begun(msgs, cache, m, k - 1)
  BY <1>6 DEF Joined
<1> HIDE DEF tx
<1>10. tx.part = Cut(msgs, m)[k].part /\ tx.part \in Ranges
  BY <1>3, <1>6, Zenon DEF Sendings
<1>11. ASSUME k # 1
       PROVE  /\ Icon!Parts(tx) = Append(cache.parts, tx.part) /\ tx.index = idx - k + 1 /\ tx.index = cache.next
              /\ Len(Icon!Parts(tx)) = k /\ \A j \in 1 .. k : Icon!Parts(tx)[j] = Cut(msgs, m)[j].part
  <2>1. tx.index = idx - k + 1 /\ tx.index >= 0 /\ tx.fragment
    BY <1>8, <1>11, SMTT(60) DEF Index
  <2>2. Icon!Parts(tx) = Append(cache.parts, tx.part)
    BY <2>1, Zenon DEF Icon!Parts
  <2>3. cache.next = idx - (k - 1) /\ Len(cache.parts) = k - 1 /\ \A j \in 1 .. k - 1 : cache.parts[j] = Cut(msgs, m)[j].part
    BY <1>7, <1>9, <1>11, Zenon DEF Begun
  <2>4. cache.parts \in Seq(Ranges)
    BY <1>0, Zenon
  <2>5. /\ Len(Icon!Parts(tx)) = (k - 1) + 1 /\ Icon!Parts(tx)[(k - 1) + 1] = tx.part
        /\ \A j \in 1 .. k - 1 : Icon!Parts(tx)[j] = cache.parts[j]
    BY <1>10, <2>2, <2>3, <2>4, AppendProperties, SMTT(60)
  <2>6. (k - 1) + 1 = k /\ idx - (k - 1) = idx - k + 1 /\ \A j \in 1 .. k : j \in 1 .. k - 1 \/ j = k
    BY <1>7, <1>8, SMTT(60)
  <2> QED
    BY <1>10, <2>1, <2>2, <2>3, <2>5, <2>6, Zenon
<1>12. ASSUME k = 1
       PROVE  /\ Icon!Parts(tx) = <<tx.part>> /\ tx.index = -idx
              /\ Len(Icon!Parts(tx)) = k /\ \A j \in 1 .. k : Icon!Parts(tx)[j] = Cut(msgs, m)[j].part
  <2>1. tx.index = -idx
    BY <1>8, <1>12, Zenon DEF Index
  <2>2. ~(tx.fragment /\ tx.index >= 0)
    BY <1>7, <1>8, <2>1, SMTT(60)
  <2>3. Icon!Parts(tx) = <<tx.part>>
    BY <2>2, Zenon DEF Icon!Parts
  <2> QED
    BY <1>10, <1>12, <2>1, <2>3, SMTT(60)
<1>13. Len(Icon!Parts(tx)) = k /\ \A j \in 1 .. k : Icon!Parts(tx)[j] = Cut(msgs, m)[j].part
  BY <1>11, <1>12, Zenon
<1>14. ASSUME tx.index # 0 PROVE Begun(msgs, cache', m, k) /\ UNCHANGED taken
  <2>1. Icon!Follows(tx)
    <3>1. CASE k = 1
      <4>1. tx.index < 0
        BY <1>7, <1>12, <1>14, <3>1, SMTT(30), ZenonT(60)
      <4> QED
        BY <4>1, Zenon DEF Icon!Follows
    <3>2. CASE k # 1
      BY <1>11, <3>2, Zenon DEF Icon!Follows
    <3> QED
      BY <3>1, <3>2, Zenon
  <2>2. /\ UNCHANGED taken
        /\ cache' = [next |-> IF tx.index < 0 THEN -tx.index - 1 ELSE tx.index - 1, parts |-> Icon!Parts(tx)]
    BY <1>2, <1>14, <2>1, Zenon
  <2>3. (IF tx.index < 0 THEN -tx.index - 1 ELSE tx.index - 1) = idx - k
    <3>1. CASE k = 1
      BY <1>7, <1>12, <1>14, <3>1, SMTT(30), ZenonT(60)
    <3>2. CASE k # 1
      BY <1>7, <1>8, <1>11, <3>2, SMTT(30), ZenonT(60)
    <3> QED
      BY <3>1, <3>2, Zenon
  <2>4. cache'.next = idx - k /\ cache'.parts = Icon!Parts(tx)
    BY <2>2, <2>3, Zenon
  <2> QED
    BY <1>7, <1>13, <2>2, <2>4, Zenon DEF Begun
<1>15. ASSUME NEW a \in 1 .. Len(msgs), NEW b \in 1 .. Len(Cut(msgs, a)), NEW i \in 2 .. n + 1,
              Joined(msgs, pool, cache, a, b, i)
       PROVE  Joined(msgs, pool', cache', a, b, i - 1)
  <2>1. CASE b = 1
    BY <2>1, Zenon DEF Joined
  <2>2. CASE b # 1
    <3>1. pool[i - 1].tx = Cut(msgs, a)[b - 1]
      BY <1>15, <2>2, SMTT(60) DEF Joined
    <3>2. PICK jdx \in Nat : Len(Cut(msgs, a)) = jdx + 1
      BY <1>0, CutIs, Zenon
    <3>3. b - 1 \in 1 .. Len(Cut(msgs, a)) /\ b \in Int
      BY <2>2, <3>2, SMTT(60)
    <3>4. CASE i = 2
      <4>1. i - 1 = 1
        BY <3>4, SMTT(60)
      <4>2. Cut(msgs, m)[k] = Cut(msgs, a)[b - 1]
        BY <1>3, <1>6, <3>1, <4>1, Zenon DEF tx
      <4>3. m = a /\ k = b - 1
        BY <1>0, <3>3, <4>2, CutApart, Zenon
      <4>4. k # idx + 1
        BY <1>7, <3>2, <3>3, <4>3
      <4>5. Begun(msgs, cache', m, k)
        BY <1>8, <1>14, <4>4, Zenon
      <4> QED
        BY <4>1, <4>3, <4>5, Zenon DEF Joined
    <3>5. CASE i # 2
      <4>1. i - 1 > 1 /\ (i - 1) - 1 \in 1 .. n - 1 /\ ((i - 1) - 1) + 1 = i - 1
        BY <3>5, SMTT(60)
      <4>2. pool'[(i - 1) - 1] = pool[i - 1]
        BY <1>4, <4>1, Zenon
      <4> QED
        BY <3>1, <4>1, <4>2, Zenon DEF Joined
    <3> QED
      BY <3>4, <3>5, Zenon
  <2> QED
    BY <2>1, <2>2, Zenon
<1>16. ASSUME NEW i \in 1 .. n - 1 PROVE InPool(msgs, pool', cache', i)
  <2>1. i + 1 \in 1 .. n /\ i + 1 \in 2 .. n + 1 /\ (i + 1) - 1 = i
    BY <1>3, SMTT(60)
  <2>2. InPool(msgs, pool, cache, i + 1)
    BY <1>3, <2>1, Zenon DEF InOrder
  <2>3. PICK a \in 1 .. Len(msgs) : \E b \in 1 .. Len(Cut(msgs, a)) :
          pool[i + 1].tx = Cut(msgs, a)[b] /\ Joined(msgs, pool, cache, a, b, i + 1)
    BY <2>2, Zenon DEF InPool
  <2>4. PICK b \in 1 .. Len(Cut(msgs, a)) : pool[i + 1].tx = Cut(msgs, a)[b] /\ Joined(msgs, pool, cache, a, b, i + 1)
    BY <2>3, Zenon
  <2>5. Joined(msgs, pool', cache', a, b, i)
    BY <1>15, <2>1, <2>4, Zenon
  <2> QED
    BY <1>4, <2>4, <2>5, Zenon DEF InPool
<1>17. frags # <<>> => \E a \in 1 .. Len(msgs) : \E b \in 1 .. Len(Cut(msgs, a)) : ToSend(msgs, frags, pool', cache', a, b)
  <2> SUFFICES ASSUME frags # <<>>
               PROVE  \E a \in 1 .. Len(msgs) : \E b \in 1 .. Len(Cut(msgs, a)) : ToSend(msgs, frags, pool', cache', a, b)
    BY Zenon
  <2>1. PICK a \in 1 .. Len(msgs) : \E b \in 1 .. Len(Cut(msgs, a)) : ToSend(msgs, frags, pool, cache, a, b)
    BY Zenon DEF InOrder
  <2>2. PICK b \in 1 .. Len(Cut(msgs, a)) : ToSend(msgs, frags, pool, cache, a, b)
    BY <2>1, Zenon
  <2>3. n + 1 \in 2 .. n + 1 /\ (n + 1) - 1 = (n - 1) + 1
    BY <1>3, SMTT(60)
  <2>4. Joined(msgs, pool, cache, a, b, n + 1)
    BY <1>3, <2>2, Zenon DEF ToSend
  <2>5. Joined(msgs, pool', cache', a, b, (n - 1) + 1)
    BY <1>15, <2>3, <2>4, Zenon
  <2>6. ToSend(msgs, frags, pool', cache', a, b)
    BY <1>4, <2>2, <2>5, Zenon DEF ToSend
  <2> QED
    BY <2>6, Zenon
<1>18. \A i \in 1 .. Len(taken') : Whole(msgs, taken'[i])
  <2>1. CASE UNCHANGED taken
    BY <2>1, Zenon DEF InOrder
  <2>2. CASE tx.index = 0 /\ taken' = Append(taken, Icon!Parts(tx))
    <3>1. Whole(msgs, Icon!Parts(tx))
      BY <1>7, <1>8, <1>13, <2>2, Zenon DEF Whole
    <3>2. Icon!Parts(tx) \in Seq(Ranges) /\ Icon!Parts(tx)[Len(Icon!Parts(tx))] = tx.part
      BY <1>0, <1>3, PartsEnd, Zenon
    <3>3. \A i \in 1 .. Len(taken') : taken'[i] = Icon!Parts(tx) \/ (i \in 1 .. Len(taken) /\ taken'[i] = taken[i])
      BY <1>0, <2>2, <3>2, HandlesOne, Zenon
    <3> QED
      BY <3>1, <3>3, Zenon DEF InOrder
  <2> QED
    BY <1>2, <2>1, <2>2, Zenon
<1> QED
  BY <1>1, <1>4, <1>16, <1>17, <1>18, Zenon DEF InOrder

LEMMA OrderSame ==
  ASSUME InOrder, UNCHANGED <<msgs, pool, cache, taken>>, frags' = frags \/ frags' = <<>>
  PROVE  InOrder'
BY Zenon DEF InOrder

LEMMA OrderStep ==
  ASSUME InOrderInv, [Next]_vars
  PROVE  InOrderInv'
<1>1. IconInv'
  BY IconStep, Zenon DEF InOrderInv
<1> SUFFICES ASSUME "lose" \notin faults' PROVE InOrder'
  BY <1>1, Zenon DEF InOrderInv
<1>2. IconTypeOK /\ HashesApart /\ ("lose" \notin faults => InOrder)
  BY Zenon DEF InOrderInv, IconInv
<1>3. CASE UNCHANGED iconVars
  BY <1>2, <1>3, OrderSame, Zenon DEF iconVars
<1>4. CASE Icon!Next
  <2>0. InOrder /\ "lose" \notin faults
    BY <1>2, <1>4, Zenon DEF Icon!Next
  <2>1. ASSUME NEW size \in Sizes, Icon!Relay(size) PROVE InOrder'
    <3>1. size \in Nat \ {0}
      BY Zenon DEF Icon!IconSubmitAssumption
    <3>2. /\ msgs' = Append(msgs, size) /\ frags' = Icon!_relay(Len(msgs) + 1, size)
          /\ UNCHANGED <<pool, cache, taken>>
      BY <2>1, Zenon DEF Icon!Relay, Icon!nodeVars
    <3> QED
      BY <1>2, <2>0, <3>1, <3>2, OrderRelayed, Zenon
  <2>2. CASE Icon!SignTransaction
    BY <2>0, <2>2, OrderSame, Zenon DEF Icon!SignTransaction, Icon!nodeVars
  <2>3. CASE Icon!SendTransaction
    <3> DEFINE accepted == pool' = Append(pool, [hash |-> signs, tx |-> Head(frags)])
    <3>1. signed /\ UNCHANGED <<cache, taken>>
      BY <2>3, Sends, Zenon
    <3>2. \/ accepted /\ \E hash : Icon!Sent(hash)
          \/ (accepted \/ UNCHANGED pool) /\ Icon!End
          \/ UNCHANGED pool /\ UNCHANGED <<msgs, frags>>
      BY <2>3, Sends, Zenon
    <3>3. frags # <<>>
      BY <1>2, <3>1, Zenon DEF HashesApart
    <3>4. CASE accepted /\ \E hash : Icon!Sent(hash)
      BY <1>2, <2>0, <3>1, <3>3, <3>4, OrderAccepted, Zenon DEF Icon!Sent
    <3>5. CASE accepted /\ Icon!End
      BY <1>2, <2>0, <3>1, <3>3, <3>5, OrderAccepted, Zenon DEF Icon!End
    <3>6. CASE UNCHANGED pool /\ Icon!End
      BY <2>0, <3>1, <3>6, OrderSame, Zenon DEF Icon!End
    <3>7. CASE UNCHANGED pool /\ UNCHANGED <<msgs, frags>>
      BY <2>0, <3>1, <3>7, OrderSame, Zenon
    <3> HIDE DEF accepted
    <3> QED
      BY <3>2, <3>4, <3>5, <3>6, <3>7, Zenon
  <2>4. ASSUME NEW p \in polls, Icon!GetResult(p) PROVE InOrder'
    BY <2>0, <2>4, OrderSame, Zenon DEF Icon!GetResult, Icon!nodeVars
  <2>5. ASSUME NEW p \in polls, Icon!GetResultPanics(p) PROVE InOrder'
    BY <2>0, <2>5, OrderSame, Zenon DEF Icon!GetResultPanics, Icon!End, Icon!nodeVars
  <2>6. CASE Icon!Restart
    BY <2>0, <2>6, OrderSame, Zenon DEF Icon!Restart, Icon!nodeVars
  <2>7. CASE Icon!Execute
    BY <1>2, <2>0, <2>7, OrderExecuted, Zenon
  <2> QED
    BY <1>4, <2>1, <2>2, <2>3, <2>4, <2>5, <2>6, <2>7, Zenon DEF Icon!Next
<1> QED
  BY <1>3, <1>4, Zenon DEF Next, EthOnly, vars

LEMMA OrderInit == Init => InOrderInv
<1> SUFFICES ASSUME Init PROVE InOrder
  BY IconInit, Zenon DEF InOrderInv
<1>1. frags = <<>> /\ pool = <<>> /\ taken = <<>>
  BY Zenon DEF Init, Icon!Init
<1>2. Len(pool) = 0 /\ Len(taken) = 0
  BY <1>1, Zenon
<1> QED
  BY <1>1, <1>2, SMTT(60) DEF InOrder

LEMMA OrderIsWhole == InOrderInv => WholeMessages
<1> SUFFICES ASSUME IconTypeOK, InOrder, NEW i \in DOMAIN taken, NEW parts, parts = taken[i]
             PROVE  /\ parts[1].first = 1
                    /\ \A k \in 2 .. Len(parts) :
                         parts[k].msg = parts[1].msg /\ parts[k].first = parts[k - 1].last + 1
                    /\ parts[Len(parts)].last = msgs[parts[1].msg]
  BY Zenon DEF InOrderInv, IconInv, WholeMessages, Icon!WholeMessages, Icon!Whole, Icon!Last
<1>0. msgs \in Seq(Nat \ {0}) /\ DOMAIN taken = 1 .. Len(taken) /\ txSizeLimit \in Nat
  BY LenProperties, Zenon DEF IconTypeOK, Icon!IconSubmitAssumption
<1>1. PICK m \in 1 .. Len(msgs) :
        Len(parts) = Len(Cut(msgs, m)) /\ \A j \in 1 .. Len(parts) : parts[j] = Cut(msgs, m)[j].part
  BY <1>0, Zenon DEF InOrder, Whole
<1>2. PICK idx \in Nat : /\ Len(Cut(msgs, m)) = idx + 1
                        /\ \A k \in 1 .. idx + 1 : Piece(Cut(msgs, m)[k], m, msgs[m], idx, k)
  BY <1>0, CutIs, Zenon
<1>3. \A k \in 1 .. idx + 1 : /\ parts[k].msg = m /\ parts[k].first = (k - 1) * txSizeLimit + 1
                              /\ parts[k].last = IF k = idx + 1 THEN msgs[m] ELSE k * txSizeLimit
  BY <1>1, <1>2, SMTT(60) DEF Piece
<1>4. 1 \in 1 .. idx + 1 /\ idx + 1 \in 1 .. idx + 1 /\ Len(parts) = idx + 1 /\ (1 - 1) * txSizeLimit + 1 = 1
  BY <1>0, <1>1, <1>2, SMTT(30), ZenonT(60)
<1>5. ASSUME NEW k \in 2 .. idx + 1 PROVE parts[k].msg = parts[1].msg /\ parts[k].first = parts[k - 1].last + 1
  <2>1. k \in 1 .. idx + 1 /\ k - 1 \in 1 .. idx + 1 /\ k - 1 # idx + 1
    BY SMTT(60)
  <2> QED
    BY <1>3, <1>4, <2>1, Zenon
<1>6. parts[1].first = 1
  BY <1>3, <1>4, Zenon
<1>7. parts[idx + 1].last = msgs[parts[1].msg]
  BY <1>3, <1>4, Zenon
<1> QED
  BY <1>4, <1>5, <1>6, <1>7, Zenon

\* What the results say: the last fragment tells which message was handled, and if
\* none can be lost, it was all of it.
LEMMA IconRight == InOrderInv => Icon!ResultIsRight
<1> SUFFICES ASSUME InOrderInv PROVE Icon!ResultIsRight
  BY Zenon
<1>1. DOMAIN taken = 1 .. Len(taken)
  BY LenProperties, Zenon DEF InOrderInv, IconInv, IconTypeOK
<1>2. "lose" \notin faults => \A i \in DOMAIN taken : Icon!Whole(taken[i])
  BY OrderIsWhole, Zenon DEF WholeMessages, Icon!WholeMessages
<1>3. \A r \in results : (r.err = "SUCCESS") <=> \E i \in DOMAIN taken : Icon!Last(taken[i]).msg = r.msg
  BY <1>1, Zenon DEF InOrderInv, IconInv, Told, Right, Handled, Icon!Last
<1> QED
  BY <1>2, <1>3, Zenon DEF Icon!ResultIsRight

\* The BMC handles only whole messages, for every limit on the size of a transaction,
\* every size of a message and every number of messages, also after a Relay that failed
\* between two fragments and a restart, if the node loses none of its transactions:
\* whatever the other faults.
THEOREM MessagesWhole == Spec => []WholeMessages
<1>1. Init => InOrderInv
  BY OrderInit, Zenon
<1>2. InOrderInv /\ [Next]_vars => InOrderInv'
  BY OrderStep, Zenon
<1>3. InOrderInv => WholeMessages
  BY OrderIsWhole, Zenon
<1> QED
  BY <1>1, <1>2, <1>3, PTL DEF Spec

-----------------------------------------------------------------------------
(***************************************************************************)
(* The ethbr sender.                                                       *)
(***************************************************************************)
Codes == {"", "SUCCESS", "Uncoded", "BMVUnknown", "BMVNotVerifiable", "BMVAlreadyVerified"}
Transactions ==
  [msg : Nat, nonce : Nat, st : {"pool", "ok", "failed", "dropped"}, at : Nat,
   g : {"poll", "receipt", "revert", "result", "gone"}, code : Codes]

EthTypeOK == pos \in Nat /\ next \in Nat \ {0} /\ txs \in Seq(Transactions) /\ ethFaults \in EthFaults

(* A goroutine is at a request only when the transaction has been executed;  *)
(* what it has found out was so then and, as the BMC never goes back, still  *)
(* is; a transaction that failed would have failed at any time before.       *)
EthRight(t, p) ==
  /\ t.g = "receipt" => t.st \in {"ok", "failed"}
  /\ t.g = "revert" => t.st = "failed"
  /\ t.g = "result" => t.code # ""
  /\ t.st = "failed" => t.at <= p /\ Eth!Verdict(t.msg, t.at) # "ok"
  /\ t.code = "SUCCESS" => t.st = "ok"
  /\ t.code \in {"BMVUnknown", "BMVNotVerifiable", "BMVAlreadyVerified"} => t.st = "failed"
  /\ t.code = "BMVAlreadyVerified" => p >= t.msg

EthInv == EthTypeOK /\ \A i \in 1 .. Len(txs) : EthRight(txs[i], pos)

(* While nothing happens from outside, transaction i carries message i with  *)
(* the nonce i - 1, and the first pos of them have been executed.            *)
Due(t, i, p) ==
  /\ t.msg = i /\ t.nonce = i - 1 /\ t.code \in {"", "SUCCESS"}
  /\ t.st = IF i <= p THEN "ok" ELSE "pool"
InTurn ==
  /\ next = Len(txs) + 1 /\ pos <= Len(txs)
  /\ \A i \in 1 .. Len(txs) : Due(txs[i], i, pos)

\* What the BMC does with message k at a position, in numbers.
LEMMA VerdictOk ==
  ASSUME NEW k \in Nat, NEW p \in Nat, Eth!Verdict(k, p) = "ok"
  PROVE  p + 1 = k
BY DEF Eth!Verdict

LEMMA VerdictVerified ==
  ASSUME NEW k \in Nat, NEW p \in Nat, Eth!Verdict(k, p) = "BMVAlreadyVerified"
  PROVE  p >= k
BY Zenon DEF Eth!Verdict

LEMMA VerdictKinds ==
  ASSUME NEW k, NEW p
  PROVE  Eth!Verdict(k, p) \in {"text", "odd", "BMVAlreadyVerified", "BMVNotVerifiable", "ok"}
BY Zenon DEF Eth!Verdict

LEMMA EthInit == Init => EthInv /\ (ethFaults = {} => InTurn)
<1> SUFFICES ASSUME Init PROVE EthInv /\ InTurn
  BY Zenon
<1>1. pos = 0 /\ next = 1 /\ txs = <<>> /\ ethFaults \in EthFaults
  BY Zenon DEF Init, Eth!Init
<1>2. txs \in Seq(Transactions) /\ Len(txs) = 0
  BY <1>1
<1> QED
  BY <1>1, <1>2 DEF EthInv, EthTypeOK, InTurn

-----------------------------------------------------------------------------
\* The verdicts do not change, and what was found out stays right.
LEMMA EthStays ==
  ASSUME UNCHANGED ethFaults, NEW t \in Transactions, NEW p \in Nat, NEW q \in Nat, p <= q, EthRight(t, p)
  PROVE  EthRight(t, q)
<1>1. t.at \in Nat /\ t.msg \in Nat
  BY Zenon DEF Transactions
<1>2. \A k \in Nat : (k <= p => k <= q) /\ (p >= k => q >= k)
  OBVIOUS
<1>3. (t.at <= p => t.at <= q) /\ (p >= t.msg => q >= t.msg)
  BY <1>1, <1>2, Zenon
<1> QED
  BY <1>3, Zenon DEF EthRight

LEMMA EthSame ==
  ASSUME EthInv, UNCHANGED <<pos, next, txs, ethFaults>>
  PROVE  EthInv' /\ (InTurn => InTurn')
BY Zenon DEF EthInv, EthTypeOK, EthRight, InTurn, Eth!Verdict, Eth!Refused

\* A transaction becomes t and the BMC does not go back.
LEMMA EthChanges ==
  ASSUME EthInv, UNCHANGED ethFaults, next' \in Nat \ {0}, pos' \in Nat, pos <= pos',
         NEW i \in DOMAIN txs, NEW t \in Transactions, txs' = [txs EXCEPT ![i] = t], EthRight(t, pos')
  PROVE  EthInv'
<1>1. EthTypeOK'
  BY DEF EthInv, EthTypeOK
<1>2. txs'[i] = t /\ DOMAIN txs = 1 .. Len(txs) /\ Len(txs') = Len(txs)
  BY DEF EthInv, EthTypeOK
<1>3. ASSUME NEW j \in 1 .. Len(txs') PROVE EthRight(txs'[j], pos')
  <2>1. CASE j = i
    BY <1>2, <2>1, Zenon
  <2>2. CASE j # i
    <3>1. txs'[j] = txs[j] /\ txs[j] \in Transactions /\ EthRight(txs[j], pos) /\ pos \in Nat
      BY <1>2, <1>3, <2>2 DEF EthInv, EthTypeOK
    <3> QED
      BY <3>1, EthStays, Zenon
  <2> QED
    BY <2>1, <2>2, Zenon
<1>4. \A k, p : Eth!Verdict(k, p)' = Eth!Verdict(k, p)
  BY DEF Eth!Verdict, Eth!Refused
<1> QED
  BY <1>1, <1>3, <1>4, Zenon DEF EthInv, EthRight

\* t with another state, position, place and code.
Put(t, st, p, g, code) == [msg |-> t.msg, nonce |-> t.nonce, st |-> st, at |-> p, g |-> g, code |-> code]

LEMMA PutsPlace ==
  ASSUME NEW t \in Transactions, NEW g PROVE [t EXCEPT !.g = g] = Put(t, t.st, t.at, g, t.code)
BY DEF Put, Transactions

LEMMA PutsState ==
  ASSUME NEW t \in Transactions, NEW st PROVE [t EXCEPT !.st = st] = Put(t, st, t.at, t.g, t.code)
BY DEF Put, Transactions

LEMMA PutsResult ==
  ASSUME NEW t \in Transactions, NEW code, NEW g
  PROVE  [[t EXCEPT !.code = code] EXCEPT !.g = g] = Put(t, t.st, t.at, g, code)
<1> DEFINE u == [t EXCEPT !.code = code]
<1>1. u = Put(t, t.st, t.at, t.g, code)
  BY DEF Put, Transactions
<1> HIDE DEF u
<1>2. [u EXCEPT !.g = g] = Put(t, t.st, t.at, g, code)
  BY <1>1 DEF Put
<1> QED
  BY <1>2, Zenon DEF u

LEMMA PutsExecuted ==
  ASSUME NEW t \in Transactions, NEW st, NEW p
  PROVE  [[t EXCEPT !.st = st] EXCEPT !.at = p] = Put(t, st, p, t.g, t.code)
<1> DEFINE u == [t EXCEPT !.st = st]
<1>1. u = Put(t, st, t.at, t.g, t.code)
  BY DEF Put, Transactions
<1> HIDE DEF u
<1>2. [u EXCEPT !.at = p] = Put(t, st, p, t.g, t.code)
  BY <1>1 DEF Put
<1> QED
  BY <1>2, Zenon DEF u

LEMMA TxIsOne ==
  ASSUME EthInv, NEW i \in DOMAIN txs
  PROVE  /\ i \in 1 .. Len(txs) /\ txs[i] \in Transactions /\ EthRight(txs[i], pos)
         /\ pos \in Nat /\ next \in Nat \ {0} /\ txs \in Seq(Transactions)
<1>1. i \in 1 .. Len(txs) /\ txs[i] \in Transactions
  BY DEF EthInv, EthTypeOK
<1> QED
  BY <1>1, Zenon DEF EthInv, EthTypeOK

\* The goroutine of transaction i goes on, with a code that is right.
LEMMA EthGoes ==
  ASSUME EthInv, UNCHANGED <<pos, ethFaults>>, next' \in Nat \ {0}, NEW i \in DOMAIN txs,
         NEW g \in {"poll", "receipt", "revert", "result", "gone"}, NEW code \in Codes,
         txs' = [txs EXCEPT ![i] = Put(txs[i], txs[i].st, txs[i].at, g, code)],
         EthRight(Put(txs[i], txs[i].st, txs[i].at, g, code), pos)
  PROVE  /\ EthInv'
         /\ (InTurn /\ next' = next /\ code \in {"", "SUCCESS"}) => InTurn'
<1> DEFINE t == Put(txs[i], txs[i].st, txs[i].at, g, code)
<1>1. txs \in Seq(Transactions) /\ i \in 1 .. Len(txs) /\ txs[i] \in Transactions /\ pos \in Nat
  BY TxIsOne, Zenon
<1>2. t \in Transactions /\ t.msg = txs[i].msg /\ t.nonce = txs[i].nonce /\ t.st = txs[i].st /\ t.code = code
  BY <1>1, Zenon DEF Put, Transactions
<1> HIDE DEF t
<1>3. txs' = [txs EXCEPT ![i] = t] /\ EthRight(t, pos')
  BY Zenon DEF t
<1>4. EthInv'
  <2>1. pos' \in Nat /\ pos <= pos'
    BY <1>1
  <2> QED
    BY <1>2, <1>3, <2>1, EthChanges, Zenon
<1>5. ASSUME InTurn, next' = next, code \in {"", "SUCCESS"} PROVE InTurn'
  <2>1. Len(txs') = Len(txs) /\ \A j \in 1 .. Len(txs) : txs'[j] = IF j = i THEN t ELSE txs[j]
    BY <1>1, <1>3
  <2>2. ASSUME NEW j \in 1 .. Len(txs)
        PROVE  /\ txs'[j].msg = j /\ txs'[j].nonce = j - 1 /\ txs'[j].code \in {"", "SUCCESS"}
               /\ txs'[j].st = IF j <= pos' THEN "ok" ELSE "pool"
    <3>1. txs'[j].msg = txs[j].msg /\ txs'[j].nonce = txs[j].nonce /\ txs'[j].st = txs[j].st
          /\ txs'[j].code \in {code, txs[j].code}
      BY <1>2, <2>1, Zenon
    <3> QED
      BY <1>5, <3>1, Zenon DEF InTurn, Due
  <2>3. next' = Len(txs') + 1 /\ pos' <= Len(txs') /\ Len(txs') = Len(txs)
    BY <1>5, <2>1, Zenon DEF InTurn, Due
  <2> QED
    BY ONLY <2>2, <2>3, Zenon DEF InTurn, Due
<1> QED
  BY <1>4, <1>5, Zenon

LEMMA EthResult ==
  ASSUME EthInv, UNCHANGED <<ethFaults>>, NEW i \in DOMAIN txs, NEW code \in Codes \ {""}, Eth!result(i, code),
         code = "SUCCESS" => txs[i].st = "ok",
         code \in {"BMVUnknown", "BMVNotVerifiable", "BMVAlreadyVerified"} => txs[i].st = "failed",
         code = "BMVAlreadyVerified" => pos >= txs[i].msg
  PROVE  /\ EthInv' /\ UNCHANGED pos
         /\ (InTurn /\ code \in {"", "SUCCESS"}) => InTurn'
<1> DEFINE g == IF code = "Uncoded" THEN "gone" ELSE "result"
           t == Put(txs[i], txs[i].st, txs[i].at, g, code)
<1>1. txs[i] \in Transactions /\ EthRight(txs[i], pos) /\ next \in Nat \ {0} /\ UNCHANGED <<pos, next>>
  BY TxIsOne, Zenon DEF Eth!result
<1>2. txs' = [txs EXCEPT ![i] = [[txs[i] EXCEPT !.code = code] EXCEPT !.g = g]]
  BY Zenon DEF Eth!result, EthInv, EthTypeOK
<1>3. txs' = [txs EXCEPT ![i] = t]
  <2> HIDE DEF g
  <2>1. [[txs[i] EXCEPT !.code = code] EXCEPT !.g = g] = t
    BY <1>1, PutsResult, Zenon
  <2> QED
    BY <1>2, <2>1, Zenon
<1>4. EthRight(t, pos)
  BY <1>1, Zenon DEF EthRight, Put, Codes
<1>5. g \in {"poll", "receipt", "revert", "result", "gone"}
  BY Zenon
<1> HIDE DEF g
<1> QED
  BY <1>1, <1>3, <1>4, <1>5, EthGoes, Zenon

LEMMA EthGoroutine ==
  ASSUME EthInv, UNCHANGED ethFaults, ethFaults = {} => InTurn, NEW i \in DOMAIN txs,
         Eth!Goroutine(i) \/ Eth!RequestFails(i)
  PROVE  EthInv' /\ (ethFaults = {} => InTurn') /\ UNCHANGED pos
<1>0. /\ txs[i] \in Transactions /\ EthRight(txs[i], pos) /\ next \in Nat \ {0} /\ pos \in Nat
      /\ txs \in Seq(Transactions) /\ i \in 1 .. Len(txs)
      /\ ethFaults = {} => txs[i].st \in {"ok", "pool"} /\ txs[i].code \in {"", "SUCCESS"}
  <2>1. i \in 1 .. Len(txs)
    BY TxIsOne, Zenon
  <2>2. ethFaults = {} => txs[i].st \in {"ok", "pool"} /\ txs[i].code \in {"", "SUCCESS"}
    BY <2>1, Zenon DEF InTurn, Due
  <2> QED
    BY <2>2, TxIsOne, Zenon
<1>1. ASSUME NEW place \in {"receipt", "revert"}, Eth!Goes(i, place),
             txs[i].st \in {"ok", "failed"}, place = "revert" => txs[i].st = "failed"
      PROVE  EthInv' /\ (ethFaults = {} => InTurn') /\ UNCHANGED pos
  <2> DEFINE t == Put(txs[i], txs[i].st, txs[i].at, place, txs[i].code)
  <2>1. txs' = [txs EXCEPT ![i] = t] /\ UNCHANGED <<pos, next>>
    BY <1>0, <1>1, PutsPlace, Zenon DEF Eth!Goes
  <2>2. EthRight(t, pos) /\ txs[i].code \in Codes
    BY <1>0, <1>1, Zenon DEF EthRight, Put, Transactions
  <2>3. ethFaults = {} => txs[i].code \in {"", "SUCCESS"}
    BY <1>0, Zenon
  <2> QED
    BY <1>0, <2>1, <2>2, <2>3, EthGoes, Zenon
<1>2. CASE Eth!GetTransaction(i)
  <2>1. CASE txs[i].st = "dropped"
    <3>1. EthInv' /\ UNCHANGED pos
      BY <1>2, <2>1, EthResult, Zenon DEF Eth!GetTransaction, Codes
    <3>2. ethFaults # {}
      BY <1>0, <2>1, Zenon
    <3> QED
      BY <3>1, <3>2, Zenon
  <2>2. CASE txs[i].st # "dropped"
    <3>1. Eth!Goes(i, "receipt") /\ txs[i].st \in {"ok", "failed"}
      BY <1>0, <1>2, <2>2, Zenon DEF Eth!GetTransaction, Transactions
    <3> QED
      BY <1>1, <3>1, Zenon
  <2> QED
    BY <2>1, <2>2, Zenon
<1>3. CASE Eth!GetTransactionReceipt(i)
  <2>1. txs[i].st \in {"ok", "failed"}
    BY <1>0, <1>3, Zenon DEF Eth!GetTransactionReceipt, Eth!At, EthRight
  <2>2. CASE txs[i].st = "ok"
    BY <1>3, <2>2, EthResult, Zenon DEF Eth!GetTransactionReceipt, Codes
  <2>3. CASE txs[i].st = "failed"
    BY <1>1, <1>3, <2>3, Zenon DEF Eth!GetTransactionReceipt
  <2> QED
    BY <2>1, <2>2, <2>3, Zenon
<1>4. CASE Eth!GetRevertMessage(i)
  <2> DEFINE v == Eth!Verdict(txs[i].msg, pos)
  <2>1. txs[i].st = "failed" /\ txs[i].msg \in Nat
    BY <1>0, <1>4, Zenon DEF Eth!GetRevertMessage, Eth!At, EthRight, Transactions
  <2>2. ethFaults # {}
    BY <1>0, <2>1, Zenon
  <2>3. v \in {"text", "odd", "BMVAlreadyVerified", "BMVNotVerifiable", "ok"}
        /\ (v = "BMVAlreadyVerified" => pos >= txs[i].msg)
    BY <1>0, <2>1, VerdictKinds, VerdictVerified, Zenon
  <2>4. CASE v = "ok"
    <3>1. UNCHANGED <<pos, next, txs>>
      BY <1>4, <2>4, Zenon DEF Eth!GetRevertMessage, Eth!VerdictOfCall
    <3> QED
      BY <2>2, <3>1, EthSame, Zenon
  <2>5. CASE v = "text"
    BY <1>4, <2>1, <2>2, <2>5, EthResult, Zenon DEF Eth!GetRevertMessage, Eth!VerdictOfCall,
       Codes
  <2>6. CASE v = "odd"
    BY <1>4, <2>1, <2>2, <2>6, EthResult, Zenon DEF Eth!GetRevertMessage, Eth!VerdictOfCall,
       Codes
  <2>7. CASE v \in {"BMVAlreadyVerified", "BMVNotVerifiable"}
    <3>1. Eth!result(i, v)
      BY <1>4, <2>7, Zenon DEF Eth!GetRevertMessage, Eth!VerdictOfCall
    <3> HIDE DEF v
    <3> QED
      BY <2>1, <2>2, <2>3, <2>7, <3>1, EthResult, Zenon DEF Codes
  <2> QED
    BY <2>3, <2>4, <2>5, <2>6, <2>7, Zenon
<1>5. CASE Eth!RequestFails(i)
  <2>1. ethFaults # {}
    BY <1>5, Zenon DEF Eth!RequestFails
  <2>2. CASE Eth!result(i, "Uncoded")
    BY <2>1, <2>2, EthResult, Zenon DEF Codes
  <2>3. CASE txs[i].g = "revert" /\ Eth!result(i, "BMVUnknown")
    <3>1. txs[i].st = "failed"
      BY <1>0, <2>3, Zenon DEF EthRight
    <3> QED
      BY <2>1, <2>3, <3>1, EthResult, Zenon DEF Codes
  <2> QED
    BY <1>5, <2>2, <2>3, Zenon DEF Eth!RequestFails
<1>6. CASE Eth!Deliver(i)
  <2> DEFINE t == Put(txs[i], txs[i].st, txs[i].at, "gone", txs[i].code)
  <2>1. txs' = [txs EXCEPT ![i] = t] /\ UNCHANGED pos /\ txs[i].code # ""
        /\ next' = IF txs[i].code = "SUCCESS" THEN next ELSE pos + 1
    BY <1>0, <1>6, PutsPlace, Zenon DEF Eth!Deliver, Eth!At, EthRight
  <2>2. EthRight(t, pos) /\ txs[i].code \in Codes
    BY <1>0, Zenon DEF EthRight, Put, Transactions
  <2>3. ethFaults = {} => txs[i].code = "SUCCESS"
    BY <1>0, <2>1, Zenon
  <2>4. next' \in {next, pos + 1} /\ (ethFaults = {} => next' = next)
    BY <2>1, <2>3, Zenon
  <2>5. next' \in Nat \ {0}
    <3>1. \A n \in Nat : n + 1 \in Nat \ {0}
      OBVIOUS
    <3> QED
      BY <1>0, <2>4, <3>1, Zenon
  <2> QED
    BY <2>1, <2>2, <2>3, <2>4, <2>5, EthGoes, Zenon
<1> QED
  BY <1>2, <1>3, <1>4, <1>5, <1>6, Zenon DEF Eth!Goroutine

\* The library's facts about the sizes of sets are needed from here on only.
INSTANCE FiniteSetTheorems

\* A set of naturals that is not empty has a least element.
LEMMA Least ==
  ASSUME NEW S, S \subseteq Nat, S # {}
  PROVE  \E m \in S : \A n \in S : m <= n
<1>1. PICK m \in S : \A n \in S : <<n, m>> \notin OpToRel(<, Nat)
  BY WFMin, NatLessThanWellFounded, Zenon
<1>2. ASSUME NEW n \in S PROVE m <= n
  <2>1. n \in Nat /\ m \in Nat
    BY Zenon
  <2>2. ~(n < m)
    BY <1>1, <2>1, Zenon DEF OpToRel
  <2> QED
    BY <2>1, <2>2
<1> QED
  BY <1>2, Zenon

LEMMA CountOfFirst == ASSUME NEW n \in Nat PROVE IsFiniteSet(1 .. n) /\ Cardinality(1 .. n) = n
BY FS_Interval, SMTT(60)

\* While the transactions are executed in turn, those executed are the first ones.
LEMMA InTurnCount ==
  ASSUME EthInv, InTurn
  PROVE  Cardinality({j \in DOMAIN txs : txs[j].st \in {"ok", "failed"}}) = pos
<1>0. PICK len \in Nat : len = Len(txs) /\ DOMAIN txs = 1 .. len
  BY DEF EthInv, EthTypeOK
<1>1. pos \in Nat /\ pos <= len
  BY <1>0, Zenon DEF EthInv, EthTypeOK, InTurn, Due
<1>2. \A j \in 1 .. len : txs[j].st \in {"ok", "failed"} <=> j <= pos
  BY <1>0, Zenon DEF InTurn, Due
<1>3. {j \in DOMAIN txs : txs[j].st \in {"ok", "failed"}} = 1 .. pos
  BY <1>0, <1>1, <1>2, SMTT(60)
<1> QED
  BY <1>1, <1>3, CountOfFirst, Zenon

LEMMA EthExecutes ==
  ASSUME EthInv, UNCHANGED ethFaults, ethFaults = {} => InTurn, NEW i \in DOMAIN txs, Eth!Execute(i)
  PROVE  EthInv' /\ (ethFaults = {} => InTurn')
<1> DEFINE v == Eth!Verdict(txs[i].msg, pos)
           st == IF v = "ok" THEN "ok" ELSE "failed"
           t == Put(txs[i], st, pos, txs[i].g, txs[i].code)
<1>0. /\ txs[i] \in Transactions /\ EthRight(txs[i], pos) /\ next \in Nat \ {0} /\ pos \in Nat
      /\ txs \in Seq(Transactions) /\ i \in 1 .. Len(txs)
  BY TxIsOne, Zenon
<1>1. /\ txs[i].st = "pool" /\ pos' = IF v = "ok" THEN txs[i].msg ELSE pos
      /\ UNCHANGED next
  BY Zenon DEF Eth!Execute
<1>9. txs[i].nonce = Cardinality({j \in DOMAIN txs : txs[j].st \in {"ok", "failed"}})
  BY Zenon DEF Eth!Execute, Eth!Cardinality, Cardinality, Eth!IsFiniteSet, IsFiniteSet
<1>2. txs' = [txs EXCEPT ![i] = [[txs[i] EXCEPT !.st = st] EXCEPT !.at = pos]]
  BY <1>0, Zenon DEF Eth!Execute
<1>3. txs' = [txs EXCEPT ![i] = t]
  <2> HIDE DEF st
  <2>1. [[txs[i] EXCEPT !.st = st] EXCEPT !.at = pos] = t
    BY <1>0, PutsExecuted, Zenon
  <2> QED
    BY <1>2, <2>1, Zenon
<1>4. pos' \in Nat /\ pos <= pos' /\ (v = "ok" => txs[i].msg = pos + 1)
  <2>1. txs[i].msg \in Nat
    BY <1>0, Zenon DEF Transactions
  <2>2. v = "ok" => txs[i].msg = pos + 1
    BY <1>0, <2>1, VerdictOk, Zenon
  <2> HIDE DEF v
  <2> QED
    BY <1>0, <1>1, <2>1, <2>2, SMTT(60)
<1>5. t \in Transactions /\ t.msg = txs[i].msg /\ t.nonce = txs[i].nonce /\ t.st = st /\ t.code = txs[i].code
  BY <1>0, Zenon DEF Put, Transactions
<1>6. EthRight(t, pos')
  BY <1>0, <1>1, <1>4, Zenon DEF EthRight, Put
<1>7. EthInv'
  <2> HIDE DEF t
  <2> QED
    BY <1>0, <1>1, <1>3, <1>4, <1>5, <1>6, EthChanges, ZenonT(60)
<1>8. ASSUME ethFaults = {} PROVE InTurn'
  <2>1. txs[i].msg = i /\ txs[i].nonce = i - 1 /\ txs[i].code \in {"", "SUCCESS"} /\ InTurn
    BY <1>0, <1>8, Zenon DEF InTurn, Due
  <2>2. i - 1 = pos
    BY <1>9, <2>1, InTurnCount, Zenon
  <2>0. PICK len \in Nat : len = Len(txs) /\ i \in 1 .. len
    BY <1>0, SMTT(60)
  <2>3. v = "ok"
    <3>1. i \in Nat /\ ~(pos >= i) /\ ~(pos < i - 1)
      BY <1>0, <2>0, <2>2, SMTT(60)
    <3>2. Eth!Verdict(i, pos) = "ok"
      BY <1>8, <3>1, Zenon DEF Eth!Verdict, Eth!Refused
    <3> QED
      BY <2>1, <3>2, Zenon
  <2>4. pos' = i /\ st = "ok" /\ i = pos + 1
    <3>1. pos' = i /\ st = "ok"
      BY <1>1, <2>1, <2>3, Zenon
    <3> QED
      BY <1>0, <2>0, <2>2, <3>1, SMTT(60)
  <2> HIDE DEF t, st, v
  <2>5. Len(txs') = Len(txs) /\ \A j \in 1 .. Len(txs) : txs'[j] = IF j = i THEN t ELSE txs[j]
    BY <1>0, <1>3, SMTT(60)
  <2>6. ASSUME NEW j \in 1 .. Len(txs)
        PROVE  /\ txs'[j].msg = j /\ txs'[j].nonce = j - 1 /\ txs'[j].code \in {"", "SUCCESS"}
               /\ txs'[j].st = IF j <= pos' THEN "ok" ELSE "pool"
    <3>1. CASE j = i
      <4>1. txs'[j] = t /\ j <= pos'
        BY <2>0, <2>4, <2>5, <3>1, SMTT(60)
      <4> QED
        BY <1>5, <2>1, <2>4, <3>1, <4>1, ZenonT(60)
    <3>2. CASE j # i
      <4>1. txs'[j] = txs[j] /\ (j <= pos <=> j <= pos')
        BY <1>0, <2>4, <2>5, <3>2
      <4> QED
        BY <2>1, <4>1, ZenonT(60) DEF InTurn, Due
    <3> QED
      BY <3>1, <3>2, Zenon
  <2>7. next' = Len(txs') + 1 /\ pos' <= Len(txs') /\ Len(txs') = Len(txs)
    <3>1. next = Len(txs) + 1
      BY <2>1, Zenon DEF InTurn, Due
    <3> QED
      BY <1>1, <2>0, <2>4, <2>5, <3>1, SMTT(60)
  <2> QED
    BY ONLY <2>6, <2>7, Zenon DEF InTurn, Due
<1> QED
  BY <1>7, <1>8, Zenon
\* The nonces in use, and the first that is not: there is one, as there are fewer
\* transactions than nonces.
Used == {txs[i].nonce : i \in {j \in DOMAIN txs : txs[j].st # "dropped"}}

LEMMA PendingIsFree ==
  ASSUME EthTypeOK, Len(txs) < MaxTxs
  PROVE  /\ Eth!PendingNonce \in 0 .. MaxTxs /\ Eth!PendingNonce \notin Used
         /\ 0 .. Eth!PendingNonce - 1 \subseteq Used
<1>0. MaxTxs \in Nat /\ Len(txs) \in Nat /\ DOMAIN txs = 1 .. Len(txs)
  BY DEF Eth!EthSubmitAssumption, EthTypeOK
<1> DEFINE I == {j \in DOMAIN txs : txs[j].st # "dropped"}
           F == (0 .. MaxTxs) \ Used
<1>1. IsFiniteSet(1 .. Len(txs)) /\ Cardinality(1 .. Len(txs)) = Len(txs)
  BY <1>0, CountOfFirst, Zenon
<1>2. IsFiniteSet(I) /\ Cardinality(I) <= Len(txs)
  BY <1>0, <1>1, FS_Subset, SMTT(60)
<1>3. IsFiniteSet(Used) /\ Cardinality(Used) <= Cardinality(I)
  <2> DEFINE f == [i \in I |-> txs[i].nonce]
  <2>1. f \in Surjection(I, Used)
    BY Zenon DEF Surjection, Used
  <2> QED
    BY <1>2, <2>1, FS_Surjection, Zenon
<1>4. IsFiniteSet(0 .. MaxTxs) /\ Cardinality(0 .. MaxTxs) = MaxTxs + 1
  BY <1>0, FS_Interval
<1>5. F # {}
  <2> SUFFICES ASSUME 0 .. MaxTxs \subseteq Used PROVE FALSE
    BY Zenon
  <2>1. MaxTxs + 1 <= Cardinality(Used)
    <3>1. IsFiniteSet(Used) /\ 0 .. MaxTxs \in SUBSET Used
      BY <1>3, Zenon
    <3> QED
      BY <1>4, <3>1, FS_Subset, Zenon
  <2> QED
    BY <1>0, <1>2, <1>3, <2>1, FS_CardinalityType, SMTT(60)
<1>6. F \subseteq Nat
  BY <1>0
<1>7. PICK n \in F : \A k \in F : n <= k
  <2> HIDE DEF F
  <2> QED
    BY <1>5, <1>6, Least, Zenon
<1>8. n \in 0 .. MaxTxs /\ n \notin Used
  BY <1>7, Zenon
<1>9. ASSUME NEW k \in 0 .. n - 1 PROVE k \in Used
  <2>1. k \in 0 .. MaxTxs /\ ~(n <= k)
    BY <1>0, <1>8, <1>9
  <2> QED
    BY <1>7, <2>1, Zenon
<1> QED
  BY <1>8, <1>9, Zenon DEF Eth!PendingNonce, Used


LEMMA EthRelays ==
  ASSUME EthInv, UNCHANGED ethFaults, ethFaults = {} => InTurn, Eth!Relay
  PROVE  EthInv' /\ (ethFaults = {} => InTurn') /\ UNCHANGED pos
<1> DEFINE n == Eth!PendingNonce
           R(t) == IF t.st = "pool" /\ t.nonce = n THEN [t EXCEPT !.st = "dropped"] ELSE t
           S == [i \in DOMAIN txs |-> R(txs[i])]
           new == [msg |-> next, nonce |-> n, st |-> "pool", at |-> 0, g |-> "poll", code |-> ""]
<1>0. /\ next \in Nat \ {0} /\ pos \in Nat /\ txs \in Seq(Transactions) /\ DOMAIN txs = 1 .. Len(txs)
      /\ Len(txs) \in Nat /\ ethFaults \in EthFaults /\ MaxTxs \in Nat
  BY SMTT(60) DEF EthInv, EthTypeOK, Eth!EthSubmitAssumption
<1>1. txs' = Append(S, new) /\ next' = next + 1 /\ UNCHANGED pos /\ Len(txs) < MaxTxs
  BY Zenon DEF Eth!Relay
<1>2. n \in Nat /\ n \notin Used /\ 0 .. n - 1 \subseteq Used
  <2>1. n \in 0 .. MaxTxs /\ n \notin Used /\ 0 .. n - 1 \subseteq Used
    BY <1>1, PendingIsFree, Zenon DEF EthInv
  <2> HIDE DEF n
  <2> QED
    BY <2>1, SMTT(60)
<1>11. PICK len \in Nat : len = Len(txs) /\ DOMAIN txs = 1 .. len
  BY <1>0, Zenon
<1> HIDE DEF n
<1>3. new \in Transactions /\ EthRight(new, pos)
  BY <1>0, <1>2, Zenon DEF Transactions, EthRight, Codes
<1>4. ASSUME NEW t \in Transactions, EthRight(t, pos) PROVE R(t) \in Transactions /\ EthRight(R(t), pos)
  <2>1. [t EXCEPT !.st = "dropped"] = Put(t, "dropped", t.at, t.g, t.code)
    BY PutsState, Zenon
  <2>2. Put(t, "dropped", t.at, t.g, t.code) \in Transactions
    BY Zenon DEF Put, Transactions
  <2>3. t.st = "pool" => EthRight(Put(t, "dropped", t.at, t.g, t.code), pos)
    BY <1>4, Zenon DEF Put, EthRight
  <2> QED
    BY <1>4, <2>1, <2>2, <2>3, Zenon
<1>5. \A i \in 1 .. Len(txs) : txs[i] \in Transactions /\ EthRight(txs[i], pos)
  BY <1>0, SMTT(60) DEF EthInv
<1>6. S \in Seq(Transactions) /\ Len(S) = Len(txs) /\ \A i \in 1 .. Len(txs) : S[i] = R(txs[i])
  <2>1. \A i \in 1 .. Len(txs) : R(txs[i]) \in Transactions
    BY <1>4, <1>5, Zenon
  <2> HIDE DEF R
  <2> QED
    BY <1>0, <2>1, SMTT(60)
<1> HIDE DEF S, new
<1>7. /\ txs' \in Seq(Transactions) /\ Len(txs') = Len(txs) + 1 /\ txs'[Len(txs) + 1] = new
      /\ \A i \in 1 .. Len(txs) : txs'[i] = R(txs[i])
  <2> HIDE DEF R
  <2> QED
    BY <1>1, <1>3, <1>6, AppendProperties, SMTT(60)
<1>8. ASSUME NEW i \in 1 .. Len(txs') PROVE EthRight(txs'[i], pos')
  <2>1. i \in 1 .. Len(txs) \/ i = Len(txs) + 1
    BY <1>0, <1>7, SMTT(60)
  <2> HIDE DEF R
  <2> QED
    BY <1>1, <1>3, <1>4, <1>5, <1>7, <2>1, Zenon
<1>9. EthInv'
  <2>1. \A k, p : Eth!Verdict(k, p)' = Eth!Verdict(k, p)
    BY DEF Eth!Verdict, Eth!Refused
  <2>2. EthTypeOK'
    BY <1>0, <1>1, <1>7, SMTT(60) DEF EthTypeOK
  <2> QED
    BY <1>8, <2>1, <2>2, Zenon DEF EthInv, EthRight
<1>10. ASSUME ethFaults = {} PROVE InTurn'
  <2>1. next = len + 1 /\ pos <= len /\ \A i \in 1 .. len : Due(txs[i], i, pos)
    BY <1>10, <1>11, Zenon DEF InTurn
  <2>2. ASSUME NEW m \in Nat PROVE m \in Used <=> m < len
    <3>1. ASSUME m \in Used PROVE m < len
      <4>1. PICK i \in 1 .. len : txs[i].nonce = m
        BY <1>11, <3>1, Zenon DEF Used
      <4>2. m = i - 1
        BY <2>1, <4>1, Zenon DEF Due
      <4> QED
        BY <4>2, SMTT(60)
    <3>2. ASSUME m < len PROVE m \in Used
      <4>1. m + 1 \in 1 .. len /\ (m + 1) - 1 = m
        BY <3>2
      <4>2. PICK k \in 1 .. len : k - 1 = m
        BY <4>1, Zenon
      <4>3. txs[k].nonce = m /\ txs[k].st # "dropped"
        BY <2>1, <4>2, Zenon DEF Due
      <4> QED
        BY <1>11, <4>2, <4>3, Zenon DEF Used
    <3> QED
      BY <3>1, <3>2, Zenon
  <2>3. n = len
    <3>1. ~(n < len)
      BY <1>2, <2>2, Zenon
    <3>2. ~(len < n)
      <4> SUFFICES ASSUME len < n PROVE FALSE
        BY Zenon
      <4>1. len \in 0 .. n - 1
        BY <1>2, SMTT(60)
      <4> QED
        BY <1>2, <2>2, <4>1, SMTT(60)
    <3> QED
      BY <1>2, <3>1, <3>2, SMTT(60)
  <2>4. \A i \in 1 .. len : R(txs[i]) = txs[i]
    <3> SUFFICES ASSUME NEW i \in 1 .. len PROVE txs[i].nonce # n
      BY Zenon
    <3>1. txs[i].nonce = i - 1
      BY <2>1, Zenon DEF Due
    <3>2. i - 1 # len
      OBVIOUS
    <3> QED
      BY <2>3, <3>1, <3>2, Zenon
  <2> HIDE DEF R
  <2>6. new.msg = len + 1 /\ new.nonce = len /\ new.st = "pool" /\ new.code = ""
    BY <2>1, <2>3, Zenon DEF new
  <2>5. len + 1 \in Nat /\ ~(len + 1 <= pos) /\ (len + 1) - 1 = len
    BY <1>0, <2>1, SMTT(60)
  <2>7. Due(new, len + 1, pos)
    BY ONLY <2>5, <2>6, Zenon DEF Due
  <2>8. Len(txs') = len + 1 /\ \A i \in 1 .. len + 1 : Due(txs'[i], i, pos)
    <3>1. /\ Len(txs') = len + 1 /\ txs'[len + 1] = new
          /\ \A i \in 1 .. len : txs'[i] = txs[i]
      BY <1>7, <1>11, <2>4, Zenon
    <3>2. \A i \in 1 .. len + 1 : i \in 1 .. len \/ i = len + 1
      OBVIOUS
    <3> QED
      BY ONLY <2>1, <2>7, <3>1, <3>2, Zenon
  <2>9. next' = len + 2 /\ pos <= len + 1
    BY <1>0, <1>1, <2>1, SMTT(60)
  <2>10. len + 2 = (len + 1) + 1
    OBVIOUS
  <2>11. next' = Len(txs') + 1 /\ pos' <= Len(txs') /\ pos' = pos
    BY ONLY <1>1, <2>8, <2>9, <2>10, Zenon
  <2> QED
    BY ONLY <2>8, <2>11, Zenon DEF InTurn, Due
<1> QED
  BY <1>1, <1>9, <1>10, Zenon

LEMMA EthStep ==
  ASSUME EthInv, ethFaults = {} => InTurn, [Next]_vars
  PROVE  EthInv' /\ (ethFaults' = {} => InTurn') /\ UNCHANGED ethFaults
<1>1. CASE UNCHANGED ethVars
  BY <1>1, EthSame, Zenon DEF ethVars
<1>2. CASE Eth!Next
  <2>0. UNCHANGED ethFaults
    BY <1>2, Zenon DEF Eth!Next
  <2>1. CASE Eth!Relay
    BY <2>0, <2>1, EthRelays, Zenon
  <2>2. CASE Eth!RelayFails
    BY <2>0, <2>2, EthSame, Zenon DEF Eth!RelayFails
  <2>3. CASE Eth!OtherRelay
    <3>1. pos \in Nat /\ pos' = pos + 1 /\ UNCHANGED <<next, txs>> /\ ethFaults # {}
      BY <2>3, Zenon DEF Eth!OtherRelay, EthInv, EthTypeOK
    <3>2. pos' \in Nat /\ pos <= pos'
      BY <3>1
    <3>3. ASSUME NEW i \in 1 .. Len(txs') PROVE EthRight(txs'[i], pos')
      <4>1. txs'[i] \in Transactions /\ EthRight(txs'[i], pos)
        BY <3>1, <3>3, SMTT(60) DEF EthInv, EthTypeOK
      <4> QED
        BY <2>0, <3>1, <3>2, <4>1, EthStays, ZenonT(60)
    <3>4. EthTypeOK'
      BY <2>0, <3>1, <3>2, Zenon DEF EthInv, EthTypeOK
    <3>5. \A k, p : Eth!Verdict(k, p)' = Eth!Verdict(k, p)
      BY <2>0 DEF Eth!Verdict, Eth!Refused
    <3> QED
      BY <2>0, <3>1, <3>3, <3>4, <3>5, Zenon DEF EthInv, EthRight
  <2>4. ASSUME NEW i \in DOMAIN txs, Eth!Goroutine(i) \/ Eth!RequestFails(i)
        PROVE  EthInv' /\ (ethFaults' = {} => InTurn')
    BY <2>0, <2>4, EthGoroutine, Zenon
  <2>5. ASSUME NEW i \in DOMAIN txs, Eth!Execute(i)
        PROVE  EthInv' /\ (ethFaults' = {} => InTurn')
    BY <2>0, <2>5, EthExecutes, Zenon
  <2>6. ASSUME NEW i \in DOMAIN txs, Eth!Drop(i)
        PROVE  EthInv' /\ (ethFaults' = {} => InTurn')
    <3> DEFINE t == Put(txs[i], "dropped", txs[i].at, txs[i].g, txs[i].code)
    <3>1. txs[i] \in Transactions /\ EthRight(txs[i], pos) /\ next \in Nat \ {0} /\ pos \in Nat
      BY TxIsOne, Zenon
    <3>2. txs' = [txs EXCEPT ![i] = t] /\ UNCHANGED <<pos, next>> /\ ethFaults # {} /\ txs[i].st = "pool"
      BY <2>6, <3>1, PutsState, Zenon DEF Eth!Drop
    <3>3. t \in Transactions
      BY <3>1, Zenon DEF Put, Transactions
    <3>4. EthRight(t, pos)
      BY <3>1, <3>2, Zenon DEF EthRight, Put
    <3>5. pos' \in Nat /\ pos <= pos'
      BY <3>1, <3>2, SMTT(60)
    <3> HIDE DEF t
    <3>6. EthInv'
      BY <2>0, <3>1, <3>2, <3>3, <3>4, <3>5, EthChanges, ZenonT(60)
    <3> QED
      BY <2>0, <3>2, <3>6, Zenon
  <2> QED
    BY <1>2, <2>0, <2>1, <2>2, <2>3, <2>4, <2>5, <2>6, ZenonT(60) DEF Eth!Next
<1> QED
  BY <1>1, <1>2, Zenon DEF Next, IconOnly, vars

-----------------------------------------------------------------------------
LEMMA EthAlways == Spec => [](EthInv /\ (ethFaults = {} => InTurn))
<1> DEFINE I == EthInv /\ (ethFaults = {} => InTurn)
<1>1. Init => I
  BY EthInit, Zenon
<1>2. I /\ [Next]_vars => I'
  BY EthStep, Zenon
<1> QED
  BY <1>1, <1>2, PTL DEF Spec

LEMMA EthRightAlways == EthInv /\ (ethFaults = {} => InTurn) => Eth!ResultIsRight /\ Eth!NothingFails
<1> SUFFICES ASSUME EthInv, ethFaults = {} => InTurn PROVE Eth!ResultIsRight /\ Eth!NothingFails
  BY Zenon
<1>1. DOMAIN txs = 1 .. Len(txs)
  BY SMTT(60) DEF EthInv, EthTypeOK
<1>2. Eth!ResultIsRight
  BY <1>1, Zenon DEF Eth!ResultIsRight, EthInv, EthRight
<1>3. Eth!NothingFails
  BY <1>1, Zenon DEF Eth!NothingFails, InTurn, Due
<1> QED
  BY <1>2, <1>3, Zenon

LEMMA Earlier == \A a, b, c \in Nat : b + 1 = c /\ a <= b /\ a # b => a < c - 1 /\ b = c - 1
OBVIOUS

\* The goroutine of a transaction takes the text of an error that is not there, and
\* panics, only when the BMC has moved between the execution of the transaction and
\* the call of GetRevertMessage to where the message is acceptable: for every number
\* of messages and transactions, and whatever the other relays and the pool do.
THEOREM Panics == Spec => PanicExplained
<1> DEFINE A == (end = "" /\ end' = "panic") =>
       \E i \in DOMAIN txs : txs[i].g = "revert" /\ txs[i].at < txs[i].msg - 1 /\ pos = txs[i].msg - 1
<1>1. ASSUME EthInv, [Next]_vars PROVE [A]_(Eth!vars)
  <2>1. CASE UNCHANGED ethVars
    BY <2>1, Zenon DEF ethVars, Eth!vars
  <2>2. CASE Eth!Next
    <3> SUFFICES ASSUME end = "", end' = "panic" PROVE A
      BY Zenon
    <3>1. PICK i \in DOMAIN txs : Eth!GetRevertMessage(i) /\ Eth!VerdictOfCall(txs[i].msg, pos) = "ok"
      BY <2>2, Zenon DEF Eth!Next, Eth!Relay, Eth!RelayFails, Eth!OtherRelay, Eth!Goroutine,
         Eth!RequestFails,
         Eth!Execute, Eth!Drop, Eth!GetTransaction, Eth!GetTransactionReceipt, Eth!GetRevertMessage,
         Eth!Deliver, Eth!result, Eth!Goes
    <3>2. txs[i].g = "revert" /\ Eth!Verdict(txs[i].msg, pos) = "ok"
      BY <3>1, Zenon DEF Eth!GetRevertMessage, Eth!At, Eth!VerdictOfCall
    <3>3. txs[i] \in Transactions /\ EthRight(txs[i], pos) /\ pos \in Nat
      BY <1>1, TxIsOne, Zenon
    <3>4. PICK m \in Nat, at \in Nat : m = txs[i].msg /\ at = txs[i].at
      BY <3>3, Zenon DEF Transactions
    <3>5. pos + 1 = m
      BY <3>2, <3>3, <3>4, VerdictOk, ZenonT(60)
    <3>6. at <= pos /\ Eth!Verdict(m, at) # "ok"
      BY <3>2, <3>3, <3>4, Zenon DEF EthRight
    <3>7. at # pos
      BY <3>2, <3>4, <3>6, Zenon
    <3>9. at < m - 1 /\ pos = m - 1
      BY <3>3, <3>5, <3>6, <3>7, Earlier, ZenonT(60)
    <3> QED
      BY <3>2, <3>4, <3>9, Zenon
  <2> QED
    BY <1>1, <2>1, <2>2, Zenon DEF Next, IconOnly, vars
<1> HIDE DEF A
<1>2. Spec => [][A]_(Eth!vars)
  BY <1>1, EthAlways, PTL DEF Spec
<1> QED
  BY <1>2, Zenon DEF A, PanicExplained, Eth!PanicExplained

-----------------------------------------------------------------------------
\* The results of both senders are right, for every size of a message, number of
\* messages and bound, and for every set of faults: the ICON sender's although it asks
\* for the last transaction only, the ethbr sender's although it executes the
\* transaction again on a later state.  What the ICON sender says is about the whole
\* message as long as a node loses no transaction, and about its last fragment if it may.
THEOREM ResultsRight == Spec => []ResultIsRight
<1>1. Init => InOrderInv
  BY OrderInit, Zenon
<1>2. InOrderInv /\ [Next]_vars => InOrderInv'
  BY OrderStep, Zenon
<1>3. InOrderInv /\ EthInv /\ (ethFaults = {} => InTurn) => ResultIsRight
  BY IconRight, EthRightAlways, Zenon DEF ResultIsRight
<1> QED
  BY <1>1, <1>2, <1>3, EthAlways, PTL DEF Spec
=============================================================================
