---------------------------- MODULE LinkTheorems -----------------------------
(***************************************************************************)
(* What holds at all times of a relay whose goroutines take turns, for     *)
(* every value of the constants; and what holds of one that is left alone, *)
(* until it is killed: no relay message is rejected, the process does not  *)
(* end by itself, and PENDING always has a result to come that ends it.    *)
(***************************************************************************)
EXTENDS LinkProofs, LinkTurns, LinkCalm

\* The invariant of a relay whose goroutines take turns, with the types and the
\* labels of messages that it rests on.
THEOREM TakenInTurns == TakingTurns => (Spec => [](TypeInv /\ TurnsInv))
<1> SUFFICES ASSUME TakingTurns PROVE Spec => [](TypeInv /\ TurnsInv)
  OBVIOUS
<1> DEFINE Inv == TypeInv /\ DeliveryInv /\ TurnsInv
<1>1. Init => Inv
  BY TypeInit, DeliveryInit, TurnsInit
<1>2. Inv /\ [Next]_vars => Inv'
  BY TypeStep, DeliveryStep, TurnsStep
<1>3. Inv => TypeInv /\ TurnsInv
  OBVIOUS
<1> HIDE DEF Inv
<1> QED
  BY <1>1, <1>2, <1>3, PTL DEF Spec

\* The BMC never has a block without all of its messages, whatever the source,
\* the limit, the faults of the destination and the restarts: a relay message is
\* never sent with a part of what buildProof has to cover.
THEOREM NothingPartial == TakingTurns => (Spec => []DeliveredWhole)
BY TurnsWhole, TakenInTurns, PTL

\* The messages of l.rms carry consecutive blocks, also after the link has taken
\* over a position of the BMC or has been started again.
THEOREM BlocksChained == TakingTurns => (Spec => []MessagesChained)
BY TurnsChained, TakenInTurns, PTL

\* A relay message exceeds the sender's limit by no more than one message.
THEOREM SizesBounded == TakingTurns => (Spec => []SizeBounded)
BY TurnsBounded, TakenInTurns, PTL

\* buildProof does not append messages without end: as long as the position is
\* below the seq it has to reach, the receiver has a proof of the next message.
THEOREM ProofsEnd == TakingTurns => (Spec => []NoSpin)
BY TurnsEnd, TakenInTurns, PTL

\* Until the first restart, a block that the monitor has passed and the BMC has
\* not taken is known to the receiver and to the link, or on its way there.
THEOREM StatusesStay == TakingTurns => (Spec => [](crashes = 0 => StatusesKept))
BY TurnsStatuses, TakenInTurns, PTL

-----------------------------------------------------------------------------
(***************************************************************************)
(* The relay that is left alone.                                           *)
(***************************************************************************)
\* The steps below are for Zenon where they do not name another prover.
USE Zenon

LEMMA LoopCalm ==
  ASSUME TypeInv, TypeInv', DeliveryInv, ~Preemptive, Sending,
         NEW b \in BlockHeights, NEW c \in Nat, Process(b, c),
         NEW f, NEW t, Held(f, t),
         NEW p \in Procs, MayRun(p), UNCHANGED <<bmc, crashes>>, Loop(p)
  PROVE  Held(f, t)'
<1>1. pc[p] = "loop" /\ UNCHANGED <<relayState, bls, rms, rmi, queue, txs, brss>>
  BY DEF Loop, sndVars, rcvVars
<1>2. loc \in [Procs -> Locals] /\ loc[p] \in Locals
  BY DEF TypeInv, TypeOK, LinkTypeOK
<1>3. CASE Return(p)
  BY <1>1, <1>3, ReturnCalm
<1>4. CASE Goto(p, "next") /\ UNCHANGED loc
  <2>1. SetLoc(p, loc[p])
    BY <1>2, <1>4 DEF SetLoc
  <2> QED
    BY <1>1, <1>4, <2>1, Passes
<1>5. ASSUME SetLoc(p, [loc[p] EXCEPT !.bu = FALSE, !.seq = Last(rss).seq]), Goto(p, "proof") PROVE FALSE
  <2>1. pc'[p] = "proof" /\ loc'[p] = [loc[p] EXCEPT !.bu = FALSE, !.seq = Last(rss).seq]
    BY <1>5, Moved
  <2>2. ~loc'[p].bu
    BY <1>2, <2>1 DEF Locals
  <2>3. Process(b, c)'
    BY LoopTurns
  <2>4. \A q \in Procs : pc'[q] \in {"proof", "addproof"} => loc'[q].bu
    BY <2>3 DEF Process, At
  <2> QED
    BY <2>1, <2>2, <2>4
<1> QED
  BY <1>3, <1>4, <1>5 DEF Loop

\* A message is finished: t becomes its block.
LEMMA AppendCalm ==
  ASSUME TypeInv, TypeInv', DeliveryInv, ~Preemptive, Sending,
         NEW b \in BlockHeights, Process(b, b), ~Skips(b, b),
         NEW f \in BlockHeights, NEW t \in BlockHeights, Held(f, t),
         NEW p \in Procs, MayRun(p), UNCHANGED <<bmc, crashes>>, AppendRelayMessage(p)
  PROVE  \E k \in BlockHeights : Held(f, k)'
<1> DEFINE msg == [bu |-> rmi.bu, first |-> rmi.first, last |-> rmi.last]
           e == [id |-> MessageId(bls), bls |-> bls, msg |-> msg, sent |-> FALSE]
           v == [loc[p] EXCEPT !.bu = FALSE, !.seq = 0, !.first = FALSE,
                               !.todo = IF mtx = p THEN Unsent(rms') ELSE <<>>]
<1>1. /\ pc[p] = "proof" /\ pc[p] \in Works /\ pc[p] \in Holding /\ loc[p].seq <= bls.rxSeq
      /\ UNCHANGED <<relayState, bls, queue, txs, brss>>
  BY DEF AppendRelayMessage, Works, Holding, sndVars, rcvVars
<1>2. mtx = p
  BY <1>1 DEF Process, At, DeliveryInv, Locked
<1>3. Goto(p, "send") /\ SetLoc(p, v) /\ rms' = Append(rms, e)
  BY <1>2 DEF AppendRelayMessage, appendRelayMessage
<1>4. PICK k : k = rmi.bu
  OBVIOUS
<1>5. b \in Nat
  BY HeightIsInt
<1>6. k \in BlockHeights /\ bls.height = k /\ bls.rxSeq = EndSeq[k]
  BY <1>1, <1>4, <1>5, Finished DEF Between
<1>7. IsNext(t, k)
  BY <1>1, <1>4 DEF Held, Tip, Target
<1>8. v.todo = Unsent(rms') /\ ~v.first
  <2>1. loc[p] \in Locals
    BY DEF TypeInv, TypeOK, LinkTypeOK
  <2> QED
    BY <1>2, <2>1 DEF Locals
<1>9. e.id = Label(k) /\ e.msg.bu = k /\ ~e.sent
  BY <1>4, <1>6 DEF Label, MessageId
<1> HIDE DEF v, e
<1>10. rms \in Seq(FullMessages) /\ rms' \in Seq(FullMessages)
  <2>1. Sending'
    BY <1>5, AppendTurns
  <2> QED
    BY <2>1 DEF Sending, FullList
<1>11. PICK n \in Nat : n = Len(rms)
  BY <1>10, BlockOf
<1>12. /\ Len(rms') = n + 1 /\ rms'[n + 1] = e /\ e \in FullMessages
       /\ \A i \in 1 .. n : rms'[i] = rms[i] /\ i \in 1 .. Len(rms')
  <2>1. Len(rms') = n + 1 /\ \A i \in 1 .. n + 1 : rms'[i] = IF i <= n THEN rms[i] ELSE e
    BY <1>3, <1>10, <1>11, SMT DEF FullMessages
  <2>2. n + 1 \in 1 .. Len(rms') /\ ~(n + 1 <= n) /\ \A i \in 1 .. n : i <= n /\ i \in 1 .. n + 1 /\ i \in 1 .. Len(rms')
    BY <2>1, SMT
  <2>3. rms'[n + 1] \in FullMessages
    BY <1>10, <2>2, BlockOf
  <2> QED
    BY <2>1, <2>2, <2>3
<1>13. \A i \in 1 .. Len(rms') : i = n + 1 \/ i \in 1 .. n
  BY <1>12, SMT
<1>14. f \in Nat /\ t \in Nat /\ k \in Nat /\ f <= t /\ t < k
  BY <1>6, <1>7, HeightIsInt DEF Held, Ready, IsNext
<1>15. f <= k /\ ~(k <= f)
  BY <1>14, SMT
<1>16. Covering(rms', f, k) /\ \A x : Has(rms', x) <=> Has(rms, x) \/ x = k
  <2>1. \A i \in 1 .. Len(rms) : rms[i].msg.bu \in Int
    BY <1>10, BlockOf, HeightIsInt
  <2>2. Covering(rms, f, t)
    BY DEF Held, Ready
  <2>3. e \in FullMessages /\ rms \in Seq(FullMessages) /\ e.id = Label(k) /\ e.msg.bu = k
    BY <1>9, <1>10, <1>12
  <2>4. Covering(Append(rms, e), f, k) /\ \A x : Has(Append(rms, e), x) <=> Has(rms, x) \/ x = k
    BY ONLY <1>7, <2>1, <2>2, <2>3, t \in BlockHeights, CoveringAppend
  <2> QED
    BY ONLY <1>3, <2>4
<1>17. \A i \in 1 .. Len(rms') : rms'[i].sent <=> rms'[i].msg.bu <= f
  <2>1. ASSUME NEW i \in 1 .. n PROVE rms'[i].sent <=> rms'[i].msg.bu <= f
    BY <1>11, <1>12 DEF Held, Ready
  <2>2. rms'[n + 1].sent <=> rms'[n + 1].msg.bu <= f
    <3>1. ~(e.sent) /\ ~(e.msg.bu <= f)
      BY <1>9, <1>15
    <3> QED
      BY <1>12, <3>1
  <2> QED
    BY <1>13, <2>1, <2>2
<1>18. /\ pc'[p] = "send" /\ loc'[p] = v
       /\ \A q \in Procs \ {p} : pc'[q] = pc[q] /\ pc'[q] \in {"idle", "handle", "report", "resync"}
  BY <1>1, <1>3, Moved, OtherWaits
<1>19. Ready(f, k)'
  <2>1. Covering(v.todo, f, k) /\ Above(v.todo, f)
    BY <1>6, <1>8, <1>10, <1>16, <1>17, UnsentCovers
  <2>2. \A q \in Procs : Sends(f, k, pc'[q], loc'[q])
    BY <1>18, <2>1 DEF Sends
  <2> QED
    BY <1>15, <1>16, <1>17, <2>2 DEF Ready, Covering, Has, Sends, Above
<1>20. Tip(k)'
  <2>1. \A q \in Procs : pc'[q] \notin Works
    BY <1>18 DEF Works
  <2> QED
    BY <1>1, <1>6, <2>1 DEF Tip
<1>21. Done(f)'
  <2>1. pc'["send"] # "success" /\ pc'["send"] # "resync"
    BY <1>18 DEF Held, Done, Procs
  <2> QED
    BY <2>1 DEF Done
<1>22. Queued(f)'
  <2>1. Has(txs, f) => Has(rms', f)
    BY <1>16 DEF Held, Queued
  <2> QED
    BY <1>1, <2>1 DEF Held, Queued, Ends, Awaited, Has, Last
<1>23. Waking'
  <2>1. Wake => Wake'
    <3>1. pc["send"] # "success"
      BY <1>1, <1>18 DEF Procs
    <3>2. SUFFICES ASSUME Wake PROVE Wake'
      OBVIOUS
    <3>3. PICK i \in 1 .. Len(txs), j \in 1 .. n : rms[j].id = txs[i].id
      BY <1>11, <3>1, <3>2 DEF Wake
    <3>4. rms'[j].id = txs'[i].id /\ i \in 1 .. Len(txs') /\ j \in 1 .. Len(rms')
      BY <1>1, <1>12, <3>3
    <3> QED
      BY <3>4 DEF Wake
  <2>2. relayState' = "PENDING" => Wake
    BY <1>1 DEF Held, Waking
  <2>3. ASSUME relayState' = "INIT", NEW i \in 1 .. Len(rms'), rms'[i].sent PROVE Wake
    <3>1. i \in 1 .. n /\ rms[i].sent
      BY <1>9, <1>12, <1>13, <2>3
    <3> QED
      BY <1>1, <1>11, <2>3, <3>1 DEF Held, Waking
  <2>4. rms' # <<>>
    BY <1>12, SMT
  <2>5. \A q \in Procs : pc'[q] # "suspend"
    BY <1>18
  <2> QED
    BY <2>1, <2>2, <2>3, <2>4, <2>5 DEF Waking
<1>24. Supplied'
  <2>1. \A q \in Procs : pc'[q] # "build" /\ pc'[q] # "addproof"
    BY <1>18
  <2> QED
    BY <2>1 DEF Supplied, Supplies
<1> QED
  BY <1>6, <1>19, <1>20, <1>21, <1>22, <1>23, <1>24 DEF Held

LEMMA HandleCalm ==
  ASSUME LeftAlone, TypeInv, TypeInv', DeliveryInv, Sending, NEW b \in BlockHeights, Process(b, b), ~Skips(b, b),
         NEW f \in BlockHeights, NEW t \in BlockHeights, Executing(f), Held(f, t),
         NEW p \in Procs, MayRun(p), UNCHANGED <<bmc, crashes>>, HandleRelayMessage(p)
  PROVE  \E g, h \in BlockHeights : Executing(g)' /\ Held(g, h)'
<1>1. ~Preemptive /\ b \in Nat
  BY HeightIsInt DEF LeftAlone, TakingTurns
<1>2. Covering(txs, bmc.height, f)
  BY DEF Executing
<1>3. ASSUME UNCHANGED txs PROVE Executing(f)'
  BY <1>3 DEF Executing, Covering, Has
<1>4. CASE SendRelayMessage(p)
  BY <1>1, <1>4, RelayCalm
<1>5. CASE Lock(p) \/ Suspend(p) \/ SetPending(p) \/ SendDone(p)
  <2>1. Held(f, t)'
    BY <1>2, <1>5, SendingCalm
  <2>2. UNCHANGED txs
    BY <1>5 DEF Lock, Suspend, SetPending, SendDone, sndVars
  <2> QED
    BY <1>3, <2>1, <2>2
<1>6. CASE Loop(p) \/ NextReceiveStatus(p) \/ BuildBlockUpdate(p)
  <2>1. Held(f, t)'
    BY <1>1, <1>6, LoopCalm, NextCalm, BuildCalm
  <2>2. UNCHANGED txs
    BY <1>6 DEF Loop, NextReceiveStatus, BuildBlockUpdate, sndVars
  <2> QED
    BY <1>3, <2>1, <2>2
<1>7. CASE UpdateBMCLinkStatus(p) \/ BuildProof(p) \/ AddProof(p)
  <2>1. Held(f, t)'
    BY <1>1, <1>7, UpdateCalm, ProofCalm, AddCalm
  <2>2. UNCHANGED txs
    BY <1>7 DEF UpdateBMCLinkStatus, BuildProof, AddProof, sndVars
  <2> QED
    BY <1>3, <2>1, <2>2
<1>8. CASE BuildProofNil(p)
  <2>1. pc[p] = "proof" /\ bls.rxSeq < loc[p].seq /\ NextProof = NoItem
    BY <1>8 DEF BuildProofNil
  <2> QED
    BY <1>1, <2>1, ProofFound
<1>9. CASE AppendRelayMessage(p)
  <2>1. \E h \in BlockHeights : Held(f, h)'
    BY <1>1, <1>9, AppendCalm
  <2>2. UNCHANGED txs
    BY <1>9 DEF AppendRelayMessage, sndVars
  <2> QED
    BY <1>3, <2>1, <2>2
<1> QED
  BY <1>4, <1>5, <1>6, <1>7, <1>8, <1>9 DEF HandleRelayMessage

LEMMA SendCalm ==
  ASSUME LeftAlone, TypeInv, DeliveryInv, Sending, NEW b, NEW c, Process(b, c),
         NEW f \in BlockHeights, NEW t, Executing(f), Held(f, t),
         MayRun("send"), UNCHANGED <<bmc, crashes>>, Send
  PROVE  Executing(f)' /\ Held(f, t)'
<1>1. ~Preemptive /\ "send" \in Procs
  BY DEF LeftAlone, TakingTurns, Procs
<1>2. ASSUME UNCHANGED txs PROVE Executing(f)'
  BY <1>2 DEF Executing, Covering, Has
<1>3. ASSUME NEW i \in DOMAIN txs, TakeResult(i) PROVE Executing(f)' /\ Held(f, t)'
  <2>1. CASE IgnoreResult(i)
    BY <1>3, <2>1, IgnoreCalm
  <2>2. CASE ResultSuccess(i)
    BY <1>3, <2>2, TakeCalm
  <2>3. CASE ResultRejected(i)
    <3>1. txs[i].st = "result" /\ txs[i].code \in {"BMVNotVerifiable", "BMVAlreadyVerified"}
      BY <2>3 DEF ResultRejected, KnownResult
    <3>2. i \in 1 .. Len(txs)
      BY <1>3, SeqLen, SMT DEF Sending
    <3>3. IF bmc.height < txs[i].msg.bu THEN txs[i].st = "pool" /\ txs[i].code = NoCode
          ELSE txs[i].st \in {"done", "result"} /\ txs[i].code = "SUCCESS"
      BY <3>2 DEF Executing
    <3> QED
      BY ONLY <3>1, <3>3
  <2> QED
    BY <1>3, <2>1, <2>2, <2>3 DEF TakeResult
<1>4. CASE SuccessRelayMessage
  <2>1. Held(f, t)'
    BY <1>1, <1>4, SuccessCalm
  <2>2. UNCHANGED txs
    BY <1>4 DEF SuccessRelayMessage, sndVars
  <2> QED
    BY <1>2, <2>1, <2>2
<1>5. CASE ReportFinalized
  <2>1. /\ pc["send"] = "report" /\ Goto("send", "idle") /\ SetLoc("send", Idle)
        /\ UNCHANGED <<relayState, bls, rms, rmi, queue, txs, brss>>
    BY <1>5 DEF ReportFinalized, sndVars
  <2>2. Held(f, t)'
    BY <1>1, <2>1, Passes
  <2> QED
    BY <1>2, <2>1, <2>2
<1>6. CASE UpdateStatus
  BY <1>6 DEF UpdateStatus, Held, Done
<1> QED
  BY <1>3, <1>4, <1>5, <1>6 DEF Send

\* A step of a process that runs, and is not ended by it.
LEMMA RunningCalm ==
  ASSUME LeftAlone, TypeInv, TypeInv', DeliveryInv, Sending, NEW b \in BlockHeights, Process(b, b), ~Skips(b, b),
         NEW f \in BlockHeights, NEW t \in BlockHeights, Executing(f), Held(f, t),
         (\E p \in Procs : LinkStep(p)) \/ ReceiverStep \/ SenderStep
  PROVE  (\E g, h \in BlockHeights : Executing(g)' /\ Held(g, h)') /\ mode' = mode
<1>1. ~Preemptive /\ b \in Nat
  BY HeightIsInt DEF LeftAlone, TakingTurns
<1>2. ASSUME UNCHANGED <<bmc, txs>> PROVE Executing(f)'
  BY <1>2 DEF Executing, Covering, Has
<1>3. ASSUME NEW p \in Procs, LinkStep(p) PROVE (\E g, h \in BlockHeights : Executing(g)' /\ Held(g, h)') /\ mode' = mode
  <2>1. MayRun(p) /\ UNCHANGED <<bmc, mode, crashes>>
    BY <1>3 DEF LinkStep
  <2>2. CASE p = "recv" /\ Recv
    <3>1. Held(f, t)'
      BY <1>1, <2>2, RecvCalm
    <3>2. UNCHANGED txs
      BY <2>2 DEF Recv, ReceiveFromReceiver, AppendReceiveStatus, OnceDo, CheckBehind, sndVars
    <3> QED
      BY <1>2, <2>1, <3>1, <3>2
  <2>3. CASE p = "send" /\ Send
    <3>1. MayRun("send")
      BY <2>1, <2>3
    <3> QED
      BY <2>1, <2>3, <3>1, SendCalm
  <2>4. CASE HandleRelayMessage(p)
    BY <1>3, <2>1, <2>4, HandleCalm
  <2> QED
    BY <1>3, <2>2, <2>3, <2>4 DEF LinkStep
<1>4. CASE ReceiverStep
  <2>1. MayRun("mon") \/ MayRun("fin")
    BY <1>4 DEF ReceiverStep
  <2>2. \A p \in Procs : pc[p] \in Waiting
    BY <1>1, <2>1 DEF MayRun, Procs
  <2>3. UNCHANGED <<relayState, bls, rms, rmi, pc, loc, queue, txs, bmc, mode>>
    BY <1>4 DEF ReceiverStep, lnkVars, sndVars
  <2>4. Held(f, t)'
    BY <2>2, <2>3, ReceiverCalm
  <2> QED
    BY <1>2, <2>3, <2>4
<1>5. CASE SenderStep
  <2>1. PICK i \in DOMAIN txs : Result(i)
    BY <1>5 DEF SenderStep
  <2>2. UNCHANGED <<relayState, bls, rms, rmi, pc, loc, brss, bmc, mode>>
    BY <1>5 DEF SenderStep, lnkVars, rcvVars
  <2>3. Executing(f)' /\ Held(f, t)'
    BY <1>1, <2>1, <2>2, ResultCalm
  <2> QED
    BY <2>2, <2>3
<1> QED
  BY <1>3, <1>4, <1>5

LEMMA CalmStep ==
  ASSUME LeftAlone, TypeInv, TypeInv', DeliveryInv, TurnsInv, CalmInv, [Next]_vars
  PROVE  CalmInv'
<1>1. SUFFICES ASSUME crashes' = 0
               PROVE  /\ \E f, t \in BlockHeights : Executing(f)' /\ (mode' = "run" => Held(f, t)')
                      /\ BlocksFit => mode' \in {"run", "killed"}
  BY DEF CalmInv, BlocksFit
<1>2. ~Restart
  <2>1. SUFFICES ASSUME Restart PROVE FALSE
    OBVIOUS
  <2>2. crashes' = crashes + 1 /\ crashes \in Nat
    BY <2>1 DEF Restart, TypeInv, TypeOK
  <2> QED
    BY <1>1, <2>2, SMT
<1>3. crashes = 0
  BY <1>1, <1>2 DEF Next, LinkStep, ReceiverStep, SenderStep, ChainStep, Stop, Panic, Crash, Cleanup, End, vars
<1>4. PICK f, t \in BlockHeights : Executing(f) /\ (mode = "run" => Held(f, t))
  BY <1>3 DEF CalmInv
<1>5. BlocksFit => mode \in {"run", "killed"}
  BY <1>3 DEF CalmInv
<1>6. Sending
  BY DEF TurnsInv
<1>7. PICK b \in BlockHeights : Process(b, b) /\ ~Skips(b, b)
  <2>1. PICK b \in BlockHeights, c \in 0 .. cursor : Process(b, c)
    BY DEF TurnsInv
  <2>2. c = b
    BY <1>3, <2>1 DEF Process
  <2>3. ~Skips(b, b)
    BY UptoBlock DEF Skips
  <2> QED
    BY <2>1, <2>2, <2>3
<1>8. ASSUME UNCHANGED <<bmc, txs>> PROVE Executing(f)'
  BY <1>4, <1>8 DEF Executing, Covering, Has
<1>9. CASE (\E p \in Procs : LinkStep(p)) \/ ReceiverStep \/ SenderStep
  <2>1. Held(f, t)
    BY <1>4, <1>9 DEF LinkStep, ReceiverStep, SenderStep
  <2>2. (\E g, h \in BlockHeights : Executing(g)' /\ Held(g, h)') /\ mode' = mode
    BY <1>4, <1>6, <1>7, <1>9, <2>1, RunningCalm
  <2> QED
    BY <1>5, <2>2
<1>10. CASE ChainStep
  <2>1. PICK i \in DOMAIN txs : Execute(i)
    BY <1>10 DEF ChainStep, OtherRelay, Lose, Revert, LeftAlone
  <2>2. UNCHANGED <<relayState, bls, rms, rmi, pc, loc, brss, mode>>
    BY <1>10 DEF ChainStep, lnkVars, rcvVars
  <2>3. Executing(f)' /\ \A x : Held(f, x) => Held(f, x)'
    BY <1>4, <1>6, <2>1, <2>2, ExecuteCalm
  <2> QED
    BY <1>4, <1>5, <2>2, <2>3
<1>11. CASE Stop \/ Panic
  <2>1. Held(f, t) /\ mode' # "run" /\ UNCHANGED <<bmc, txs>>
    BY <1>4, <1>11 DEF Stop, Panic, End, sndVars
  <2>2. ~BlocksFit
    BY <1>4, <1>6, <1>7, <1>11, <2>1, NoError, NoPanic
  <2> QED
    BY <1>8, <2>1, <2>2
<1>12. CASE Crash
  <2>1. mode' = "killed" /\ UNCHANGED <<bmc, txs>>
    BY <1>12 DEF Crash, End, sndVars
  <2> QED
    BY <1>8, <2>1
<1>13. CASE Cleanup
  <2>1. PICK i \in DOMAIN txs : Forget(i)
    BY <1>13 DEF Cleanup
  <2>2. /\ mode # "run" /\ UNCHANGED <<bmc, mode, rms, queue>>
        /\ txs[i].st \in {"done", "result"} /\ txs' = RemoveAt(txs, i)
    BY <1>13, <2>1 DEF Cleanup, Forget, lnkVars
  <2>3. Executing(f)'
    BY <1>4, <1>6, <2>2, ResultTaken
  <2> QED
    BY <1>5, <2>2, <2>3
<1>14. CASE UNCHANGED vars
  <2>1. UNCHANGED <<relayState, bls, rms, rmi, pc, loc, brss, queue, txs, bmc, mode>>
    BY <1>14 DEF vars, lnkVars, rcvVars, sndVars
  <2>2. ASSUME Held(f, t) PROVE Held(f, t)'
    <3>1. Same(txs, txs') /\ Ends(queue', f) /\ (queue' # <<>> => Awaited(f)')
      BY <2>1, <2>2 DEF Same, Held, Queued, Ends, Awaited, Last
    <3> QED
      BY <2>1, <2>2, <3>1, TransactionsCalm
  <2> QED
    BY <1>4, <1>5, <1>8, <2>1, <2>2
<1> QED
  BY <1>2, <1>9, <1>10, <1>11, <1>12, <1>13, <1>14 DEF Next

\* What the invariant says of results and of PENDING.
LEMMA CalmFails == TypeInv /\ TurnsInv /\ CalmInv /\ BlocksFit => (crashes = 0 => NothingFails)
<1> SUFFICES ASSUME TypeInv, TurnsInv, CalmInv, BlocksFit, crashes = 0 PROVE NothingFails
  OBVIOUS
<1>1. PICK f \in BlockHeights : Executing(f)
  BY DEF CalmInv
<1>2. NoEnd
  BY DEF CalmInv, NoEnd
<1>3. ASSUME NEW i \in DOMAIN txs PROVE txs[i].code \notin {"BMVNotVerifiable", "BMVAlreadyVerified"}
  <2>1. i \in 1 .. Len(txs)
    BY <1>3, SeqLen, SMT DEF TurnsInv, Sending
  <2>2. txs[i].code \in {NoCode, "SUCCESS"}
    BY <1>1, <2>1 DEF Executing
  <2> QED
    BY <2>2, SMT DEF NoCode
<1> QED
  BY <1>2, <1>3 DEF NothingFails, NothingRejected

LEMMA CalmWakes == TypeInv /\ TurnsInv /\ CalmInv => (crashes = 0 => PendingHasWakeup)
<1> SUFFICES ASSUME TypeInv, TurnsInv, CalmInv, crashes = 0, mode = "run", relayState = "PENDING",
                    pc["send"] \notin {"success", "resync"}
             PROVE  \E i \in DOMAIN txs : Watched(i)
  BY DEF PendingHasWakeup
<1>1. PICK f, t \in BlockHeights : Executing(f) /\ Held(f, t)
  BY DEF CalmInv
<1>2. PICK i \in 1 .. Len(txs), j \in 1 .. Len(rms) : rms[j].id = txs[i].id
  BY <1>1 DEF Held, Waking, Wake
<1>3. txs[i].st # "orphan"
  BY <1>1 DEF Executing
<1>4. rms \in Seq(FullMessages) /\ i \in DOMAIN txs
  BY SeqLen, SMT DEF TurnsInv, Sending, FullList
<1>5. getRelayMessageForId(txs[i].id) # 0
  BY <1>2, <1>4, NotFound
<1> QED
  BY <1>3, <1>4, <1>5 DEF Watched

\* The invariant of a relay that is left alone: what is built, sent, waited for
\* and executed are consecutive runs of blocks that meet.
THEOREM CalmAtAllTimes == LeftAlone => (Spec => [](TypeInv /\ TurnsInv /\ CalmInv))
<1> SUFFICES ASSUME LeftAlone PROVE Spec => [](TypeInv /\ TurnsInv /\ CalmInv)
  OBVIOUS
<1> DEFINE Inv == TypeInv /\ DeliveryInv /\ TurnsInv /\ CalmInv
<1>1. TakingTurns
  BY DEF LeftAlone
<1>2. Init => Inv
  BY <1>1, TypeInit, DeliveryInit, TurnsInit, CalmInit
<1>3. Inv /\ [Next]_vars => Inv'
  <2>1. Inv /\ [Next]_vars => (TypeInv /\ DeliveryInv /\ TurnsInv)'
    BY <1>1, TypeStep, DeliveryStep, TurnsStep
  <2>2. Inv /\ [Next]_vars => CalmInv'
    BY <2>1, CalmStep
  <2> QED
    BY <2>1, <2>2
<1>4. Inv => TypeInv /\ TurnsInv /\ CalmInv
  OBVIOUS
<1> HIDE DEF Inv
<1> QED
  BY <1>2, <1>3, <1>4, PTL DEF Spec

-----------------------------------------------------------------------------
\* Left alone, and with blocks whose messages fit into one relay message, the
\* relay does not end by itself, and the BMC rejects nothing that it sends: what
\* is sent, what is taken and what the link believes agree at every step of the
\* goroutines, until the process is started again.
THEOREM AllAccepted == LeftAlone /\ BlocksFit => (Spec => [](crashes = 0 => NothingFails))
<1> SUFFICES ASSUME LeftAlone, BlocksFit PROVE Spec => [](crashes = 0 => NothingFails)
  OBVIOUS
<1>1. TypeInv /\ TurnsInv /\ CalmInv => (crashes = 0 => NothingFails)
  BY CalmFails
<1> QED
  BY <1>1, CalmAtAllTimes, PTL

\* Left alone, the link is not PENDING without a transaction whose result ends
\* it, until the process is started again: no message is left waiting for a
\* wakeup that does not come.
THEOREM WakeupComes == LeftAlone => (Spec => [](crashes = 0 => PendingHasWakeup))
<1> SUFFICES ASSUME LeftAlone PROVE Spec => [](crashes = 0 => PendingHasWakeup)
  OBVIOUS
<1> QED
  BY CalmWakes, CalmAtAllTimes, PTL
=============================================================================
