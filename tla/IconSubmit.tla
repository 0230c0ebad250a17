----------------------------- MODULE IconSubmit -----------------------------
(* How chain/icon/sender.go submits one relay message: cut into fragments, each *)
(* signed and sent until a node accepts it, and a goroutine per message that     *)
(* asks for the result of its last transaction.  Sender has the same operations  *)
(* as single steps.                                                              *)
(*                                                                               *)
(* A message is a number, its bytes are numbered from 1, and a part of it is the *)
(* range of its bytes.  A transaction hash is the number of the signing; 0 is    *)
(* the empty hash.                                                               *)
EXTENDS IconClient, Lists

CONSTANTS
  txSizeLimit,                  \* largest part of a message in one transaction
  MaxQueueSize,
  TransactionResultRetryLimit,
  Sizes,                        \* sizes of relay messages
  FaultSets,                    \* which of the faults may happen together
  MaxMessages, MaxSigns         \* model bounds: calls of Relay, signings before one expires

IconSubmitAssumption ==
  /\ {txSizeLimit, MaxQueueSize, MaxMessages, MaxSigns} \subseteq Nat \ {0}
  /\ TransactionResultRetryLimit \in Nat
  /\ Sizes \subseteq Nat \ {0}
  /\ FaultSets \subseteq SUBSET {"fail", "duplicate", "slow", "lose"}

VARIABLES
  running,  \* the process runs; it ends with the first error of Relay
  msgs,     \* sizes of the messages given to Relay
  frags,    \* transactions that the call of Relay under way has still to send
  signs,    \* signings so far
  signed,   \* the first of frags is signed
  queue,    \* ids in s.queue.values
  polls,    \* goroutines of s.result: [msg, hash, retry]
  results,  \* results given to the link: [msg, err]
  pool,     \* node: transactions waiting, in order
  done,     \* node: outcomes of executed transactions, by hash
  cache,    \* BMC: fragments taken and the index that has to follow
  taken,    \* BMC: messages handled, each as the list of its parts
  faults    \* what may happen to requests and transactions

senderVars == <<running, msgs, frags, signs, signed, queue, polls, results>>
nodeVars == <<pool, done, cache, taken>>
vars == <<running, msgs, frags, signs, signed, queue, polls, results, pool, done, cache, taken, faults>>

NoFragments == [next |-> -1, parts |-> <<>>]
Outcomes == {"ok", "revert", "failure"}

Init ==
  /\ running = TRUE /\ msgs = <<>> /\ frags = <<>> /\ signs = 0 /\ signed = FALSE
  /\ queue = <<>> /\ polls = {} /\ results = {}
  /\ pool = <<>> /\ done = <<>> /\ cache = NoFragments /\ taken = <<>>
  /\ faults \in FaultSets

-----------------------------------------------------------------------------
Part(m, first, last) == [msg |-> m, first |-> first, last |-> last]

\* newTransactionParam for a whole message, and sendFragment's for a part of one.
WholeMessage(m, size) == [fragment |-> FALSE, index |-> 0, part |-> Part(m, 1, size)]
Fragment(m, index, first, last) == [fragment |-> TRUE, index |-> index, part |-> Part(m, first, last)]

\* Mutant: the number of fragments is rounded up, the last one is sent as if full.
_relayUp(m, size) ==
  LET idx == (size + txSizeLimit - 1) \div txSizeLimit
  IN IF size < txSizeLimit THEN <<WholeMessage(m, size)>>
     ELSE [k \in 1 .. idx + 1 |->
             Fragment(m, IF k = 1 THEN -idx ELSE idx - k + 1, (k - 1) * txSizeLimit + 1, k * txSizeLimit)]

\* The transactions of _relay.  The first index is negative; the last is 0, and its
\* fragment is empty when the size is a multiple of the limit.
_relay(m, size) ==
  LET idx == size \div txSizeLimit
      Until(k) == IF k = idx + 1 THEN size ELSE k * txSizeLimit
  IN IF idx = 0 THEN <<WholeMessage(m, size)>>
     ELSE [k \in 1 .. idx + 1 |->
             Fragment(m, IF k = 1 THEN -idx ELSE idx - k + 1, (k - 1) * txSizeLimit + 1, Until(k))]

Relay(size) ==
  /\ running /\ frags = <<>>
  /\ Len(queue) < MaxQueueSize
  /\ Len(msgs) < MaxMessages
  /\ msgs' = Append(msgs, size)
  /\ frags' = _relay(Len(msgs) + 1, size)
  /\ UNCHANGED <<running, signs, signed, queue, polls, results, nodeVars>>

SignTransaction ==
  /\ running /\ frags # <<>> /\ ~signed
  /\ signs' = signs + 1
  /\ signed' = TRUE
  /\ UNCHANGED <<running, msgs, frags, queue, polls, results, nodeVars>>

Started(m, hash) == [msg |-> m, hash |-> hash, retry |-> TransactionResultRetryLimit]

\* sendTransaction returns a hash: the next fragment follows, or after the last one
\* Relay queues the message and starts its goroutine.
Sent(hash) ==
  LET m == Head(frags).part.msg
      last == Len(frags) = 1
  IN /\ signed' = FALSE
     /\ frags' = Tail(frags)
     /\ queue' = IF last THEN Append(queue, m) ELSE queue
     /\ polls' = IF last THEN polls \cup {Started(m, hash)} ELSE polls
     /\ UNCHANGED <<running, msgs, signs, results>>

\* Relay returns an error, or panics, and the process ends with all its goroutines.
End ==
  /\ running' = FALSE
  /\ frags' = <<>> /\ signed' = FALSE /\ queue' = <<>> /\ polls' = {}
  /\ UNCHANGED <<msgs, signs, results>>

\* What sendTransaction does with the answer.  SendTransaction returns no hash with
\* an error: a transaction known to the node already is waited for by an empty one.
HandleAnswer(e) ==
  CASE e.kind = "" -> Sent(signs)
    [] e.kind = "rpc" /\ e.code = "TxPoolOverflow" -> UNCHANGED senderVars
    [] e.kind = "rpc" /\ e.code = "Duplicate" -> Sent(0)
    [] e.kind = "rpc" /\ e.code = "Expired" ->
         signed' = FALSE /\ UNCHANGED <<running, msgs, frags, signs, queue, polls, results>>
    [] OTHER -> End

\* What may happen to a request to send: the node takes the transaction or not, and
\* the exchange.
Refusals == {Exchange("error", "json", "TxPoolOverflow")}
              \cup IF signs < MaxSigns THEN {Exchange("error", "json", "Expired")} ELSE {}
Failures ==
  (BOOLEAN \X {Exchange("fail", "none", ""), Exchange("error", "text", ""), Exchange("error", "json", ""), Exchange("ok", "broken", "")})
    \cup ({FALSE} \X {Exchange("refused", "none", ""), Exchange("error", "json", "Future")})
SendOutcomes ==
  ({TRUE} \X {Exchange("ok", "json", "")}) \cup ({FALSE} \X Refusals)
    \cup (IF "fail" \in faults THEN Failures ELSE {})
    \cup (IF "duplicate" \in faults THEN {TRUE} \X {Exchange("error", "json", "Duplicate")} ELSE {})

SendTransaction ==
  /\ running /\ signed
  /\ \E o \in SendOutcomes :
       /\ HandleAnswer(Do(o[2]))
       /\ pool' = IF o[1] THEN Append(pool, [hash |-> signs, tx |-> Head(frags)]) ELSE pool
       /\ UNCHANGED <<done, cache, taken>>

-----------------------------------------------------------------------------
\* Mutant: a revert gives an error without a code.
mapErrorUncoded(e, outcome) == IF e = OK /\ outcome # "ok" THEN Err("failure", "") ELSE MapError(e)

\* Only the failure codes of a contract's revert become errors with a code.
mapErrorWithTransactionResult(e, outcome) ==
  IF e # OK \/ outcome = "ok" THEN MapError(e)
  ELSE IF outcome = "revert" THEN Err("revert", "") ELSE Err("failure", "")

\* s.result: dequeue drops the ids before this one too.  A result is sent unless the
\* error has no code.
result(p, e) ==
  LET i == SelectInSeq(queue, LAMBDA id : id = p.msg)
  IN /\ polls' = polls \ {p}
     /\ queue' = IF i = 0 THEN queue ELSE SubSeq(queue, i + 1, Len(queue))
     /\ results' = CASE e = OK -> results \cup {[msg |-> p.msg, err |-> "SUCCESS"]}
                     [] e.kind = "revert" -> results \cup {[msg |-> p.msg, err |-> "REVERT"]}
                     [] OTHER -> results

Waits(p) == \E i \in 1 .. Len(pool) : pool[i].hash = p.hash
Executed(p) == p.hash \in DOMAIN done

\* What a node answers to a request for the result of p's transaction.
ResultExchanges(p) ==
  LET Rpc(code) == Exchange("error", "json", code)
  IN (CASE p.hash = 0 -> {Rpc("other")}
        [] Executed(p) -> {Exchange("ok", "json", "")}
        [] Waits(p) -> {Rpc("Pending"), Rpc("Executing")} \cup IF "slow" \in faults THEN {Rpc("NotFound")} ELSE {}
        [] OTHER -> {Rpc("NotFound")})
     \cup IF "fail" \in faults THEN {Exchange("refused", "none", ""), Exchange("error", "json", "")} ELSE {}

Retried(p) == [p EXCEPT !.retry = @ - 1]

\* One request of the loop of GetResult, and result when it was the last one.
GetResult(p) ==
  /\ running
  /\ \E x \in ResultExchanges(p) :
       LET e == Do(x)
           again == e.kind = "rpc" /\ e.code \in {"Pending", "Executing"}
           notFound == e.kind = "rpc" /\ e.code = "NotFound"
           outcome == IF Executed(p) THEN done[p.hash] ELSE "ok"
       IN /\ ~Panics(e)
          /\ CASE again -> UNCHANGED <<queue, polls, results>>
               [] notFound /\ p.retry > 0 ->
                    /\ polls' = (polls \ {p}) \cup {Retried(p)}
                    /\ UNCHANGED <<queue, results>>
               [] notFound /\ p.retry = 0 -> result(p, Err("not found", ""))
               [] OTHER -> result(p, mapErrorWithTransactionResult(e, outcome))
  /\ UNCHANGED <<running, msgs, frags, signs, signed, nodeVars>>

GetResultPanics(p) ==
  /\ running
  /\ \E x \in ResultExchanges(p) : Panics(Do(x))
  /\ End
  /\ UNCHANGED nodeVars

\* The process is started again, with a new sender.
Restart ==
  /\ ~running
  /\ running' = TRUE
  /\ UNCHANGED <<msgs, frags, signs, signed, queue, polls, results, nodeVars>>

-----------------------------------------------------------------------------
\* The node executes transactions in the order it has accepted them.  A transaction
\* that is not "ok" changes nothing.  Under "lose" one may be dropped, or fail for
\* another reason than the contract's.
Follows(tx) == tx.index < 0 \/ tx.index = cache.next
Parts(tx) == IF tx.fragment /\ tx.index >= 0 THEN Append(cache.parts, tx.part) ELSE <<tx.part>>

\* handleRelayMessage and handleFragment of the BMC: the fragment with index 0 makes
\* it handle the message, which its verifier may refuse.
Handle(tx) ==
  \/ /\ tx.index = 0 /\ (tx.fragment => Follows(tx))
     /\ taken' = Append(taken, Parts(tx))
     /\ cache' = IF tx.fragment THEN NoFragments ELSE cache
  \/ /\ tx.index # 0 /\ Follows(tx)
     /\ cache' = [next |-> IF tx.index < 0 THEN -tx.index - 1 ELSE tx.index - 1, parts |-> Parts(tx)]
     /\ UNCHANGED taken

Execute ==
  /\ pool # <<>>
  /\ pool' = Tail(pool)
  /\ LET tx == Head(pool).tx
         hash == Head(pool).hash
         Outcome(o) == done' = [h \in DOMAIN done \cup {hash} |-> IF h = hash THEN o ELSE done[h]]
     IN \/ Handle(tx) /\ Outcome("ok")
        \/ (tx.index = 0 \/ ~Follows(tx)) /\ Outcome("revert") /\ UNCHANGED <<cache, taken>>
        \/ "lose" \in faults /\ Outcome("failure") /\ UNCHANGED <<cache, taken>>
        \/ "lose" \in faults /\ UNCHANGED <<done, cache, taken>>
  /\ UNCHANGED senderVars

-----------------------------------------------------------------------------
Next ==
  /\ \/ \E size \in Sizes : Relay(size)
     \/ SignTransaction
     \/ SendTransaction
     \/ \E p \in polls : GetResult(p) \/ GetResultPanics(p)
     \/ Restart
     \/ Execute
  /\ UNCHANGED faults

Spec == Init /\ [][Next]_vars

\* What is fair: as long as something other than asking once more can happen, it
\* does.  The goroutines run, a node executes what it has accepted, and a pool that is
\* asked again and again has room at some time.
Proceeds ==
  /\ SignTransaction \/ SendTransaction \/ Execute \/ \E p \in polls : GetResult(p)
  /\ UNCHANGED faults

-----------------------------------------------------------------------------
\* The parts of a whole message: all of one message, each begins where the one before
\* it ends, and nothing is missing at the end.
Whole(parts) ==
  /\ parts[1].first = 1
  /\ \A k \in 2 .. Len(parts) : parts[k].msg = parts[1].msg /\ parts[k].first = parts[k - 1].last + 1
  /\ Last(parts).last = msgs[parts[1].msg]

\* The BMC handles only whole messages, as long as no transaction that a node has
\* accepted is lost.  This is about the indexes and bounds of _relay, also after a Relay
\* that failed between two fragments and a restart.  A transaction that is lost leaves
\* fragments behind that those of another message may complete.
WholeMessages == "lose" \notin faults => \A i \in DOMAIN taken : Whole(taken[i])

\* A result tells the truth although only the last transaction of the message is asked
\* for: success means that the BMC has handled the whole message, and an error code that
\* it has not.  Where a transaction may be lost, success speaks of the last fragment
\* only: the BMC has handled what ended with it.  A message may also get no result.
ResultIsRight ==
  \A r \in results :
    (r.err = "SUCCESS") <=>
      \E i \in DOMAIN taken : Last(taken[i]).msg = r.msg /\ ("lose" \notin faults => Whole(taken[i]))

\* While requests and transactions do not get lost, every message given to Relay gets
\* its result: the link that waits in PENDING is set going again.
Answered ==
  \A m \in 1 .. MaxMessages : (faults = {} /\ Len(msgs) >= m) ~> (\E r \in results : r.msg = m)

\* Whatever happens to the transactions, every goroutine of result ends and gives the
\* place in the queue back: GetResult gives up after its retries.
PollsEnd ==
  \A m \in 1 .. MaxMessages : (\E p \in polls : p.msg = m) ~> (\A p \in polls : p.msg # m)
=============================================================================
