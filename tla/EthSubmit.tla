----------------------------- MODULE EthSubmit -----------------------------
(***************************************************************************)
(* The ethbr sender in detail: nonces, the polling goroutine of every      *)
(* transaction, and how it finds out why a transaction failed.  The chain  *)
(* keeps no reason, so that GetRevertMessage calls the contract once more  *)
(* with the transaction's data, on the latest state: what it learns is     *)
(* what would happen now.                                                  *)
(*                                                                         *)
(* Relay message k takes the BMC from position k - 1 to k.                 *)
(***************************************************************************)
EXTENDS Lists, FiniteSets

CONSTANTS
  MaxQueueSize,  \* the constant of the same name (100 in the code)
  Messages,      \* bound: the number of messages
  MaxTxs,        \* bound: transactions sent
  Heavy,         \* messages whose execution needs more than DefaultGasLimit
  Odd,           \* messages refused with a text that has colons and no code
  FaultSets      \* which of the faults may happen together

EthSubmitAssumption ==
  /\ MaxQueueSize \in Nat \ {0} /\ Messages \in Nat /\ MaxTxs \in Nat
  /\ Heavy \subseteq 1..Messages /\ Odd \subseteq 1..Messages
  /\ FaultSets \subseteq SUBSET {"other", "drop", "fail", "refuse", "contract"}

VARIABLES pos, next, txs, queue, end, faults

(* pos: the BMC's position.  next: the message the link sends next.         *)
(* txs: the transactions; st is "pool", "ok", "failed" or "dropped", at the *)
(* position when it was executed, g the place of its goroutine: the loop of *)
(* GetResult ("poll", "receipt", "revert"), sending a result, or gone.      *)
(* end: how the process ended.  faults: what may happen: "other", another   *)
(* relay; "drop", a pool forgets a transaction; "fail", a request fails;    *)
(* "refuse", sending is refused; "contract", messages of Heavy and Odd are. *)
vars == <<pos, next, txs, queue, end, faults>>

Init == pos = 0 /\ next = 1 /\ txs = <<>> /\ queue = <<>> /\ end = "" /\ faults \in FaultSets

Refused(k, set) == k \in set /\ "contract" \in faults

\* Mutant: the call has all the gas of a block.
VerdictOfCallFreely(k, p) ==
  IF Refused(k, Odd) THEN "odd"
  ELSE CASE p >= k -> "BMVAlreadyVerified" [] p < k - 1 -> "BMVNotVerifiable" [] OTHER -> "ok"

\* What handleRelayMessage of the BMC does with message k at position p.
Verdict(k, p) ==
  IF Refused(k, Heavy) THEN "text" ELSE IF Refused(k, Odd) THEN "odd"
  ELSE CASE p >= k -> "BMVAlreadyVerified" [] p < k - 1 -> "BMVNotVerifiable" [] OTHER -> "ok"

\* The call of GetRevertMessage has the transaction's sender, gas, price and data.
VerdictOfCall(k, p) == Verdict(k, p)

\* PendingNonceAt: the first nonce that is neither used nor in the pool.
PendingNonce ==
  LET used == {txs[i].nonce : i \in {j \in DOMAIN txs : txs[j].st # "dropped"}}
  IN  CHOOSE n \in 0..MaxTxs : n \notin used /\ 0..n - 1 \subseteq used

\* Relay: a transaction that has the nonce of one in the pool replaces it.
Relay ==
  /\ end = "" /\ next <= Messages /\ Len(txs) < MaxTxs
  /\ Len(queue) < MaxQueueSize
  /\ LET replaced(t) == IF t.st = "pool" /\ t.nonce = PendingNonce THEN [t EXCEPT !.st = "dropped"] ELSE t
     IN  txs' = Append([i \in DOMAIN txs |-> replaced(txs[i])],
                       [msg |-> next, nonce |-> PendingNonce, st |-> "pool", at |-> 0, g |-> "poll", code |-> ""])
  /\ queue' = Append(queue, next)
  /\ next' = next + 1
  /\ UNCHANGED <<pos, end>>

\* The node refuses the transaction, and the link returns the error.
RelayFails ==
  /\ "refuse" \in faults /\ end = "" /\ next <= Messages /\ Len(queue) < MaxQueueSize
  /\ end' = "error"
  /\ UNCHANGED <<pos, next, txs, queue>>

\* The goroutine leaves GetResult with a code.
result(i, code) ==
  /\ queue' = LET at == SelectInSeq(queue, LAMBDA q : q = txs[i].msg)
              IN  IF at = 0 THEN queue ELSE SubSeq(queue, at + 1, Len(queue))
  /\ txs' = [txs EXCEPT ![i].code = code, ![i].g = IF code = "Uncoded" THEN "gone" ELSE "result"]
  /\ UNCHANGED <<pos, next, end>>

Goes(i, place) == txs' = [txs EXCEPT ![i].g = place] /\ UNCHANGED <<pos, next, queue, end>>

At(i, place) == end = "" /\ txs[i].g = place

\* GetTransaction: pending, known, or not found.
GetTransaction(i) ==
  /\ At(i, "poll") /\ txs[i].st # "pool"
  /\ IF txs[i].st = "dropped" THEN result(i, "Uncoded") ELSE Goes(i, "receipt")

\* Mutant: the status is not looked at.
GetTransactionReceiptOnly(i) == At(i, "receipt") /\ result(i, "SUCCESS")

GetTransactionReceipt(i) ==
  /\ At(i, "receipt")
  /\ IF txs[i].st = "ok" THEN result(i, "SUCCESS") ELSE Goes(i, "revert")

\* GetRevertMessage and the parsing of the text.  A call that does not fail
\* leaves no error to take the text of.
GetRevertMessage(i) ==
  LET verdict == VerdictOfCall(txs[i].msg, pos)
  IN  /\ At(i, "revert")
      /\ CASE verdict = "ok" -> end' = "panic" /\ UNCHANGED <<pos, next, txs, queue>>
           [] verdict = "text" -> result(i, "BMVUnknown")
           [] verdict = "odd" -> result(i, "Uncoded")
           [] OTHER -> result(i, verdict)

\* One of the requests fails.  GetRevertMessage takes the text of any error of its call
\* for the contract's: without two colons it gives BMVUnknown, and so does, for the
\* link, a number such as that of a port where the code is looked for.
RequestFails(i) ==
  /\ "fail" \in faults /\ end = "" /\ txs[i].g \in {"poll", "receipt", "revert"}
  /\ \/ result(i, "Uncoded")
     \/ txs[i].g = "revert" /\ result(i, "BMVUnknown")

\* The link takes the result.  After a code it knows it goes on from the BMC's position.
Deliver(i) ==
  /\ At(i, "result")
  /\ txs' = [txs EXCEPT ![i].g = "gone"]
  /\ next' = IF txs[i].code = "SUCCESS" THEN next ELSE pos + 1
  /\ end' = IF txs[i].code = "BMVUnknown" THEN "unknown" ELSE end
  /\ UNCHANGED <<pos, queue>>

-----------------------------------------------------------------------------
\* The chain executes a sender's transactions in the order of their nonces.
Execute(i) ==
  LET verdict == Verdict(txs[i].msg, pos)
  IN  /\ txs[i].st = "pool"
      /\ txs[i].nonce = Cardinality({j \in DOMAIN txs : txs[j].st \in {"ok", "failed"}})
      /\ txs' = [txs EXCEPT ![i].st = IF verdict = "ok" THEN "ok" ELSE "failed", ![i].at = pos]
      /\ pos' = IF verdict = "ok" THEN txs[i].msg ELSE pos
      /\ UNCHANGED <<next, queue, end>>

Drop(i) ==
  /\ "drop" \in faults /\ txs[i].st = "pool"
  /\ txs' = [txs EXCEPT ![i].st = "dropped"]
  /\ UNCHANGED <<pos, next, queue, end>>

OtherRelay ==
  /\ "other" \in faults /\ pos < Messages /\ pos' = pos + 1
  /\ UNCHANGED <<next, txs, queue, end>>

Goroutine(i) == GetTransaction(i) \/ GetTransactionReceipt(i) \/ GetRevertMessage(i) \/ Deliver(i)

Next ==
  /\ \/ Relay \/ RelayFails \/ OtherRelay
     \/ \E i \in DOMAIN txs : Goroutine(i) \/ RequestFails(i) \/ Execute(i) \/ Drop(i)
  /\ UNCHANGED faults

Spec == Init /\ [][Next]_vars

\* What is fair: requests return, and the chain executes what it can.
Proceeds == (\E i \in DOMAIN txs : Goroutine(i) \/ Execute(i)) /\ UNCHANGED faults

-----------------------------------------------------------------------------
\* A result says what became of the message: SUCCESS only if the transaction was
\* executed without failure, and BMVAlreadyVerified, for which the link forgets
\* the message, only if the BMC has it, although the code is found out on a
\* state that has moved on.
ResultIsRight ==
  \A i \in DOMAIN txs :
    /\ txs[i].code = "SUCCESS" => txs[i].st = "ok"
    /\ txs[i].code \in {"BMVUnknown", "BMVNotVerifiable", "BMVAlreadyVerified"} => txs[i].st = "failed"
    /\ txs[i].code = "BMVAlreadyVerified" => pos >= txs[i].msg

\* The sender takes the text of an error that is not there, and panics, only
\* when the BMC has moved between the execution of a transaction and the call of
\* GetRevertMessage: it came to where the message is acceptable.
PanicExplained ==
  [][(end = "" /\ end' = "panic") =>
       \E i \in DOMAIN txs : txs[i].g = "revert" /\ txs[i].at < txs[i].msg - 1 /\ pos = txs[i].msg - 1]_vars

\* Messages sent one after the other without waiting are executed in their order
\* and none fails, as long as no other relay is there and no pool forgets: the
\* nonces of _relay (TransactOpts without a nonce) count the pool.
NothingFails == faults = {} => \A i \in DOMAIN txs : txs[i].st # "failed"

\* If no pool forgets a transaction, no goroutine waits for ever: unless the process
\* ends before, each one gives the link a result, or ends without one because a request
\* failed or the contract's refusal has no code.
Answered ==
  \A i \in 1..MaxTxs :
    (i \in DOMAIN txs /\ "drop" \notin faults) ~>
      \/ end # ""
      \/ /\ i \in DOMAIN txs /\ txs[i].g = "gone"
         /\ txs[i].code = "Uncoded" => "fail" \in faults \/ Refused(txs[i].msg, Odd)
=============================================================================
