------------------------------- MODULE Sender -------------------------------
(***************************************************************************)
(* chain/icon/sender.go and chain/ethbr/sender.go: the queue that bounds   *)
(* the relay messages under way, and one goroutine per transaction that    *)
(* waits for its result.  The two senders differ in how they talk to their *)
(* chain, not in this state machine.                                       *)
(*                                                                         *)
(* txs lists the transactions in the order they were sent.  A transaction  *)
(* is "pool" until the destination executes or loses it, "done" until its  *)
(* goroutine has seen that, and "result" while the goroutine is blocked on *)
(* sending the RelayResult to the link.  It is "orphan" when the process   *)
(* that sent it has ended before it was executed.                          *)
(***************************************************************************)
EXTENDS Lists

CONSTANTS
  MaxQueueSize,  \* the constant of the same name (100 in the code)
  Preemptive,    \* goroutines switch between any two steps
  MaxTx          \* model bound: transactions alive at a time

ASSUME SenderAssumption ==
  /\ MaxQueueSize \in Nat \ {0}
  /\ Preemptive \in BOOLEAN
  /\ MaxTx \in Nat \ {0}

VARIABLES
  queue,  \* s.queue.values, by message id
  txs     \* transactions sent and not finished

sndVars == <<queue, txs>>

\* The codes the link tells apart (BMVUnknown stands for every other one too),
\* and Uncoded for an error without a code.
Codes == {"SUCCESS", "BMVUnknown", "BMVNotVerifiable", "BMVAlreadyVerified",
          "BMVRevertInvalidBlockWitnessOld"}
Uncoded == "Uncoded"
NoCode == "NoCode"

States == {"pool", "done", "result", "orphan"}

QueueFull == MaxQueueSize <= Len(queue)

\* Stores values in the queue.  No lock protects it: the write is lost when
\* another goroutine that has read the queue before stores its own after it.
SetQueue(values) == queue' = values \/ (Preemptive /\ UNCHANGED queue)

\* s.Relay past its queue check: the transaction goes out, its id is queued
\* and its goroutine started.
Relay(id, msg) ==
  /\ Len(txs) < MaxTx
  /\ txs' = Append(txs, [st |-> "pool", id |-> id, msg |-> msg, code |-> NoCode])
  /\ SetQueue(Append(queue, id))

\* dequeue also drops the ids queued before the one it looks for.
dequeue(id) == DropThrough(queue, LAMBDA q : q = id)

\* The goroutine of transaction i leaves GetResult.  An error without a code
\* is dropped: no RelayResult is sent for it.
Result(i) ==
  /\ txs[i].st = "done"
  /\ SetQueue(dequeue(txs[i].id))
  /\ txs' = IF txs[i].code = Uncoded
            THEN RemoveAt(txs, i)
            ELSE [txs EXCEPT ![i].st = "result"]

\* The process has ended: the goroutine of transaction i is gone.
Forget(i) ==
  /\ txs[i].st \in {"done", "result"}
  /\ txs' = RemoveAt(txs, i)
  /\ UNCHANGED queue

\* A new process: what is in the pool is executed with nobody waiting.
StartSender ==
  /\ \A i \in DOMAIN txs : txs[i].st \in {"pool", "orphan"}
  /\ txs' = [i \in DOMAIN txs |-> [txs[i] EXCEPT !.st = "orphan"]]
  /\ queue' = <<>>

SenderInit ==
  /\ queue = <<>>
  /\ txs = <<>>
=============================================================================
