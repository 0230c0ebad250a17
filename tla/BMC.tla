-------------------------------- MODULE BMC --------------------------------
(***************************************************************************)
(* The BMC and its verifier (BMV) on the destination chain.  The contracts *)
(* are not part of the repository.  What is stated here is what link.go    *)
(* relies on: a relay message is taken as a whole, blocks are taken in     *)
(* order, a block already taken is answered with BMVAlreadyVerified and a  *)
(* block that does not follow the last one with BMVNotVerifiable, and      *)
(* getStatus answers the last height and sequence number taken.            *)
(***************************************************************************)
EXTENDS SourceChain, Sender

CONSTANT Faults  \* what the surroundings of the relay may do beside serving it

FaultKinds == {"lose", "reorder", "other", "revert", "sendfail"}

ASSUME FaultsAssumption == Faults \subseteq FaultKinds

VARIABLE bmc  \* [height, rxSeq]: the status of the link at the BMC

\* A relay message as the BMC reads it: a block update and the places of the
\* first and last message of the block that its message proof proves.
Message == [bu : BlockHeights \union {0}, first : Nat, last : Nat]

Verdict(m) ==
  IF m.bu \notin BlockHeights THEN "BMVUnknown"
  ELSE IF m.bu <= bmc.height THEN "BMVAlreadyVerified"
  ELSE IF ~IsNext(bmc.height, m.bu) THEN "BMVNotVerifiable"
  ELSE IF m.last # 0 /\ StartSeq(m.bu) + m.first # bmc.rxSeq + SequenceOffset + 1
       THEN "BMVUnknown"
  ELSE "SUCCESS"

After(m) ==
  IF Verdict(m) = "SUCCESS"
  THEN [height |-> m.bu,
        rxSeq |-> IF m.last = 0 THEN bmc.rxSeq
                  ELSE StartSeq(m.bu) + m.last - SequenceOffset]
  ELSE bmc

\* Transaction i leaves the pool with the given code.
Finish(i, code) ==
  txs' = IF txs[i].st = "orphan" THEN RemoveAt(txs, i)
         ELSE [txs EXCEPT ![i] = [@ EXCEPT !.st = "done", !.code = code]]

Pooled(i) == txs[i].st \in {"pool", "orphan"}

\* The chain executes a transaction: the oldest one unless they may overtake.
Execute(i) ==
  /\ Pooled(i)
  /\ "reorder" \in Faults \/ \A j \in 1..(i - 1) : ~Pooled(j)
  /\ Finish(i, Verdict(txs[i].msg))
  /\ bmc' = After(txs[i].msg)
  /\ UNCHANGED queue

\* The transaction never gets a result (not found after the retries).
Lose(i) ==
  /\ "lose" \in Faults
  /\ Pooled(i)
  /\ Finish(i, Uncoded)
  /\ UNCHANGED <<queue, bmc>>

\* The transaction fails with a code that does not depend on the position.
Revert(i) ==
  /\ "revert" \in Faults
  /\ Pooled(i)
  /\ \E code \in {"BMVUnknown", "BMVRevertInvalidBlockWitnessOld"} : Finish(i, code)
  /\ UNCHANGED <<queue, bmc>>

\* Another relay of the same link delivers the next block.
OtherRelay ==
  /\ "other" \in Faults
  /\ \E k \in BlockHeights :
       /\ IsNext(bmc.height, k)
       /\ bmc' = [height |-> k, rxSeq |-> EndSeq[k] - SequenceOffset]
  /\ UNCHANGED sndVars

Id == (BlockHeights \union {0}) \X Int

Transaction == [st : States, id : Id, msg : Message,
                code : Codes \union {Uncoded, NoCode}]

SenderTypeOK ==
  /\ queue \in Seq(Id)
  /\ txs \in Seq(Transaction)
  /\ bmc \in [height : BlockHeights, rxSeq : Int]
=============================================================================
