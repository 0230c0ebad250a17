----------------------------- MODULE MCEvents -----------------------------
(* The receivers that prove messages by events, each with its link.  The     *)
(* initial state chooses the receiver and its surroundings.                  *)
EXTENDS Naturals, Sequences

CONSTANTS EthEnvs, OtherSeq, StoreInterval, BridgeEnvs, StartHeight,
          PointerSize, MessageSize, TxSizeLimit, MarginForLimit, MaxQueueSize

VARIABLES receiver,
          lk, brss, rsc, blsc, bmc, env, mon, crashes,
          logs, eseq, lastHeight, errors, skipped,      \* of ethbr
          blocks, rs, reconnects                        \* of bridge

Eth == INSTANCE EthBridge WITH Receiver <- "ethbr"
Icon == INSTANCE Bridge WITH Receiver <- "bridge"

ASSUME EventsAssumption ==
  /\ Eth!EventRelayAssumption /\ Icon!EventRelayAssumption
  /\ Eth!EthBridgeAssumption /\ Icon!BridgeAssumption

ev(t) == [tx |-> t, own |-> TRUE]
to(t) == [tx |-> t, own |-> FALSE]
OneOrTwo == {<<>>, <<ev(1)>>, <<ev(1), ev(2)>>}
\* Also two of one transaction, and three of two.
Several == {<<>>, <<ev(1)>>, <<ev(1), ev(1)>>, <<ev(1), ev(1), ev(2)>>}
\* Also an event for another destination, alone, before and after an own one.
Shared == OneOrTwo \cup {<<to(1)>>, <<ev(1), to(2)>>, <<to(1), ev(2)>>}

EthEnv(shapes, height, crash, error, polling, others) ==
  [shapes |-> shapes, height |-> height, crashes |-> crash, errors |-> error, polling |-> polling, others |-> others]

\* Undisturbed; with a restart, an error and another relay; with polling; with
\* another destination.
MCEthEnvs == {EthEnv(Several, 3, 0, 0, FALSE, FALSE),
              EthEnv(OneOrTwo, 3, 1, 1, FALSE, TRUE),
              EthEnv(OneOrTwo, 3, 1, 1, TRUE, FALSE),
              EthEnv(Shared, 2, 1, 0, FALSE, FALSE)}
SharedEnvs == {EthEnv(Shared, 3, 0, 1, TRUE, FALSE)}

\* Undisturbed, with one message in every block; with others, a restart and a reconnect.
MCBridgeEnvs == {[counts |-> {1}, height |-> 6, crashes |-> 0, reconnects |-> 0],
                 [counts |-> {0, 1, 2}, height |-> 4, crashes |-> 1, reconnects |-> 1]}
NoEnvs == {}

ethVars == <<logs, eseq, lastHeight, errors, skipped>>
bridgeVars == <<blocks, rs, reconnects>>
vars == <<receiver, lk, brss, rsc, blsc, bmc, env, mon, crashes, ethVars, bridgeVars>>

Init ==
  \/ /\ receiver = "ethbr" /\ Eth!Init
     /\ blocks = <<>> /\ rs = <<>> /\ reconnects = 0
  \/ /\ receiver = "bridge" /\ Icon!Init
     /\ logs = <<>> /\ eseq = 0 /\ lastHeight = 0 /\ errors = 0 /\ skipped = FALSE

EthNext == receiver = "ethbr" /\ Eth!Next /\ UNCHANGED <<receiver, bridgeVars>>
IconNext == receiver = "bridge" /\ Icon!Next /\ UNCHANGED <<receiver, ethVars>>
Next == EthNext \/ IconNext

\* Only the undisturbed surroundings need the fairness.
Proceeds ==
  \/ receiver = "ethbr" /\ Eth!Alone /\ Eth!Proceeds /\ UNCHANGED <<receiver, bridgeVars>>
  \/ receiver = "bridge" /\ Icon!Alone /\ Icon!Proceeds /\ UNCHANGED <<receiver, ethVars>>

Spec == Init /\ [][Next]_vars
FairSpec == Spec /\ WF_vars(Proceeds)

-----------------------------------------------------------------------------
OfEthbr == receiver = "ethbr"

\* ethbr: a message proof has every event from the position to its last one.
ProofCovers == OfEthbr => Eth!ProofCovers

\* An event that has been notified and that the BMC does not have is in the
\* receiver's list, with the exceptions that the receivers' modules name.
EventsKept == IF OfEthbr THEN Eth!EventsKept ELSE Icon!EventsKept

\* ethbr: while the source chain's BMC sends to this destination only, proofs have
\* every event, and the BMC's position is never inside a block.
ProofsWhole == OfEthbr => Eth!OwnProofCovers /\ Eth!DeliveredWhole

\* The process ends, and a message is rejected, only for the causes that the
\* receivers' modules name.  ethbr: the monitor's errors, skipped events and other
\* destinations; bridge: blocks that have not one message, and reconnects.
FailureExplained ==
  IF OfEthbr THEN Eth!EndExplained /\ Eth!NothingRejected ELSE Icon!EndExplained /\ Icon!GapExplained

\* ethbr: an event is skipped only by a restart at a stored height that the BMC
\* does not have, or by polling when a request fails.
SkipExplained ==
  [][OfEthbr /\ skipped' /\ ~skipped => (lastHeight >= bmc.height /\ lastHeight # 0) \/ (env.polling /\ errors' > errors)]_vars

\* An undisturbed relay delivers every event.
AllDelivered == (OfEthbr => Eth!AllDelivered) /\ (~OfEthbr => Icon!AllDelivered)
=============================================================================
