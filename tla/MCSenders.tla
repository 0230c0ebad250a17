----------------------------- MODULE MCSenders -----------------------------
(* The ICON and the ethbr sender in detail.  The initial state chooses which *)
(* of the two runs; the other one does nothing.                              *)
EXTENDS Naturals

CONSTANTS
  txSizeLimit, MaxQueueSize, TransactionResultRetryLimit, Sizes, MaxMessages, MaxSigns,
  Messages, MaxTxs, Heavy, Odd,
  IconFaults, EthFaults         \* which faults may happen together in each of them

VARIABLES
  chain,
  running, msgs, frags, signs, signed, queue, polls, results, pool, done, cache, taken, faults,
  pos, next, txs, ethQueue, end, ethFaults

Icon == INSTANCE IconSubmit WITH FaultSets <- IconFaults
Eth == INSTANCE EthSubmit WITH FaultSets <- EthFaults, queue <- ethQueue, faults <- ethFaults

ASSUME SendersAssumption == Icon!IconSubmitAssumption /\ Eth!EthSubmitAssumption

iconVars == <<running, msgs, frags, signs, signed, queue, polls, results, pool, done, cache, taken, faults>>
ethVars == <<pos, next, txs, ethQueue, end, ethFaults>>
vars == <<chain, iconVars, ethVars>>

Init ==
  /\ Icon!Init /\ Eth!Init
  /\ \/ chain = "icon" /\ ethFaults = {}
     \/ chain = "ethbr" /\ faults = {}

IconOnly == chain = "icon" /\ UNCHANGED <<chain, ethVars>>
EthOnly == chain = "ethbr" /\ UNCHANGED <<chain, iconVars>>

Next ==
  \/ IconOnly /\ Icon!Next
  \/ EthOnly /\ Eth!Next

Spec ==
  /\ Init /\ [][Next]_vars
  /\ WF_vars(IconOnly /\ Icon!Proceeds)
  /\ WF_vars(EthOnly /\ Eth!Proceeds)

\* The BMC handles only whole messages, put together from the fragments of _relay,
\* also after a Relay that failed between two fragments, unless transactions are lost.
WholeMessages == Icon!WholeMessages

\* GetRevertMessage panics only if the BMC has moved to where the message fits.
PanicExplained == Eth!PanicExplained

\* The results of both senders are right, although the ICON sender asks for the last
\* transaction only and the ethbr sender finds the reason of a failure by executing it
\* again on a later state.  The ICON sender's speak of the whole message, or of its last
\* fragment where transactions may be lost.  Without faults nothing fails in ethbr.
ResultIsRight == Icon!ResultIsRight /\ Eth!ResultIsRight /\ Eth!NothingFails

\* Every message of the ICON sender gets its result if there are no faults, and its
\* GetResult gives up whatever happens to the transaction.  Every goroutine of the ethbr
\* sender ends if no pool forgets a transaction: with a result, unless a request failed
\* or the refusal has no code.
Answered == Icon!Answered /\ Icon!PollsEnd /\ Eth!Answered
=============================================================================
