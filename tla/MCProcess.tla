----------------------------- MODULE MCProcess -----------------------------
(* What surrounds the links of a relay: how it starts and ends, how its      *)
(* receivers are told of blocks, and the errors that it passes on.  The      *)
(* initial state chooses the part that runs; the others do nothing.          *)
EXTENDS Naturals

CONSTANTS
  Networks,
  Addresses, BlockRetryLimit, MaxBlocks, MaxMonitors,
  From, MaxHeight, MaxFailures,
  Codes, MaxLayers

VARIABLES
  part,
  cfg, busy, todo, links, at, main,
  receiver, running, frames, conns, open, opened, last,
  endpoint, height, ethAt, current, h, closed, ethLast, failures,
  err, returned, code, formatted

Relay == INSTANCE RelayStart
Icon == INSTANCE IconMonitor WITH MaxHeight <- MaxBlocks
Eth == INSTANCE EthMonitor WITH at <- ethAt, last <- ethLast
Errors == INSTANCE ErrorChain

ASSUME ProcessAssumption ==
  /\ Relay!NetworksAssumption /\ Icon!IconMonitorAssumption
  /\ Eth!EthMonitorAssumption /\ Errors!ErrorChainAssumption

relayVars == <<cfg, busy, todo, links, at, main>>
iconVars == <<receiver, running, frames, conns, open, opened, last>>
ethVars == <<endpoint, height, ethAt, current, h, closed, ethLast, failures>>
errorVars == <<err, returned, code, formatted>>
vars == <<part, relayVars, iconVars, ethVars, errorVars>>

NoRelay == cfg = [direction |-> "sideways", src |-> Relay!SomeChain, dst |-> Relay!SomeChain] /\ busy = {}
NoIcon == receiver = "btp2"
NoEth == endpoint = "http" /\ height = From

Init ==
  /\ \/ part = "relay" /\ NoIcon /\ NoEth
     \/ part = "icon" /\ NoRelay /\ NoEth
     \/ part = "ethbr" /\ NoRelay /\ NoIcon
     \/ part = "errors" /\ NoRelay /\ NoIcon /\ NoEth
  /\ Relay!Init /\ Icon!Init /\ Eth!Init /\ Errors!Init

RelayOnly == part = "relay" /\ UNCHANGED <<part, iconVars, ethVars, errorVars>>
IconOnly == part = "icon" /\ UNCHANGED <<part, relayVars, ethVars, errorVars>>
EthOnly == part = "ethbr" /\ UNCHANGED <<part, relayVars, iconVars, errorVars>>
ErrorsOnly == part = "errors" /\ UNCHANGED <<part, relayVars, iconVars, ethVars>>

Next ==
  \/ RelayOnly /\ Relay!Next
  \/ IconOnly /\ Icon!Next
  \/ EthOnly /\ Eth!Next
  \/ ErrorsOnly /\ Errors!Next

Spec ==
  /\ Init /\ [][Next]_vars
  /\ WF_vars(RelayOnly /\ Relay!Proceeds)
  /\ WF_vars(IconOnly /\ Icon!Proceeds)
  /\ WF_vars(EthOnly /\ Eth!Proceeds)

\* An error of any goroutine ends the relay, also while another link is being started.
ErrorEnds == Relay!ErrorEnds

\* However often the bridge connects again, the client has at most one connection.
OneConnection == Icon!OneConnection

\* A relay that runs has the links its configuration asks for, each between the right
\* chains; it is refused only for a reason in what it needs, and its process exits
\* on the way up only for a client of an Ethereum chain.
StartedAsAsked == Relay!RunsAsAsked /\ Relay!RefusalExplained

\* No block is left out: by a nested monitor of the ICON client that takes over, or by
\* MonitorBlock of the Ethereum client, but over http after a failed callback.
NoBlockSkipped == [][Icon!FollowsOn /\ Eth!FollowsOn]_vars

\* Once a monitor of the ICON client returns normally, all that wait for it return and
\* the receiver ends; catching up and polling of the Ethereum client never stop half way.
MonitorsProceed == Icon!ReturnEnds /\ Eth!HeadsFollowed

\* The code of an error is the one attached last, however it has been wrapped since, and
\* every error that was wrapped on the way is found again by Is.
ErrorsKept == Errors!CodeIsLast /\ Errors!CausesFound
=============================================================================
