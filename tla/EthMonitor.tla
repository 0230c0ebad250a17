----------------------------- MODULE EthMonitor -----------------------------
(* MonitorBlock of chain/ethbr/client: how the ethbr receiver is told of the    *)
(* blocks from a height on.  The first header that Monitor gives makes          *)
(* MonitorBlock catch up; from then on each header is one block.                *)
(*                                                                              *)
(* The endpoint is "http", where Monitor polls; "ws", where it subscribes; or   *)
(* "plain", a connection without subscriptions, where it polls too.             *)
EXTENDS Integers, Sequences

CONSTANTS From,        \* br.Height, the first block the receiver asks for
          MaxHeight,   \* model bound: blocks of the chain
          MaxFailures  \* model bound: callbacks that fail

EthMonitorAssumption ==
  /\ {From, MaxHeight} \subseteq Nat \ {0} /\ From <= MaxHeight
  /\ MaxFailures \in Nat

VARIABLES
  endpoint,
  height,    \* of the source chain
  at,        \* "start", "header", "catch", "block" or "ended"
  current,   \* height of the header that Monitor has, or asks for
  h,         \* MonitorBlock's h, 0 before the first header
  closed,    \* the client is closed
  last,      \* height of the last block given to the receiver
  failures   \* callbacks that have failed

vars == <<endpoint, height, at, current, h, closed, last, failures>>

Polls == endpoint \in {"http", "plain"}

Init ==
  /\ endpoint \in {"http", "ws", "plain"}
  /\ height \in From - 1 .. MaxHeight
  /\ at = "start" /\ current = 0 /\ h = 0 /\ closed = FALSE
  /\ last = From - 1 /\ failures = 0

NewBlock ==
  /\ height < MaxHeight
  /\ height' = height + 1
  /\ UNCHANGED <<endpoint, at, current, h, closed, last, failures>>

-----------------------------------------------------------------------------
\* Poll begins with the newest block, a subscription with the one after it.
Start ==
  /\ at = "start"
  /\ current' = IF Polls THEN height ELSE height + 1
  /\ at' = "header"
  /\ UNCHANGED <<endpoint, height, h, closed, last, failures>>

\* GetBlockNumber or SubscribeNewHead fails, or the subscription ends.
MonitorEnds ==
  /\ at = "start" \/ (at = "header" /\ ~Polls)
  /\ at' = "ended"
  /\ UNCHANGED <<endpoint, height, current, h, closed, last, failures>>

\* A header arrives.  Poll asks for it again until it is there, also when the client
\* is closed and it will never be.
Header ==
  /\ at = "header" /\ current <= height /\ ~closed
  /\ h' = IF h = 0 THEN From ELSE h
  /\ at' = IF h = 0 /\ From < current THEN "catch" ELSE "block"
  /\ UNCHANGED <<endpoint, height, current, closed, last, failures>>

\* Mutant: it stops one block early.
CatchUpShort ==
  /\ at = "catch"
  /\ last' = h
  /\ h' = h + 1
  /\ at' = IF h + 2 < current THEN "catch" ELSE "block"
  /\ UNCHANGED <<endpoint, height, current, closed, failures>>

\* Blocks up to the first header are asked for one by one.
CatchUp ==
  /\ at = "catch"
  /\ last' = h
  /\ h' = h + 1
  /\ at' = IF h + 1 < current THEN "catch" ELSE "block"
  /\ UNCHANGED <<endpoint, height, current, closed, failures>>

Advance == current' = current + 1 /\ at' = "header"

\* Mutant: the same header again.
BlockStays ==
  /\ at = "block"
  /\ last' = current /\ at' = "header"
  /\ UNCHANGED <<endpoint, height, current, h, closed, failures>>

\* The header's own block, also when it is below From.
Block ==
  /\ at = "block"
  /\ last' = current
  /\ Advance
  /\ UNCHANGED <<endpoint, height, h, closed, failures>>

\* FilterLogs or the receiver's callback fails.  A subscription ends with the error.
\* Poll calls errCb, which closes the client, and goes on with the next header; a
\* client of an http endpoint has nothing to close.
CallbackFails ==
  /\ at \in {"catch", "block"} /\ failures < MaxFailures
  /\ failures' = failures + 1
  /\ IF Polls THEN Advance ELSE at' = "ended" /\ UNCHANGED current
  /\ closed' = (endpoint = "plain")
  /\ UNCHANGED <<endpoint, height, h, last>>

Next == NewBlock \/ Start \/ MonitorEnds \/ Header \/ CatchUp \/ Block \/ CallbackFails

Spec == Init /\ [][Next]_vars

\* What is fair: requests that can be answered are, at some time.
Proceeds == Start \/ Header \/ CatchUp \/ Block

-----------------------------------------------------------------------------
\* Between catching up and following the heads no block is left out: the heights given
\* to the receiver go up by one.  The exception is an http endpoint after a failed
\* callback: Poll goes on with the next header, and does not catch up again.
FollowsOn == last' \in {last, last + 1} \/ (endpoint = "http" /\ failures > 0)

\* When a header is there, every block of the chain up to now is given to the receiver
\* at some time, unless a callback fails or the monitor ends: catching up and polling
\* never stop half way, also when the chain grows meanwhile.
HeadsFollowed ==
  \A k \in From .. MaxHeight :
    (at = "header" /\ current <= height /\ k <= height) ~> (last >= k \/ at = "ended" \/ failures > 0)
=============================================================================
