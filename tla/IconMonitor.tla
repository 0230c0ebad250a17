----------------------------- MODULE IconMonitor -----------------------------
(* The life of the web socket connections of chain/icon/client that the btp2   *)
(* and the bridge receiver follow their chain with.  A monitor is a call of    *)
(* Monitor that reads its connection until it ends.  The bridge's error        *)
(* callback starts another monitor from within, so that the calls under way    *)
(* form a stack, of which the last one runs.                                   *)
(*                                                                             *)
(* The client finds its connections by their local address, which the system   *)
(* may give out again once a connection is closed.                             *)
EXTENDS IconClient

CONSTANTS
  Addresses,        \* local addresses
  BlockRetryLimit,
  MaxHeight,        \* the blocks are at 1 .. MaxHeight
  MaxMonitors       \* model bound: connections opened

IconMonitorAssumption ==
  /\ BlockRetryLimit \in Nat
  /\ {MaxHeight, MaxMonitors} \subseteq Nat \ {0}

VARIABLES
  receiver,  \* which receiver it is: "btp2" or "bridge"
  running,   \* the process runs: no panic, and the outermost monitor has not returned
  frames,    \* calls of Monitor, outermost first
  conns,     \* c.conns: connections by local address
  open,      \* connections not closed by the client
  opened,    \* connections opened so far
  last       \* height of the last block given to the link; where monitoring began at first

vars == <<receiver, running, frames, conns, open, opened, last>>

\* at: the next line of the call; next: the height that the node notifies next;
\* retry: attempts left to fetch the messages of that block.
Frame(height) == [at |-> "connect", id |-> 0, addr |-> CHOOSE a \in Addresses : TRUE, next |-> height, retry |-> 0]

Init ==
  /\ receiver \in {"btp2", "bridge"}
  /\ running = TRUE
  /\ last = 1
  /\ frames = <<Frame(last)>>
  /\ conns = <<>> /\ open = {} /\ opened = 0

top == frames[Len(frames)]
At(line) == running /\ top.at = line
Goto(line) == frames' = [frames EXCEPT ![Len(frames)].at = line]

With(map, a, id) == [b \in DOMAIN map \cup {a} |-> IF b = a THEN id ELSE map[b]]
Without(map, a) == [b \in DOMAIN map \ {a} |-> map[b]]

-----------------------------------------------------------------------------
\* Mutant: the connection is closed and stays in the map.
wsCloseKept(f) == conns' = conns /\ open' = open \ {f.id}

\* Whatever connection has the address is taken out of the map.
wsClose(f) == conns' = Without(conns, f.addr) /\ open' = open \ {f.id}

\* monitorBTP2Block up to wsConnect.  Its requests may fail before.
Connect ==
  /\ At("connect") /\ opened < MaxMonitors
  /\ \E a \in Addresses \ {frames[i].addr : i \in {j \in DOMAIN frames : frames[j].id \in open}} :
       /\ opened' = opened + 1
       /\ frames' = [frames EXCEPT ![Len(frames)].at = "request", ![Len(frames)].id = opened + 1, ![Len(frames)].addr = a]
       /\ conns' = With(conns, a, opened + 1)
       /\ open' = open \cup {opened + 1}
  /\ UNCHANGED <<receiver, running, last>>

\* GetBTPLinkOffset has failed: there is nothing to close.
ConnectNot ==
  /\ At("connect") /\ receiver = "bridge"
  /\ IF Len(frames) = 1 THEN running' = FALSE /\ UNCHANGED frames
     ELSE frames' = SubSeq(frames, 1, Len(frames) - 1) /\ UNCHANGED running
  /\ UNCHANGED <<receiver, conns, open, opened, last>>

\* The error of wsConnect is given to the callback together with a nil connection,
\* whose address it asks for.
ConnectPanics ==
  /\ At("connect")
  /\ running' = FALSE
  /\ UNCHANGED <<receiver, frames, conns, open, opened, last>>

wsRequest ==
  /\ At("request")
  /\ \E ok \in BOOLEAN : Goto(IF ok THEN "read" ELSE "return")
  /\ UNCHANGED <<receiver, running, conns, open, opened, last>>

\* onErr of the bridge asks for the last block again, which may be one it has.
restartHeight == last

\* Mutant: the bridge leaves the connection open.
onErrOpen(line) ==
  /\ frames' = IF receiver = "btp2" THEN [frames EXCEPT ![Len(frames)].at = line]
               ELSE Append([frames EXCEPT ![Len(frames)].at = line], Frame(restartHeight))
  /\ IF receiver = "btp2" THEN wsClose(top) ELSE UNCHANGED <<conns, open>>

\* onErr of the receivers, called by the monitor that goes on at line afterwards.
onErr(line) ==
  /\ frames' = IF receiver = "btp2" THEN [frames EXCEPT ![Len(frames)].at = line]
               ELSE Append([frames EXCEPT ![Len(frames)].at = line], Frame(restartHeight))
  /\ wsClose(top)

-----------------------------------------------------------------------------
\* Mutant: the loop goes on whether its connection is in the map or not.
RegisteredAlways(f) == TRUE

Registered(f) == f.addr \in DOMAIN conns

\* wsReadJSONLoop returns when its connection has been taken out of the map.
ReadNot ==
  /\ At("read") /\ ~Registered(top)
  /\ Goto("return")
  /\ UNCHANGED <<receiver, running, conns, open, opened, last>>

\* wsRead gives a notification of the next block.
wsRead ==
  /\ At("read") /\ Registered(top) /\ top.id \in open
  /\ top.next <= MaxHeight
  /\ frames' = [frames EXCEPT ![Len(frames)].at = "fetch", ![Len(frames)].retry = BlockRetryLimit]
  /\ UNCHANGED <<receiver, running, conns, open, opened, last>>

\* wsRead fails: the callback is told and the loop returns.
wsReadFails ==
  /\ At("read") /\ Registered(top)
  /\ onErr("return")
  /\ UNCHANGED <<receiver, running, opened, last>>

\* The node has closed the connection in the normal way: the callback is not told.
wsReadCloses ==
  /\ At("read") /\ Registered(top) /\ top.id \in open
  /\ Goto("return")
  /\ UNCHANGED <<receiver, running, conns, open, opened, last>>

\* Monitor's deferred wsClose.  The error of an inner monitor is dropped; with the
\* outermost one the receiver ends.
Return ==
  /\ At("return")
  /\ wsClose(top)
  /\ IF Len(frames) = 1 THEN running' = FALSE /\ UNCHANGED frames
     ELSE frames' = SubSeq(frames, 1, Len(frames) - 1) /\ UNCHANGED running
  /\ UNCHANGED <<receiver, opened, last>>

-----------------------------------------------------------------------------
\* What the callback does with an answer of the node to its request for messages:
\* getBTPMessage asks again, without waiting, when there was no answer.
Handle(e) ==
  CASE Panics(e) -> running' = FALSE /\ UNCHANGED <<frames, conns, open, last>>
    [] e = OK ->
         /\ last' = top.next
         /\ frames' = [frames EXCEPT ![Len(frames)].at = "read", ![Len(frames)].next = @ + 1]
         /\ UNCHANGED <<running, conns, open>>
    [] e.kind = "rpc" /\ e.code = "NotFound" /\ top.retry > 0 ->
         /\ frames' = [frames EXCEPT ![Len(frames)].retry = @ - 1]
         /\ UNCHANGED <<running, conns, open, last>>
    [] e.kind = "rpc" /\ (e.code # "NotFound" \/ top.retry = 0) ->
         /\ onErr("read")
         /\ UNCHANGED <<running, last>>
    [] OTHER -> UNCHANGED <<running, frames, conns, open, last>>

getBTPMessage ==
  /\ At("fetch")
  /\ \E x \in Exchanges : Handle(Do(x))
  /\ UNCHANGED <<receiver, opened>>

\* The rest of the callback fails: the block cannot be decoded or stored.
CallbackFails ==
  /\ At("fetch")
  /\ onErr("read")
  /\ UNCHANGED <<receiver, running, opened, last>>

-----------------------------------------------------------------------------
Next ==
  \/ Connect \/ ConnectNot \/ ConnectPanics \/ wsRequest
  \/ ReadNot \/ wsRead \/ wsReadFails \/ wsReadCloses \/ Return
  \/ getBTPMessage \/ CallbackFails

Spec == Init /\ [][Next]_vars

\* What is fair: the goroutine of the monitors runs.
Proceeds == ReadNot \/ Return

-----------------------------------------------------------------------------
\* However often the bridge connects again, and whichever addresses the system gives
\* out, the client has at most one connection: the one the innermost monitor reads is
\* open and found under its address, and all others are closed and out of the map.
\* This is about the order of CloseMonitor, the new connection and the deferred wsClose.
OneConnection ==
  running =>
    LET reading == top.id \in open
    IN /\ open \subseteq {top.id}
       /\ reading => conns = [a \in {top.addr} |-> top.id]
       /\ ~reading => conns = <<>>
       /\ At("fetch") => reading

\* A new connection never skips a block: the heights given to the link go up by one or
\* the last one is given again, although monitors that were interrupted have their own
\* idea of the next block.
FollowsOn == last' \in {last, last + 1}

\* Once a monitor returns without an error for the callback, all monitors that wait for
\* it return, and the receiver ends: none of them goes on reading its closed connection.
ReturnEnds == At("return") ~> ~running
=============================================================================
