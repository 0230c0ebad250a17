--------------------------- MODULE ProcessProofs ---------------------------
(***************************************************************************)
(* What surrounds the links of a relay, for every value of the constants:  *)
(* the connections of the ICON client, the blocks that the receivers are   *)
(* told of, and how a relay starts.  Each part has an inductive invariant  *)
(* of its own; a step of one part leaves the others alone.                 *)
(***************************************************************************)
EXTENDS MCProcess, Integers, Sequences, SequenceTheorems, TLAPS

USE ProcessAssumption

-----------------------------------------------------------------------------
(***************************************************************************)
(* The connections of the ICON client.                                     *)
(***************************************************************************)
Places == Addresses \cup {CHOOSE a \in Addresses : TRUE}
Frames == [at : {"connect", "request", "read", "fetch", "return"},
           id : Nat, addr : Places, next : Nat, retry : Nat]

IconTypeOK ==
  /\ receiver \in {"btp2", "bridge"} /\ running \in BOOLEAN
  /\ frames \in Seq(Frames) /\ Len(frames) >= 1
  /\ opened \in Nat /\ last \in Nat

Reading == Icon!top.id \in open

(* The monitors that wait for an inner one have closed their connection and  *)
(* will only return; they do not ask for another block, so that their next   *)
(* height, which may be an old one, does not matter.  The one that runs has  *)
(* the only connection and goes on from the last block.                      *)
IconInv ==
  /\ IconTypeOK
  /\ \A i \in 1 .. Len(frames) - 1 : frames[i].at \in {"read", "return"}
  /\ Icon!OneConnection
  /\ (running /\ Icon!top.at = "connect") => open = {}
  /\ (running /\ (Reading \/ Icon!top.at = "connect")) => Icon!top.next \in {last, last + 1}

LEMMA IconInit == Init => IconInv
<1> SUFFICES ASSUME Init PROVE IconInv
  OBVIOUS
<1> DEFINE f == Icon!Frame(1)
<1>1. receiver \in {"btp2", "bridge"} /\ running = TRUE /\ last = 1 /\ opened = 0
      /\ frames = <<f>> /\ conns = <<>> /\ open = {}
  BY DEF Init, Icon!Init
<1>2. f \in Frames /\ f.at = "connect" /\ f.next = 1
  BY DEF Icon!Frame, Frames, Places
<1>3. Len(frames) = 1 /\ Icon!top = f /\ frames \in Seq(Frames)
  BY <1>1, <1>2 DEF Icon!top
<1> QED
  BY <1>1, <1>2, <1>3 DEF IconInv, IconTypeOK, Icon!OneConnection, Icon!At, Reading

\* A call of Monitor goes on: its frame becomes g, the others stay.
Replaces(g) == frames' = [frames EXCEPT ![Len(frames)] = g]

LEMMA Replaced ==
  ASSUME IconTypeOK, NEW g \in Frames, Replaces(g)
  PROVE  /\ frames' \in Seq(Frames) /\ Len(frames') = Len(frames) /\ Icon!top' = g
         /\ \A i \in 1 .. Len(frames) - 1 : frames'[i] = frames[i]
BY DEF IconTypeOK, Replaces, Icon!top

LEMMA Pushed ==
  ASSUME IconTypeOK, NEW f \in Frames, NEW g \in Frames,
         frames' = Append([frames EXCEPT ![Len(frames)] = f], g)
  PROVE  /\ frames' \in Seq(Frames) /\ Len(frames') = Len(frames) + 1 /\ Icon!top' = g
         /\ frames'[Len(frames)] = f
         /\ \A i \in 1 .. Len(frames) - 1 : frames'[i] = frames[i]
<1> DEFINE s == [frames EXCEPT ![Len(frames)] = f]
<1>1. s \in Seq(Frames) /\ Len(s) = Len(frames) /\ s[Len(frames)] = f
      /\ \A i \in 1 .. Len(frames) - 1 : s[i] = frames[i]
  BY DEF IconTypeOK
<1>2. frames' = Append(s, g) /\ Len(frames) \in Nat \ {0}
  BY DEF IconTypeOK
<1> HIDE DEF s
<1>3. frames' \in Seq(Frames) /\ Len(frames') = Len(s) + 1 /\ frames'[Len(s) + 1] = g
      /\ \A i \in 1 .. Len(s) : frames'[i] = s[i]
  <2>1. s \in Seq(Frames) /\ g \in Frames
    BY <1>1
  <2> HIDE <1>1
  <2> QED
    BY ONLY <1>2, <2>1, AppendProperties, SMT
<1> QED
  BY <1>1, <1>2, <1>3 DEF Icon!top

\* The frame that runs is one of the stack.
LEMMA TopIsFrame == ASSUME IconTypeOK PROVE Icon!top \in Frames /\ Len(frames) \in Nat \ {0}
BY DEF IconTypeOK, Icon!top

LEMMA Popped ==
  ASSUME IconTypeOK, Len(frames) # 1, frames' = SubSeq(frames, 1, Len(frames) - 1)
  PROVE  /\ frames' \in Seq(Frames) /\ Len(frames') = Len(frames) - 1 /\ Len(frames') >= 1
         /\ Icon!top' = frames[Len(frames) - 1]
         /\ \A i \in 1 .. Len(frames) - 1 : frames'[i] = frames[i]
<1>0. Len(frames) > 1
  <2>1. Len(frames) \in Nat \ {0}
    BY TopIsFrame
  <2> QED
    BY ONLY <2>1, Len(frames) # 1
<1>1. Len(frames) \in Nat /\ \A i \in 1 .. Len(frames) - 1 : frames[i] \in Frames
  BY <1>0 DEF IconTypeOK
<1>2. frames' \in Seq(Frames) /\ Len(frames') = Len(frames) - 1
      /\ \A i \in 1 .. Len(frames) - 1 : frames'[i] = frames[i]
  BY <1>0, <1>1, SubSeqProperties
<1> QED
  BY <1>0, <1>1, <1>2 DEF Icon!top

\* wsClose of the monitor that runs leaves the client without connections.
LEMMA Closes ==
  ASSUME IconInv, running, Icon!wsClose(Icon!top)
  PROVE  open' = {} /\ conns' = <<>>
<1>1. open' = {}
  BY DEF IconInv, Icon!OneConnection, Icon!wsClose
<1>2. DOMAIN conns \subseteq {Icon!top.addr}
  BY DEF IconInv, Icon!OneConnection
<1>3. conns' = [b \in {} |-> conns[b]]
  BY <1>2 DEF Icon!wsClose, Icon!Without
<1>4. conns' = <<>>
  BY <1>3
<1> QED
  BY <1>1, <1>4

\* onErr: the frame that runs stays behind, and a new one may be on top.
LEMMA OnErr ==
  ASSUME IconInv, running, running' = running, UNCHANGED <<receiver, opened, last>>,
         NEW line \in {"read", "return"}, Icon!onErr(line)
  PROVE  IconInv'
<1> DEFINE f == [Icon!top EXCEPT !.at = line]
           g == Icon!Frame(last)
<1>0. IconTypeOK /\ Len(frames) \in Nat /\ last \in Nat
  BY TopIsFrame DEF IconInv, IconTypeOK
<1>1. f \in Frames /\ f.at = line /\ g \in Frames /\ g.at = "connect" /\ g.next = last
  BY <1>0, TopIsFrame DEF Frames, Icon!Frame, Places
<1>2. open' = {} /\ conns' = <<>>
  BY Closes DEF Icon!onErr
<1>3. [frames EXCEPT ![Len(frames)].at = line] = [frames EXCEPT ![Len(frames)] = f]
  BY DEF Icon!top
<1>4. CASE receiver = "btp2"
  <2>1. Replaces(f)
    BY <1>3, <1>4 DEF Icon!onErr, Replaces
  <2> HIDE DEF f
  <2> QED
    BY <1>0, <1>1, <1>2, <2>1, Replaced
       DEF IconInv, IconTypeOK, Icon!OneConnection, Icon!At, Reading
<1>5. CASE receiver # "btp2"
  <2>1. frames' = Append([frames EXCEPT ![Len(frames)] = f], g)
    BY <1>3, <1>5 DEF Icon!onErr, Icon!restartHeight
  <2> HIDE DEF f, g
  <2>2. frames' \in Seq(Frames) /\ Len(frames') = Len(frames) + 1 /\ Icon!top' = g
        /\ \A i \in 1 .. Len(frames) : frames'[i].at \in {"read", "return"}
    BY <1>0, <1>1, <2>1, Pushed DEF IconInv, IconTypeOK
  <2> QED
    BY <1>0, <1>1, <1>2, <2>2 DEF IconInv, IconTypeOK, Icon!OneConnection, Icon!At, Reading
<1> QED
  BY <1>4, <1>5

\* Only the line of the frame that runs changes, and it does not begin to fetch.
LEMMA GoesTo ==
  ASSUME IconInv, running, UNCHANGED <<receiver, running, conns, open, opened, last>>,
         NEW line \in {"read", "return"}, Icon!Goto(line), Icon!top.at # "connect"
  PROVE  IconInv'
<1> DEFINE f == [Icon!top EXCEPT !.at = line]
<1>1. f \in Frames /\ f.at = line /\ f.id = Icon!top.id /\ f.addr = Icon!top.addr
      /\ f.next = Icon!top.next /\ IconTypeOK
  BY TopIsFrame DEF Frames, IconInv
<1>2. Replaces(f)
  BY DEF Icon!Goto, Icon!top, Replaces
<1> HIDE DEF f
<1> QED
  BY <1>1, <1>2, Replaced, ZenonT(60) DEF IconInv, IconTypeOK, Icon!OneConnection, Icon!At,
     Reading

LEMMA IconConnects == ASSUME IconInv, Icon!Connect PROVE IconInv'
<1>1. PICK a \in Addresses :
        /\ opened' = opened + 1
        /\ frames' = [frames EXCEPT ![Len(frames)].at = "request", ![Len(frames)].id = opened + 1,
                                    ![Len(frames)].addr = a]
        /\ conns' = Icon!With(conns, a, opened + 1)
        /\ open' = open \cup {opened + 1}
  BY ZenonT(60) DEF Icon!Connect
<1>2. running /\ Icon!top.at = "connect" /\ UNCHANGED <<receiver, running, last>>
  BY DEF Icon!Connect, Icon!At
<1>3. IconTypeOK /\ Icon!top \in Frames /\ open = {} /\ conns = <<>>
      /\ Icon!top.next \in {last, last + 1}
  BY <1>2, TopIsFrame DEF IconInv, Icon!OneConnection
<1> DEFINE f == [at |-> "request", id |-> opened + 1, addr |-> a,
                 next |-> Icon!top.next, retry |-> Icon!top.retry]
<1>4. f \in Frames /\ f.at = "request" /\ f.id = opened + 1 /\ f.addr = a /\ f.next = Icon!top.next
  BY <1>3 DEF Frames, Places, IconTypeOK
<1>5. Replaces(f)
  <2>1. DOMAIN frames = 1 .. Len(frames) /\ Len(frames) \in DOMAIN frames
    BY <1>3 DEF IconTypeOK
  <2>2. frames' = [frames EXCEPT ![Len(frames)] =
                     [Icon!top EXCEPT !.at = "request", !.id = opened + 1, !.addr = a]]
    BY <1>1, <2>1, ZenonT(60) DEF Icon!top
  <2>3. f = [Icon!top EXCEPT !.at = "request", !.id = opened + 1, !.addr = a]
    <3> DEFINE t == Icon!top
               t1 == [t EXCEPT !.at = "request"]
               t2 == [t1 EXCEPT !.id = opened + 1]
    <3>1. t1 = [at |-> "request", id |-> t.id, addr |-> t.addr, next |-> t.next, retry |-> t.retry]
      BY <1>3 DEF Frames
    <3> HIDE DEF t1
    <3>2. t2 = [at |-> "request", id |-> opened + 1, addr |-> t.addr, next |-> t.next, retry |-> t.retry]
      BY <3>1
    <3> HIDE DEF t2
    <3>3. [t2 EXCEPT !.addr = a] = f
      BY <3>2
    <3> QED
      BY <3>3 DEF t1, t2
  <2> QED
    BY <2>2, <2>3, ZenonT(60) DEF Replaces
<1>6. conns' = [b \in {a} |-> opened + 1] /\ open' = {opened + 1} /\ opened' = opened + 1
  BY <1>1, <1>3 DEF Icon!With
<1> HIDE DEF f
<1>7. /\ frames' \in Seq(Frames) /\ Len(frames') = Len(frames) /\ Icon!top' = f
      /\ \A i \in 1 .. Len(frames) - 1 : frames'[i] = frames[i]
  BY <1>3, <1>4, <1>5, Replaced
<1> QED
  BY <1>2, <1>3, <1>4, <1>6, <1>7 DEF IconInv, IconTypeOK, Icon!OneConnection, Icon!At, Reading

\* The frame on top is left, and its connection is closed.
LEMMA Leaves ==
  ASSUME IconInv, running, UNCHANGED <<receiver, opened, last>>, open' = {}, conns' = <<>>,
         IF Len(frames) = 1 THEN running' = FALSE /\ UNCHANGED frames
         ELSE frames' = SubSeq(frames, 1, Len(frames) - 1) /\ UNCHANGED running
  PROVE  IconInv'
<1>1. CASE Len(frames) = 1
  BY <1>1, ZenonT(60) DEF IconInv, IconTypeOK, Icon!OneConnection, Icon!At, Icon!top, Reading
<1>2. CASE Len(frames) # 1
  <2>1. /\ frames' \in Seq(Frames) /\ Len(frames') = Len(frames) - 1 /\ Len(frames') >= 1
        /\ Icon!top' = frames[Len(frames) - 1]
        /\ \A i \in 1 .. Len(frames) - 1 : frames'[i] = frames[i]
    BY <1>2, Popped DEF IconInv
  <2>2. frames[Len(frames) - 1].at \in {"read", "return"} /\ Len(frames) \in Nat
    BY <2>1 DEF IconInv, IconTypeOK
  <2> QED
    BY <1>2, <2>1, <2>2 DEF IconInv, IconTypeOK, Icon!OneConnection, Icon!At, Reading
<1> QED
  BY <1>1, <1>2

\* The callback is done with the block, or asks again.
LEMMA IconFetches == ASSUME IconInv, Icon!getBTPMessage PROVE IconInv'
<1>0. running /\ Icon!top.at = "fetch" /\ UNCHANGED <<receiver, opened>>
  BY DEF Icon!getBTPMessage, Icon!At
<1>1. PICK e : Icon!Handle(e)
  BY DEF Icon!getBTPMessage
<1>2. IconTypeOK /\ Icon!top \in Frames /\ Reading /\ Icon!top.next \in {last, last + 1}
  BY <1>0, TopIsFrame DEF IconInv, Icon!OneConnection, Icon!At, Reading
<1>3. CASE running' = FALSE /\ UNCHANGED <<frames, conns, open, last>>
  BY <1>0, <1>3, ZenonT(60) DEF IconInv, IconTypeOK, Icon!OneConnection, Icon!At, Icon!top,
     Reading
<1>4. CASE /\ last' = Icon!top.next
           /\ frames' = [frames EXCEPT ![Len(frames)].at = "read", ![Len(frames)].next = @ + 1]
           /\ UNCHANGED <<running, conns, open>>
  <2> DEFINE f == [at |-> "read", id |-> Icon!top.id, addr |-> Icon!top.addr,
                  next |-> Icon!top.next + 1, retry |-> Icon!top.retry]
  <2>1. f \in Frames /\ f.at = "read" /\ f.id = Icon!top.id /\ f.addr = Icon!top.addr
        /\ f.next = last' + 1 /\ last' \in Nat
    BY <1>2, <1>4 DEF Frames
  <2>2. Replaces(f)
    BY <1>2, <1>4, SMTT(60) DEF Replaces, Icon!top, IconTypeOK, Frames
  <2> HIDE DEF f
  <2> QED
    BY <1>0, <1>2, <1>4, <2>1, <2>2, Replaced, ZenonT(60) DEF IconInv, IconTypeOK,
       Icon!OneConnection, Icon!At, Reading
<1>5. CASE /\ Icon!top.retry > 0
           /\ frames' = [frames EXCEPT ![Len(frames)].retry = @ - 1]
           /\ UNCHANGED <<running, conns, open, last>>
  <2> DEFINE f == [Icon!top EXCEPT !.retry = @ - 1]
  <2>1. f \in Frames /\ f.at = "fetch" /\ f.id = Icon!top.id /\ f.addr = Icon!top.addr
        /\ f.next = Icon!top.next
    BY <1>0, <1>2, <1>5 DEF Frames
  <2>2. Replaces(f)
    BY <1>2, <1>5 DEF Replaces, Icon!top, IconTypeOK
  <2> HIDE DEF f
  <2> QED
    BY <1>0, <1>2, <1>5, <2>1, <2>2, Replaced, ZenonT(60) DEF IconInv, IconTypeOK,
       Icon!OneConnection, Icon!At, Reading
<1>6. CASE Icon!onErr("read") /\ UNCHANGED <<running, last>>
  BY <1>0, <1>6, OnErr
<1>7. CASE UNCHANGED <<running, frames, conns, open, last>>
  BY <1>0, <1>7 DEF IconInv, IconTypeOK, Icon!OneConnection, Icon!At, Icon!top, Reading
<1> QED
  BY <1>1, <1>3, <1>4, <1>5, <1>6, <1>7, ZenonT(60) DEF Icon!Handle

LEMMA IconStep == ASSUME IconInv, [Next]_vars PROVE IconInv'
<1>1. CASE Icon!Connect
  BY <1>1, IconConnects
<1>2. CASE Icon!ConnectNot
  BY <1>2, Leaves, ZenonT(60) DEF Icon!ConnectNot, Icon!At, IconInv, Icon!OneConnection
<1>3. CASE Icon!ConnectPanics
  BY <1>3, ZenonT(60) DEF Icon!ConnectPanics, IconInv, IconTypeOK, Icon!OneConnection,
     Icon!At, Icon!top, Reading
<1>4. CASE Icon!wsRequest
  BY <1>4, GoesTo DEF Icon!wsRequest, Icon!At
<1>5. CASE Icon!ReadNot
  BY <1>5, GoesTo DEF Icon!ReadNot, Icon!At
<1>6. CASE Icon!wsRead
  <2> DEFINE f == [Icon!top EXCEPT !.at = "fetch", !.retry = BlockRetryLimit]
  <2>1. f \in Frames /\ f.at = "fetch" /\ f.id = Icon!top.id /\ f.addr = Icon!top.addr
        /\ f.next = Icon!top.next /\ IconTypeOK
    BY TopIsFrame, ZenonT(60) DEF Frames, IconInv, Icon!IconMonitorAssumption
  <2>2. Replaces(f)
    BY <1>6, <2>1, ZenonT(60) DEF Icon!wsRead, Icon!top, Replaces, IconTypeOK
  <2>3. running /\ Icon!top.id \in open /\ UNCHANGED <<receiver, running, conns, open, opened, last>>
    BY <1>6 DEF Icon!wsRead, Icon!At
  <2> HIDE DEF f
  <2> QED
    BY <2>1, <2>2, <2>3, Replaced, ZenonT(60) DEF IconInv, IconTypeOK, Icon!OneConnection,
       Icon!At, Reading
<1>7. CASE Icon!wsReadFails
  BY <1>7, OnErr DEF Icon!wsReadFails, Icon!At
<1>8. CASE Icon!wsReadCloses
  BY <1>8, GoesTo DEF Icon!wsReadCloses, Icon!At
<1>9. CASE Icon!Return
  <2>1. running /\ open' = {} /\ conns' = <<>>
    BY <1>9, Closes DEF Icon!Return, Icon!At
  <2> QED
    BY <1>9, <2>1, Leaves, ZenonT(60) DEF Icon!Return
<1>10. CASE Icon!getBTPMessage
  BY <1>10, IconFetches
<1>11. CASE Icon!CallbackFails
  BY <1>11, OnErr DEF Icon!CallbackFails, Icon!At
<1>12. CASE UNCHANGED iconVars
  BY <1>12 DEF iconVars, IconInv, IconTypeOK, Icon!OneConnection, Icon!At, Icon!top, Reading
<1>13. ASSUME Next PROVE Icon!Next \/ UNCHANGED iconVars
  BY <1>13 DEF Next, RelayOnly, EthOnly, ErrorsOnly
<1> QED
  BY <1>1, <1>2, <1>3, <1>4, <1>5, <1>6, <1>7, <1>8, <1>9, <1>10, <1>11, <1>12, <1>13
     DEF Icon!Next, vars

\* However often the bridge connects again, and whichever addresses the system
\* gives out, the ICON client has at most one connection, which it finds under
\* its address (CloseMonitor, wsConnect and the deferred wsClose).
THEOREM Connected == Spec => []OneConnection
<1>1. IconInv => OneConnection
  BY DEF IconInv, OneConnection
<1> QED
  BY <1>1, IconInit, IconStep, PTL DEF Spec

-----------------------------------------------------------------------------
(***************************************************************************)
(* MonitorBlock of the Ethereum client.                                    *)
(***************************************************************************)
EthTypeOK ==
  /\ endpoint \in {"http", "ws", "plain"}
  /\ ethAt \in {"start", "header", "catch", "block", "ended"}
  /\ height \in Nat /\ current \in Nat /\ h \in Nat /\ ethLast \in Nat /\ failures \in Nat
  /\ closed \in BOOLEAN

(* Where MonitorBlock is in its blocks: before the first header, catching up *)
(* with it, or at the block of a header, the one after the last or, when the *)
(* chain is still below the height asked for, the block before it.           *)
InStep ==
  /\ height >= From - 1
  /\ h = 0 => ethLast = From - 1
  /\ ethAt = "start" => h = 0
  /\ (ethAt = "header" /\ ~closed) => IF h = 0 THEN current >= From - 1 ELSE current = ethLast + 1
  /\ ethAt = "catch" => h = ethLast + 1 /\ h < current
  /\ ethAt = "block" => h # 0 /\ current \in {ethLast, ethLast + 1}

EthInv == EthTypeOK /\ (InStep \/ (endpoint = "http" /\ failures > 0))

LEMMA EthInit == Init => EthInv
<1> SUFFICES ASSUME Init PROVE EthInv
  OBVIOUS
<1>1. From \in Nat \ {0} /\ MaxHeight \in Nat
  BY DEF Eth!EthMonitorAssumption
<1>2. /\ endpoint \in {"http", "ws", "plain"} /\ height \in From - 1 .. MaxHeight /\ ethAt = "start"
      /\ current = 0 /\ h = 0 /\ closed = FALSE /\ ethLast = From - 1 /\ failures = 0
  BY DEF Init, Eth!Init
<1>3. From - 1 \in Nat /\ height \in Nat /\ height >= From - 1
  BY <1>1, <1>2
<1>4. EthTypeOK
  BY <1>2, <1>3, ZenonT(60) DEF EthTypeOK
<1>5. InStep
  BY <1>2, <1>3 DEF InStep
<1> QED
  BY <1>4, <1>5 DEF EthInv

LEMMA EthStep ==
  ASSUME EthInv, [Next]_vars
  PROVE  EthInv' /\ (Eth!FollowsOn \/ UNCHANGED ethVars)
<1> USE DEF EthInv, EthTypeOK, InStep, Eth!EthMonitorAssumption, Eth!FollowsOn
<1>1. CASE Eth!NewBlock
  BY <1>1 DEF Eth!NewBlock
<1>2. CASE Eth!Start
  BY <1>2 DEF Eth!Start
<1>3. CASE Eth!MonitorEnds
  BY <1>3 DEF Eth!MonitorEnds
<1>4. CASE Eth!Header
  BY <1>4 DEF Eth!Header
<1>5. CASE Eth!CatchUp
  BY <1>5 DEF Eth!CatchUp
<1>6. CASE Eth!Block
  BY <1>6, SMTT(60) DEF Eth!Block, Eth!Advance
<1>7. CASE Eth!CallbackFails
  <2>1. /\ closed' = (endpoint = "plain") /\ failures' = failures + 1
        /\ UNCHANGED <<endpoint, height, h, ethLast>>
        /\ ethAt \in {"catch", "block"}
    BY <1>7 DEF Eth!CallbackFails
  <2>2. closed' \in BOOLEAN
    BY <2>1
  <2>3. closed' <=> (endpoint = "plain")
    BY <2>1, ZenonT(60)
  <2>4. CASE Eth!Polls /\ ethAt' = "header" /\ current' = current + 1
    BY ONLY <2>1, <2>2, <2>3, <2>4, EthInv DEF Eth!Polls
  <2>5. CASE ethAt' = "ended" /\ current' = current
    BY ONLY <2>1, <2>2, <2>5, EthInv
  <2> QED
    BY <1>7, <2>4, <2>5, SMTT(60) DEF Eth!CallbackFails, Eth!Advance
<1>8. CASE UNCHANGED ethVars
  BY <1>8 DEF ethVars
<1>9. ASSUME Next PROVE Eth!Next \/ UNCHANGED ethVars
  BY <1>9 DEF Next, RelayOnly, IconOnly, ErrorsOnly
<1> QED
  BY <1>1, <1>2, <1>3, <1>4, <1>5, <1>6, <1>7, <1>8, <1>9 DEF Eth!Next, vars

\* No block is left out of what the receivers are told of: neither by a monitor of
\* the ICON client that takes over from another one, nor by MonitorBlock of the
\* Ethereum client between catching up and following the heads; over http it may
\* be after a callback that failed.
THEOREM BlocksFollow == Spec => NoBlockSkipped
<1>1. ASSUME IconInv, [Next]_vars PROVE last' \in {last, last + 1}
  <2>1. CASE Icon!getBTPMessage
    <3>1. running /\ Icon!top.at = "fetch" /\ \E e : Icon!Handle(e)
      BY <2>1 DEF Icon!getBTPMessage, Icon!At
    <3>2. last' \in {last, Icon!top.next}
      BY <3>1, ZenonT(60) DEF Icon!Handle
    <3> QED
      BY <1>1, <3>1, <3>2 DEF IconInv, Icon!OneConnection, Icon!At, Reading
  <2>2. ASSUME ~Icon!getBTPMessage PROVE last' = last
    BY <1>1, <2>2 DEF Next, Icon!Next, Icon!Connect, Icon!ConnectNot, Icon!ConnectPanics,
       Icon!wsRequest,
       Icon!ReadNot, Icon!wsRead, Icon!wsReadFails, Icon!wsReadCloses, Icon!Return, Icon!CallbackFails,
       RelayOnly, EthOnly, ErrorsOnly, iconVars, vars
  <2> QED
    BY <2>1, <2>2, SMTT(60)
<1>2. ASSUME EthInv, [Next]_vars PROVE Eth!FollowsOn
  <2>1. CASE UNCHANGED ethVars
    BY <2>1 DEF ethVars, Eth!FollowsOn
  <2> QED
    BY <1>2, <2>1, EthStep
<1>3. IconInv /\ EthInv /\ [Next]_vars => [Icon!FollowsOn /\ Eth!FollowsOn]_vars
  BY <1>1, <1>2 DEF Icon!FollowsOn
<1>4. IconInv /\ EthInv /\ [Next]_vars => IconInv' /\ EthInv'
  BY IconStep, EthStep
<1> QED
  BY <1>3, <1>4, IconInit, EthInit, PTL DEF Spec, NoBlockSkipped

-----------------------------------------------------------------------------
(***************************************************************************)
(* How a relay starts.                                                     *)
(***************************************************************************)
Doing == {"none", "run", "error"}
Links == [receiver : [at : Networks, dst : Networks], sender : [at : Networks, src : Networks],
          dir : {<<>>} \cup {<<n>> : n \in Networks}, monitor : Doing, recv : Doing, send : Doing]

\* The links that NewRelay makes, as pairs of chains.
Pairs == Relay!DirectionLinks(cfg.direction, cfg.src, cfg.dst)

Configs == [direction : Relay!Directions, src : Relay!Chains, dst : Relay!Chains]

RelayTypeOK ==
  /\ cfg \in Configs
  /\ todo \in Seq(Relay!Chains \X Relay!Chains)
  /\ links \in Seq(Links)
  /\ at \in Nat \ {0}

\* Link l is between the chains of the pair.
Joins(l, pair) ==
  /\ l.receiver.at = pair[1].net /\ l.receiver.dst = pair[2].net
  /\ l.sender.at = pair[2].net /\ l.sender.src = pair[1].net
  /\ l.dir = Relay!DirOf(pair[1])

(* The links made and those still to be made are those of the configuration, *)
(* in its order: a link that fails is not left out.                          *)
RelayInv ==
  /\ RelayTypeOK
  /\ Len(links) <= Len(Pairs)
  /\ \A i \in 1 .. Len(links) : Joins(links[i], Pairs[i])
  /\ main = "new" => /\ Len(links) + Len(todo) = Len(Pairs)
                     /\ \A j \in 1 .. Len(todo) : todo[j] = Pairs[Len(links) + j]
  /\ main \notin {"new", "refused", "exited"} => Len(links) = Len(Pairs)
  /\ main = "status" => at <= Len(links)
  /\ Relay!RefusalExplained

\* What the cases of NewRelay and what a reader of the configuration expects agree.
LEMMA PairsAsked ==
  ASSUME cfg \in Configs
  PROVE  /\ Pairs \in Seq(Relay!Chains \X Relay!Chains) /\ Len(Pairs) \in {0, 1, 2}
         /\ Relay!Asked = {<<Pairs[i][1].net, Pairs[i][2].net>> : i \in 1 .. Len(Pairs)}
         /\ \A i \in 1 .. Len(Pairs) : Pairs[i] \in {<<cfg.src, cfg.dst>>, <<cfg.dst, cfg.src>>}
         /\ Len(Pairs) = 2 => Pairs[1] = <<cfg.src, cfg.dst>> /\ Pairs[2] = <<cfg.dst, cfg.src>>
<1> DEFINE f == <<cfg.src, cfg.dst>>
           r == <<cfg.dst, cfg.src>>
<1>0. f \in Relay!Chains \X Relay!Chains /\ r \in Relay!Chains \X Relay!Chains
      /\ cfg.direction \in {"both", "front", "reverse", "sideways"}
  BY DEF Configs, Relay!Directions
<1>1. CASE cfg.direction = "front"
  <2>1. Pairs = <<f>> /\ Relay!Asked = {<<cfg.src.net, cfg.dst.net>>}
    BY <1>1, SMTT(60) DEF Pairs, Relay!DirectionLinks, Relay!Asked
  <2> QED
    BY <1>0, <2>1
<1>2. CASE cfg.direction = "reverse"
  <2>1. Pairs = <<r>> /\ Relay!Asked = {<<cfg.dst.net, cfg.src.net>>}
    BY <1>2, SMTT(60) DEF Pairs, Relay!DirectionLinks, Relay!Asked
  <2> QED
    BY <1>0, <2>1
<1>3. CASE cfg.direction = "both"
  <2>1. Pairs = <<f, r>> /\ Relay!Asked = {<<cfg.src.net, cfg.dst.net>>, <<cfg.dst.net, cfg.src.net>>}
    BY <1>3 DEF Pairs, Relay!DirectionLinks, Relay!Asked
  <2>2. Len(Pairs) = 2 /\ Pairs[1] = f /\ Pairs[2] = r /\ Pairs \in Seq(Relay!Chains \X Relay!Chains)
    BY <1>0, <2>1
  <2> QED
    BY <2>1, <2>2
<1>4. CASE cfg.direction = "sideways"
  <2>1. Pairs = <<>> /\ Relay!Asked = {}
    BY <1>4 DEF Pairs, Relay!DirectionLinks, Relay!Asked
  <2> QED
    BY <2>1
<1> QED
  BY <1>0, <1>1, <1>2, <1>3, <1>4, SMTT(60)

LEMMA RelayInit == Init => RelayInv
<1> SUFFICES ASSUME Init PROVE RelayInv
  OBVIOUS
<1>1. cfg \in Configs /\ todo = Pairs /\ links = <<>> /\ at = 1 /\ main = "new"
  BY DEF Init, Relay!Init, Pairs, Configs
<1>2. Pairs \in Seq(Relay!Chains \X Relay!Chains)
  BY <1>1, PairsAsked
<1>3. links \in Seq(Links) /\ Len(links) = 0
  BY <1>1, SMTT(60)
<1> QED
  BY <1>1, <1>2, <1>3 DEF RelayInv, RelayTypeOK, Relay!RefusalExplained

\* The links go on being what they were made for.
Keeps ==
  /\ links' \in Seq(Links) /\ Len(links') = Len(links)
  /\ \A i \in 1 .. Len(links) : /\ links'[i].receiver = links[i].receiver
                                /\ links'[i].sender = links[i].sender
                                /\ links'[i].dir = links[i].dir

LEMMA RelayKeeps ==
  ASSUME RelayInv, Keeps, UNCHANGED <<cfg, busy, todo>>, at' \in Nat \ {0},
         main' = main \/ (main \notin {"new", "refused", "exited"} /\ main' \notin {"new", "refused", "exited"}),
         main' = "status" => at' <= Len(links)
  PROVE  RelayInv'
<1>1. Pairs' = Pairs /\ Relay!RefusalExplained'
  BY SMTT(60) DEF Pairs, RelayInv, Relay!RefusalExplained, Relay!Asked
<1>2. \A i \in 1 .. Len(links') : Joins(links'[i], Pairs[i])
  BY <1>1, SMTT(60) DEF RelayInv, Keeps, Joins
<1>3. RelayTypeOK'
  BY DEF RelayInv, RelayTypeOK, Keeps
<1> QED
  BY <1>1, <1>2, <1>3 DEF RelayInv, Keeps

\* A goroutine of link i, or its monitor, does something else.
Goes(r, s) ==
  /\ s \in Links
  /\ s.receiver = r.receiver /\ s.sender = r.sender /\ s.dir = r.dir

LEMMA GoesOn ==
  ASSUME NEW r \in Links, NEW x \in Doing
  PROVE  Goes(r, [r EXCEPT !.monitor = x]) /\ Goes(r, [r EXCEPT !.recv = x]) /\ Goes(r, [r EXCEPT !.send = x])
BY DEF Goes, Links

LEMMA Does ==
  ASSUME RelayTypeOK, NEW i \in DOMAIN links, NEW s, Goes(links[i], s), links' = [links EXCEPT ![i] = s]
  PROVE  Keeps
BY DEF RelayTypeOK, Keeps, Goes

LEMMA LinkIsOne == ASSUME RelayTypeOK, NEW i \in DOMAIN links PROVE links[i] \in Links
BY DEF RelayTypeOK

\* NewRelay makes the next link, finds that it cannot be made, or is done.
LEMMA RelayMakes == ASSUME RelayInv, Relay!NewRelay PROVE RelayInv'
<1> DEFINE n == Len(links)
<1>0. /\ main = "new" /\ UNCHANGED <<cfg, busy, at>> /\ cfg \in Configs
      /\ links \in Seq(Links) /\ todo \in Seq(Relay!Chains \X Relay!Chains) /\ n \in Nat
      /\ at \in Nat \ {0}
  BY DEF Relay!NewRelay, RelayInv, RelayTypeOK
<1>1. Pairs' = Pairs /\ n + Len(todo) = Len(Pairs) /\ Relay!Asked' = Relay!Asked
      /\ \A j \in 1 .. Len(todo) : todo[j] = Pairs[n + j]
  BY <1>0, SMTT(60) DEF Pairs, RelayInv, Relay!Asked
<1>2. CASE todo = <<>>
  <2>1. main' = "start" /\ UNCHANGED <<todo, links>> /\ Len(todo) = 0
    BY <1>2, SMTT(60) DEF Relay!NewRelay
  <2>2. n = Len(Pairs) /\ Keeps
    BY <1>0, <1>1, <2>1, SMTT(60) DEF Keeps
  <2>3. RelayTypeOK' /\ Relay!RefusalExplained'
    BY <1>0, <2>1, SMTT(60) DEF RelayTypeOK, Relay!RefusalExplained
  <2> QED
    BY <1>0, <1>1, <2>1, <2>2, <2>3, SMTT(60) DEF RelayInv, Joins
<1>3. CASE todo # <<>>
  <2> DEFINE src == todo[1][1]
             dst == todo[1][2]
             new == Relay!newLinkFactory(src, dst)
  <2>1. /\ todo' = Tail(todo) /\ Len(todo) \in Nat \ {0} /\ n + 1 <= Len(Pairs)
        /\ todo[1] = Pairs[n + 1] /\ todo[1] \in Relay!Chains \X Relay!Chains
    BY <1>0, <1>1, <1>3, SMTT(60) DEF Relay!NewRelay
  <2>2. src \in Relay!Chains /\ dst \in Relay!Chains
    BY <2>1, SMTT(60)
  <2>3. todo' \in Seq(Relay!Chains \X Relay!Chains) /\ Len(todo') = Len(todo) - 1
        /\ \A j \in 1 .. Len(todo') : todo'[j] = todo[j + 1]
    BY <1>0, <1>3, <2>1, SMTT(60)
  <2>4. CASE links' = Append(links, new) /\ main' = main
    <3>1. new \in Links
      BY <2>2, ZenonT(60) DEF Links, Relay!newLinkFactory, Relay!DirOf, Relay!dbDir,
         Relay!Chains, Doing
    <3> HIDE DEF new
    <3>2. links' \in Seq(Links) /\ Len(links') = n + 1 /\ links'[n + 1] = new
          /\ \A i \in 1 .. n : links'[i] = links[i]
      BY <1>0, <2>4, <3>1, AppendProperties, SMTT(60)
    <3>3. Joins(links'[n + 1], Pairs[n + 1])
      BY <2>1, <3>2, SMTT(60) DEF Joins, new, Relay!newLinkFactory
    <3>4. \A i \in 1 .. n : Joins(links'[i], Pairs[i])
      BY <1>1, <3>2, SMTT(60) DEF RelayInv, Joins
    <3>5. \A i \in 1 .. n + 1 : Joins(links'[i], Pairs[i])
      <4> SUFFICES ASSUME NEW i \in 1 .. n + 1 PROVE Joins(links'[i], Pairs[i])
        OBVIOUS
      <4>1. i \in 1 .. n \/ i = n + 1
        BY <1>0, SMTT(60)
      <4> QED
        BY <3>3, <3>4, <4>1, SMTT(60)
    <3>6. RelayTypeOK' /\ Relay!RefusalExplained'
      BY <1>0, <2>3, <2>4, <3>2, SMTT(60) DEF RelayTypeOK, Relay!RefusalExplained
    <3>7. \A j \in 1 .. Len(todo') : todo'[j] = Pairs[Len(links') + j]
      BY <1>0, <1>1, <2>3, <3>2, SMTT(60)
    <3> QED
      BY <1>0, <1>1, <2>1, <2>3, <2>4, <3>2, <3>5, <3>6, <3>7, SMTT(60) DEF RelayInv
  <2>5. CASE /\ Relay!CreateLinkFails(src, dst) \/ Relay!CreateSenderFails(src, dst)
             /\ main' = "refused" /\ UNCHANGED links
    <3>1. Relay!RefusalExplained'
      <4> SUFFICES ASSUME cfg.src.net # cfg.dst.net
                   PROVE  \/ Relay!Bad(cfg.src) \/ Relay!Bad(cfg.dst)
                          \/ \E d \in Relay!Asked :
                                \/ d[1] \in busy
                                \/ ~(IF d[2] = cfg.dst.net THEN cfg.dst ELSE cfg.src).wallet
        BY <1>0, <1>1, <2>5, SMTT(60) DEF Relay!RefusalExplained, Relay!Bad
      <4>1. <<src.net, dst.net>> \in Relay!Asked
        BY <1>0, <2>1, PairsAsked, SMTT(60)
      <4>2. <<src, dst>> \in {<<cfg.src, cfg.dst>>, <<cfg.dst, cfg.src>>}
        BY <1>0, <2>1, PairsAsked, SMTT(60)
      <4>3. CASE Relay!CreateSenderFails(src, dst)
        BY <4>1, <4>2, <4>3, ZenonT(60) DEF Relay!CreateSenderFails, Relay!Bad,
           Relay!factories, Relay!Types
      <4>4. CASE src.type = "" \/ Relay!Bad(src)
        BY <4>2, <4>4, ZenonT(60) DEF Relay!Bad, Relay!factories, Relay!Types
      <4>5. CASE Relay!DirOf(src) # <<>> /\ Relay!DirOf(src)[1] \in busy
        BY <4>1, <4>5, SMTT(60) DEF Relay!DirOf, Relay!dbDir
      <4>6. CASE Relay!DirOf(src) # <<>> /\ Relay!DirOf(src) \in Relay!Opened
        <5>1. PICK i \in DOMAIN links : links[i].dir = Relay!DirOf(src)
          BY <4>6, SMTT(60) DEF Relay!Opened
        <5>2. i \in 1 .. n
          BY <1>0, <5>1, SMTT(60)
        <5>8. links[i].dir = Relay!DirOf(Pairs[i][1])
          BY <5>2, SMTT(60) DEF RelayInv, Joins
        <5>3. i = 1 /\ n = 1 /\ Len(Pairs) = 2
          <6>1. Len(Pairs) \in {0, 1, 2} /\ n + 1 <= Len(Pairs) /\ i \in 1 .. n /\ n \in Nat
            BY <1>0, <2>1, <5>2, PairsAsked
          <6>2. \A a, b \in Nat : \A c \in {0, 1, 2} :
                  (b + 1 <= c /\ 1 <= a /\ a <= b) => (a = 1 /\ b = 1 /\ c = 2)
            OBVIOUS
          <6>3. i \in Nat /\ 1 <= i /\ i <= n
            BY <6>1, SMTT(60)
          <6> QED
            BY <6>1, <6>2, <6>3, ZenonT(60)
        <5>4. src = cfg.dst /\ Pairs[1][1] = cfg.src
          BY <1>0, <2>1, <5>3, PairsAsked, SMTT(60)
        <5>5. Relay!DirOf(cfg.dst) = Relay!DirOf(cfg.src)
          BY <5>1, <5>8, <5>3, <5>4, ZenonT(60)
        <5>6. Relay!DirOf(cfg.dst) = <<cfg.dst.net>>
          BY <4>6, <5>4 DEF Relay!DirOf, Relay!dbDir
        <5>7. Relay!DirOf(cfg.src) = <<cfg.src.net>>
          BY <4>6, <5>4, <5>5, SMTT(60) DEF Relay!DirOf, Relay!dbDir
        <5>9. <<cfg.dst.net>> = <<cfg.src.net>>
          BY <5>5, <5>6, <5>7, ZenonT(60)
        <5> QED
          BY <5>9, SMTT(60)
      <4> QED
        BY <2>5, <4>3, <4>4, <4>5, <4>6, ZenonT(60) DEF Relay!CreateLinkFails
    <3>2. RelayTypeOK'
      BY <1>0, <2>3, <2>5 DEF RelayTypeOK
    <3> QED
      BY <1>0, <1>1, <2>1, <2>5, <3>1, <3>2, SMTT(60) DEF RelayInv, Joins
  <2> QED
    BY <1>3, <2>4, <2>5, SMTT(60) DEF Relay!NewRelay
<1> QED
  BY <1>2, <1>3

\* NewClient ends the process.
LEMMA RelayExits == ASSUME RelayInv, Relay!DialFails PROVE RelayInv'
<1> DEFINE n == Len(links)
<1>1. /\ main = "new" /\ main' = "exited" /\ UNCHANGED <<cfg, busy, todo, links, at>> /\ cfg \in Configs
      /\ links \in Seq(Links) /\ todo \in Seq(Relay!Chains \X Relay!Chains) /\ n \in Nat
      /\ todo # <<>> /\ "eth-bridge" \in {todo[1][1].type, todo[1][2].type}
  BY DEF Relay!DialFails, RelayInv, RelayTypeOK
<1>2. Pairs' = Pairs /\ Relay!Asked' = Relay!Asked
  BY <1>1, SMTT(60) DEF Pairs, Relay!Asked
<1>3. Len(todo) \in Nat \ {0} /\ todo[1] = Pairs[n + 1] /\ n + 1 \in 1 .. Len(Pairs)
  BY <1>1, SMTT(60) DEF RelayInv
<1>4. Relay!RefusalExplained'
  <2>1. todo[1] \in {<<cfg.src, cfg.dst>>, <<cfg.dst, cfg.src>>}
    BY <1>1, <1>3, PairsAsked, SMTT(60)
  <2>2. "eth-bridge" \in {cfg.src.type, cfg.dst.type}
    BY <1>1, <2>1, SMTT(60)
  <2>3. <<todo[1][1].net, todo[1][2].net>> \in Relay!Asked
    BY <1>1, <1>3, PairsAsked, SMTT(60)
  <2> QED
    BY <1>1, <1>2, <2>2, <2>3, SMTT(60) DEF Relay!RefusalExplained
<1> QED
  BY <1>1, <1>2, <1>4, SMTT(60) DEF RelayInv, RelayTypeOK, Joins

LEMMA RelayStep == ASSUME RelayInv, [Next]_vars PROVE RelayInv'
<1>0. RelayTypeOK /\ at \in Nat \ {0} /\ Doing = {"none", "run", "error"} /\ DOMAIN links = 1 .. Len(links)
  BY DEF RelayInv, RelayTypeOK, Doing
<1>1. CASE Relay!NewRelay
  BY <1>1, RelayMakes, SMTT(60)
<1>2. CASE Relay!StartSender
  <2>1. CASE at <= Len(links)
    <3> DEFINE s == [links[at] EXCEPT !.send = "run"]
    <3>1. at \in DOMAIN links
      BY <1>0, <2>1 DEF RelayTypeOK
    <3>2. links' = [links EXCEPT ![at] = s]
      BY <1>2, <2>1, SMTT(60) DEF Relay!StartSender
    <3>3. Goes(links[at], s)
      BY <1>0, <3>1, LinkIsOne, GoesOn, ZenonT(60)
    <3> HIDE DEF s
    <3>4. Keeps
      BY <1>0, <3>1, <3>2, <3>3, Does, ZenonT(60)
    <3> QED
      BY <1>0, <1>2, <2>1, <3>4, RelayKeeps, SMTT(60) DEF Relay!StartSender
  <2>2. CASE ~(at <= Len(links))
    <3>1. Keeps
      BY <1>0, <1>2, <2>2 DEF Relay!StartSender, Keeps, RelayTypeOK
    <3> QED
      BY <1>0, <1>2, <2>2, <3>1, RelayKeeps, SMTT(60) DEF Relay!StartSender, RelayTypeOK
  <2> QED
    BY <2>1, <2>2
<1>3. CASE Relay!StartReceiver
  <2> DEFINE r == [links[at] EXCEPT !.monitor = "run"]
             s == [r EXCEPT !.recv = "run"]
  <2>1. at \in DOMAIN links
    BY <1>0, <1>3 DEF Relay!StartReceiver, RelayTypeOK, RelayInv
  <2>2. links' = [links EXCEPT ![at] = s]
    BY <1>3, <2>1, ZenonT(60) DEF Relay!StartReceiver
  <2>3. Goes(links[at], r)
    BY <1>0, <2>1, LinkIsOne, GoesOn, ZenonT(60)
  <2> HIDE DEF r
  <2>4. Goes(r, s)
    BY <1>0, <2>3, GoesOn, ZenonT(60) DEF Goes
  <2> HIDE DEF s
  <2>5. Goes(links[at], s)
    BY <2>3, <2>4 DEF Goes
  <2>6. Keeps
    BY <1>0, <2>1, <2>2, <2>5, Does, ZenonT(60)
  <2> QED
    BY <1>0, <1>3, <2>6, RelayKeeps, SMTT(60) DEF Relay!StartReceiver
<1>4. CASE UNCHANGED <<cfg, busy, todo, links, at>>
           /\ (main' = main \/ (main \notin {"new", "refused", "exited"} /\ main' \notin {"new", "refused", "exited", "status"}))
  BY <1>0, <1>4, RelayKeeps DEF Keeps, RelayTypeOK, RelayInv
<1>10. CASE Relay!DialFails
  BY <1>10, RelayExits
<1>5. ASSUME NEW i \in DOMAIN links, Relay!MonitorEnds(i) PROVE RelayInv'
  <2> DEFINE s == [links[i] EXCEPT !.monitor = "error"]
  <2>1. links' = [links EXCEPT ![i] = s]
    BY <1>5 DEF Relay!MonitorEnds
  <2>2. Goes(links[i], s)
    BY <1>0, LinkIsOne, GoesOn, ZenonT(60)
  <2> HIDE DEF s
  <2>3. Keeps
    BY <1>0, <2>1, <2>2, Does, ZenonT(60)
  <2> QED
    BY <1>0, <1>5, <2>3, RelayKeeps, SMTT(60) DEF Relay!MonitorEnds, RelayInv
<1>6. ASSUME NEW i \in DOMAIN links, Relay!ReceiverError(i) PROVE RelayInv'
  <2> DEFINE r == [links[i] EXCEPT !.monitor = "none"]
             s == [r EXCEPT !.recv = "error"]
  <2>1. links' = [links EXCEPT ![i] = s]
    BY <1>6, ZenonT(60) DEF Relay!ReceiverError
  <2>2. Goes(links[i], r)
    BY <1>0, LinkIsOne, GoesOn, ZenonT(60)
  <2> HIDE DEF r
  <2>3. Goes(r, s)
    BY <1>0, <2>2, GoesOn, ZenonT(60) DEF Goes
  <2> HIDE DEF s
  <2>4. Goes(links[i], s)
    BY <2>2, <2>3 DEF Goes
  <2>5. Keeps
    BY <1>0, <2>1, <2>4, Does, ZenonT(60)
  <2> QED
    BY <1>0, <1>6, <2>5, RelayKeeps, SMTT(60) DEF Relay!ReceiverError, RelayInv
<1>7. ASSUME NEW i \in DOMAIN links, NEW g \in {"recv", "send"}, Relay!HandlingFails(i, g) PROVE RelayInv'
  <2> DEFINE s == [links[i] EXCEPT ![g] = "error"]
  <2>1. links' = [links EXCEPT ![i] = s]
    BY <1>7 DEF Relay!HandlingFails
  <2>2. Goes(links[i], s)
    <3>1. CASE g = "recv"
      BY <1>0, <3>1, LinkIsOne, GoesOn, ZenonT(60)
    <3>2. CASE g = "send"
      BY <1>0, <3>2, LinkIsOne, GoesOn, ZenonT(60)
    <3> QED
      BY <3>1, <3>2
  <2> HIDE DEF s
  <2>3. Keeps
    BY <1>0, <2>1, <2>2, Does, ZenonT(60)
  <2> QED
    BY <1>0, <1>7, <2>3, RelayKeeps, ZenonT(60) DEF Relay!HandlingFails, RelayInv
<1>8. ASSUME Relay!StatusFails \/ (\E i \in DOMAIN links, g \in Relay!Goroutines : Relay!TakeError(i, g))
             \/ UNCHANGED relayVars
      PROVE  /\ UNCHANGED <<cfg, busy, todo, links, at>>
             /\ main' = main \/ (main \notin {"new", "refused", "exited"} /\ main' \notin {"new", "refused", "exited", "status"})
  BY <1>8 DEF Relay!StatusFails, Relay!TakeError, relayVars
<1>9. ASSUME Next PROVE Relay!Next \/ UNCHANGED relayVars
  BY <1>9 DEF Next, IconOnly, EthOnly, ErrorsOnly
<1> QED
  BY <1>1, <1>2, <1>3, <1>4, <1>5, <1>6, <1>7, <1>8, <1>9, <1>10
     DEF Relay!Next, Relay!Starting, Relay!Goroutines, vars

\* A relay that runs has exactly the links its configuration asks for, each with a
\* receiver and a sender between the right chains (NewRelay, CreateLink, CreateSender);
\* it is refused only for a reason in what it needs, never for its own other link, and
\* its process exits on the way up only for a client of an Ethereum chain (NewClient).
THEOREM Started == Spec => []StartedAsAsked
<1>1. RelayInv => StartedAsAsked
  <2> SUFFICES ASSUME RelayInv, main = "loop"
               PROVE  /\ {<<links[i].receiver.at, links[i].sender.at>> : i \in DOMAIN links} = Relay!Asked
                      /\ \A i \in DOMAIN links : /\ links[i].receiver.dst = links[i].sender.at
                                                 /\ links[i].sender.src = links[i].receiver.at
    BY DEF RelayInv, StartedAsAsked, Relay!RunsAsAsked
  <2>1. DOMAIN links = 1 .. Len(Pairs)
    BY DEF RelayInv, RelayTypeOK
  <2>2. \A i \in DOMAIN links : Joins(links[i], Pairs[i])
    BY <2>1, SMTT(60) DEF RelayInv
  <2>3. Relay!Asked = {<<Pairs[i][1].net, Pairs[i][2].net>> : i \in DOMAIN links}
    BY <2>1, PairsAsked DEF RelayInv, RelayTypeOK
  <2> QED
    BY <2>2, <2>3, SMTT(60) DEF Joins
<1> QED
  BY <1>1, RelayInit, RelayStep, PTL DEF Spec
=============================================================================
