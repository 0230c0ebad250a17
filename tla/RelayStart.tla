---------------------------- MODULE RelayStart -----------------------------
(***************************************************************************)
(* How a relay comes up and how it ends: NewRelay of common/relay makes a  *)
(* link and a sender for every direction with the factories that           *)
(* common/link/factory.go looks up, Start starts the links one after the   *)
(* other, and then waits for the first error that one of their goroutines  *)
(* sends.  What a link does in between is the subject of module Link; here *)
(* it may fail at any time.                                                *)
(***************************************************************************)
EXTENDS Naturals, Sequences, FiniteSets

CONSTANTS Networks

NetworksAssumption == Cardinality(Networks) >= 2

Directions == {"both", "front", "reverse", "sideways"}
Types == {"icon-btpblock", "icon-bridge", "eth-bridge"}

\* The factories that cmd/relay/main.go registers, and which of their receivers
\* open a database.
factories == Types
HasDatabase == {"icon-btpblock", "eth-bridge"}

\* The configuration of a chain: type, network, and whether its key store opens
\* with the password that resolvePassword finds.
Chains == [type : Types \cup {"", "solana"}, net : Networks, wallet : BOOLEAN]
SomeChain == CHOOSE c \in Chains : TRUE

VARIABLES cfg, busy, todo, links, at, main

(* cfg: direction and chains; busy: directories another process holds.      *)
(* todo: the links that NewRelay has yet to make, as pairs of chains.       *)
(* links: the links made, with the state of the receiver's monitor and of   *)
(* the two goroutines of the link: "none", "run", or "error" (what it wants *)
(* to tell).  at: the link Start is at.  main: NewRelay, Start, its loop.   *)
vars == <<cfg, busy, todo, links, at, main>>

Bad(c) == c.type \notin factories

\* Mutant: one directory for all.
dbDirShared(src) == CHOOSE n \in Networks : TRUE

\* prepareDatabase: the directory is named after the source.
dbDir(src) == src.net

Opened == {l.dir : l \in {links[i] : i \in DOMAIN links}} \ {<<>>}

\* CreateLink: the factory of the source's type makes the receiver, which opens its database.
DirOf(src) == IF src.type \in HasDatabase THEN <<dbDir(src)>> ELSE <<>>
CreateLinkFails(src, dst) ==
  \/ src.type = "" \/ Bad(src)
  \/ DirOf(src) # <<>> /\ (DirOf(src) \in Opened \/ DirOf(src)[1] \in busy)

\* CreateSender: the factory of the destination's type, with the destination's wallet.
CreateSenderFails(src, dst) == dst.type = "" \/ Bad(dst) \/ ~dst.wallet

\* What a receiver and a sender are made with: the receiver of the source is
\* given the destination's address, the sender of the destination the source's.
newLinkFactory(src, dst) ==
  [receiver |-> [at |-> src.net, dst |-> dst.net], sender |-> [at |-> dst.net, src |-> src.net],
   dir |-> DirOf(src), monitor |-> "none", recv |-> "none", send |-> "none"]

\* The cases of NewRelay.  Another direction than the three gives a relay without links.
DirectionLinks(d, src, dst) ==
  CASE d = "front" -> <<<<src, dst>>>> [] d = "reverse" -> <<<<dst, src>>>>
    [] d = "both" -> <<<<src, dst>>, <<dst, src>>>> [] OTHER -> <<>>

Init ==
  /\ cfg \in [direction : Directions, src : Chains, dst : Chains]
  /\ busy \in SUBSET Networks
  /\ todo = DirectionLinks(cfg.direction, cfg.src, cfg.dst)
  /\ links = <<>> /\ at = 1 /\ main = "new"

\* One newLinkFactory of NewRelay.
NewRelay ==
  /\ main = "new"
  /\ IF todo = <<>> THEN main' = "start" /\ UNCHANGED <<todo, links>>
     ELSE LET src == todo[1][1]
              dst == todo[1][2]
          IN  /\ todo' = Tail(todo)
              /\ IF CreateLinkFails(src, dst) \/ CreateSenderFails(src, dst)
                 THEN main' = "refused" /\ UNCHANGED links
                 ELSE links' = Append(links, newLinkFactory(src, dst)) /\ UNCHANGED main
  /\ UNCHANGED <<cfg, busy, at>>

\* NewClient of an Ethereum chain, with which its receiver begins and its sender
\* ends: when rpc.Dial fails, l.Fatal ends the process.
DialFails ==
  /\ main = "new" /\ todo # <<>> /\ main' = "exited"
  /\ LET src == todo[1][1]
         dst == todo[1][2]
     IN  \/ src.type = "eth-bridge"
         \/ dst.type = "eth-bridge" /\ ~CreateLinkFails(src, dst) /\ dst.wallet
  /\ UNCHANGED <<cfg, busy, todo, links, at>>

\* Link.Start until GetStatus: the goroutine for results runs.
StartSender ==
  /\ main = "start"
  /\ IF at <= Len(links) THEN main' = "status" /\ links' = [links EXCEPT ![at].send = "run"]
                         ELSE main' = "loop" /\ UNCHANGED links
  /\ UNCHANGED <<cfg, busy, todo, at>>

\* GetStatus answers, and the receiver is started.
StartReceiver ==
  /\ main = "status" /\ main' = "start" /\ at' = at + 1
  /\ links' = [links EXCEPT ![at].monitor = "run", ![at].recv = "run"]
  /\ UNCHANGED <<cfg, busy, todo>>

\* GetStatus fails, or the Start of an ICON receiver (getNetworkId, setStartHeight).
StatusFails ==
  /\ main = "status" /\ main' = "ended"
  /\ UNCHANGED <<cfg, busy, todo, links, at>>

Alive == main \notin {"refused", "exited", "ended"}

\* A receiver's monitoring returns, with an error or without one: it is sent to
\* the link, for which it is an error in both cases.
MonitorEnds(i) ==
  /\ Alive /\ links[i].monitor = "run" /\ links' = [links EXCEPT ![i].monitor = "error"]
  /\ UNCHANGED <<cfg, busy, todo, at, main>>

\* startReceiverChannel's goroutine takes it.  It can do so when it is not itself
\* waiting to send an error.
ReceiverError(i) ==
  /\ Alive /\ links[i].monitor = "error" /\ links[i].recv = "run"
  /\ links' = [links EXCEPT ![i].monitor = "none", ![i].recv = "error"]
  /\ UNCHANGED <<cfg, busy, todo, at, main>>

\* handleRelayMessage or result fails.
HandlingFails(i, g) ==
  /\ Alive /\ links[i][g] = "run" /\ links' = [links EXCEPT ![i][g] = "error"]
  /\ UNCHANGED <<cfg, busy, todo, at, main>>

\* Mutant: the loop goes on after an error.
TakeErrorGoesOn(i, g) ==
  /\ main = "loop" /\ links[i][g] = "error"
  /\ links' = [links EXCEPT ![i][g] = "run"]
  /\ UNCHANGED <<cfg, busy, todo, at, main>>

\* The loop of Relay.Start takes an error from linkErrCh, which has no buffer.
TakeError(i, g) ==
  /\ main = "loop" /\ links[i][g] = "error"
  /\ main' = "ended"
  /\ UNCHANGED <<cfg, busy, todo, links, at>>

Goroutines == {"recv", "send"}

Starting == NewRelay \/ DialFails \/ StartSender \/ StartReceiver \/ StatusFails

Next ==
  \/ Starting
  \/ \E i \in DOMAIN links : MonitorEnds(i) \/ ReceiverError(i)
  \/ \E i \in DOMAIN links, g \in Goroutines : HandlingFails(i, g) \/ TakeError(i, g)

Spec == Init /\ [][Next]_vars

\* What is fair: GetStatus returns, and Go runs every goroutine that can go on.
Proceeds ==
  \/ Starting
  \/ \E i \in DOMAIN links : ReceiverError(i) \/ \E g \in Goroutines : TakeError(i, g)

-----------------------------------------------------------------------------
Asked == CASE cfg.direction = "front" -> {<<cfg.src.net, cfg.dst.net>>}
           [] cfg.direction = "reverse" -> {<<cfg.dst.net, cfg.src.net>>}
           [] cfg.direction = "both" -> {<<cfg.src.net, cfg.dst.net>>, <<cfg.dst.net, cfg.src.net>>}
           [] OTHER -> {}

\* A relay that runs has exactly the directions its configuration asks for
\* (NewRelay), and in each the receiver collects messages for the chain its
\* sender submits to, and the sender reports the chain they are collected from
\* (the order of addresses through CreateLink, CreateSender and the factories).
RunsAsAsked ==
  main = "loop" =>
    /\ {<<links[i].receiver.at, links[i].sender.at>> : i \in DOMAIN links} = Asked
    /\ \A i \in DOMAIN links : /\ links[i].receiver.dst = links[i].sender.at
                               /\ links[i].sender.src = links[i].receiver.at

\* A relay is refused only for a reason in what it needs: the type of either
\* chain, the key store of a chain that it submits to, or a database another
\* process has.  In particular its two links do not stand in each other's way.
\* Its process exits on its way up only for a link to or from an Ethereum chain.
RefusalExplained ==
  /\ (main = "refused" /\ cfg.src.net # cfg.dst.net) =>
       \/ Bad(cfg.src) \/ Bad(cfg.dst)
       \/ \E d \in Asked : d[1] \in busy \/ ~(IF d[2] = cfg.dst.net THEN cfg.dst ELSE cfg.src).wallet
  /\ main = "exited" => Asked # {} /\ "eth-bridge" \in {cfg.src.type, cfg.dst.type}

\* An error of any goroutine ends the relay, also one that occurs while another
\* link is still being started: nothing else stops a direction that has failed.
ErrorEnds ==
  (\E i \in DOMAIN links : "error" \in {links[i].monitor, links[i].recv, links[i].send}) ~> (main = "ended")
=============================================================================
