------------------------------ MODULE Delivery ------------------------------
(***************************************************************************)
(* What the relay of a link promises, without the link's messages,         *)
(* results, goroutines and locks: blocks are taken by the BMC one after    *)
(* the other, a process passes no block of the source without storing it,  *)
(* and as long as it runs it gives up a stored block only after the BMC    *)
(* has taken it.  A process that starts may begin anywhere and may give up *)
(* what it finds, since it asks the source for it again.                   *)
(***************************************************************************)
EXTENDS Integers

CONSTANTS BlockHeights,         \* heights of the source's blocks
          First                 \* the network's first block, which is not relayed

VARIABLES taken,                \* the last block the BMC has taken
          seen,                 \* how far the process has read the source
          stored,               \* the blocks in its database
          starts                \* how often it has been started again

Between(g, h) == {k \in BlockHeights : g < k /\ k <= h}

Init ==
  /\ taken \in BlockHeights
  /\ seen = taken
  /\ stored = {}
  /\ starts = 0

\* The BMC takes the next block, from this relay or from another one.
Take ==
  /\ taken' \in BlockHeights
  /\ Between(taken, taken') = {taken'}
  /\ UNCHANGED <<seen, stored, starts>>

\* The next block is read and stored; or there is none up to a height.
Read ==
  /\ seen < seen'
  /\ \/ Between(seen, seen') = {}
     \/ Between(seen, seen') = {seen'}
  /\ stored' = stored \union (Between(seen, seen') \ {First})
  /\ UNCHANGED <<taken, starts>>

Release ==
  /\ stored' \subseteq stored
  /\ \A h \in stored \ stored' : h <= taken
  /\ UNCHANGED <<taken, seen, starts>>

Start ==
  /\ starts' = starts + 1
  /\ stored' \subseteq stored
  /\ UNCHANGED taken

Next == Take \/ Read \/ Release \/ Start

Spec == Init /\ [][Next]_<<taken, seen, stored, starts>>
=============================================================================
