----------------------------- MODULE MCStorage -----------------------------
(* The structures that data is kept in: the layer over a database, the       *)
(* accumulator and the tree of a block's messages.  The initial state        *)
(* chooses the one that is used; the others stay as they are.  The database  *)
(* has two buckets whose keys overlap, as byte strings.                      *)
EXTENDS LayerDB

CONSTANTS v, MaxLeaves, MaxLength, MaxCrashes, HashPlaces, Offset

TwoBuckets == {<<1>>, <<2>>}
TwoKeys == {<<1>>, <<2, 1>>}
OneValue == {v}

VARIABLES
  part,
  contents, root, proof, path,
  roots, length, mtaFlushed, todo, bucket, saved, wit, crashes

Mbt == INSTANCE MerkleBinaryTree
Mta == INSTANCE Accumulator WITH flushed <- mtaFlushed

ASSUME StorageAssumption == Mbt!MaxLeavesAssumption /\ Mta!AccumulatorAssumption

layerVars == <<store, closed, opened, reals, layered, data, flushed, flushing, write, left, cur, rest>>
mbtVars == <<contents, root, proof, path>>
mtaVars == <<roots, length, mtaFlushed, todo, bucket, saved, wit, crashes>>

MCInit ==
  /\ part \in {"layer", "mbt", "mta"}
  /\ part # "layer" => store = [k \in InternalKeys |-> Nil]
  /\ Init /\ Mbt!Init /\ Mta!Init

MCNext ==
  \/ part = "layer" /\ Next /\ UNCHANGED <<part, mbtVars, mtaVars>>
  \/ part = "mbt" /\ Mbt!Next /\ UNCHANGED <<part, layerVars, mtaVars>>
  \/ part = "mta" /\ Mta!Next /\ UNCHANGED <<part, layerVars, mbtVars>>

MCSpec == MCInit /\ [][MCNext]_<<part, layerVars, mbtVars, mtaVars>>

\* The tree of any number of messages has the root that the definition by halves
\* gives; the proof of every range and the path of every message lead to it.
ProofsLeadToRoot == Mbt!TreeIsReference /\ Mbt!ProofConvinces /\ Mbt!PathLeadsToRoot

\* Every data of the accumulator is found and has a witness that verifies, also
\* after a crash; it stays good while the accumulator grows, and when it is cut to
\* an earlier height and completed again.
WitnessesVerify ==
  Mta!WitnessesVerify /\ Mta!OldWitnessVerifies /\ Mta!AtRoundTrip /\ Mta!GetNodeFinds

\* The state that is stored has all its nodes, whenever the process ends.
SavedIsComplete == Mta!SavedIsComplete
=============================================================================
