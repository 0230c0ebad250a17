---------------------------- MODULE Accumulator ----------------------------
(***************************************************************************)
(* common/mta: the Merkle tree accumulator, its witnesses, and its state   *)
(* in a bucket, from which it is recovered after a crash.                  *)
(*                                                                         *)
(* A hash is a term: <<i>> is that of the i-th data, <<a, b>> that of two  *)
(* hashes.  Data is numbered from 0 by its place, as the headers of a      *)
(* chain are.  A Set of the bucket may fail, and the process may end       *)
(* between two of them.                                                    *)
(***************************************************************************)
EXTENDS Integers, Sequences, SequencesExt, FiniteSetsExt

CONSTANTS MaxLength,            \* bound on the length
          MaxCrashes,           \* bound on the number of crashes
          HashPlaces,           \* the places of data that is added by its hash
          Offset                \* ExtAccumulator.offset

AccumulatorAssumption ==
  /\ MaxLength \in Nat /\ MaxCrashes \in Nat /\ Offset \in Nat
  /\ HashPlaces \subseteq Nat

VARIABLES roots,                \* a.roots: each <<>> for nil, or <<node>>
          length,               \* a.length
          flushed,              \* the nodes of this process in stateFlushed
          todo,                 \* what a Flush under way still has to Set
          bucket,               \* the nodes that are stored, by hash
          saved,                \* what is stored under KeyForState, or <<>>
          wit,                  \* a witness given at some time, or <<>>
          crashes

acc == <<roots, length, flushed>>
vars == <<roots, length, flushed, todo, bucket, saved, wit, crashes>>

\* A hashNode, a dataNode, a branchNode, or a branchNode made by resolve.
HashNode(h) == [kind |-> "hash", h |-> h, kids |-> <<>>]
DataNode(i) == [kind |-> "data", h |-> <<i>>, kids |-> <<>>]
BranchNode(l, r) == [kind |-> "branch", h |-> <<l.h, r.h>>, kids |-> <<l, r>>]
Resolved(h) == [kind |-> "stored", h |-> h, kids |-> <<HashNode(h[1]), HashNode(h[2])>>]

\* resolve succeeds: the bucket has two hashes under h.
CanResolve(h) == h \in bucket /\ Len(h) = 2

Witness(direction, h) == [direction |-> direction, hash |-> h]

-----------------------------------------------------------------------------
\* Mutant: the new node goes to the left.
RECURSIVE addNodeLeft(_, _, _, _)
addNodeLeft(list, h, n, w) ==
  IF h >= Len(list) THEN [roots |-> Append(list, <<n>>), w |-> w]
  ELSE IF list[h + 1] = <<>> THEN [roots |-> [list EXCEPT ![h + 1] = <<n>>], w |-> w]
  ELSE LET root == list[h + 1][1]
       IN  addNodeLeft([list EXCEPT ![h + 1] = <<>>], h + 1, BranchNode(n, root),
                       Append(w, Witness("Left", root.h)))

\* Mutant: the witness has the wrong side.
RECURSIVE addNodeRight(_, _, _, _)
addNodeRight(list, h, n, w) ==
  IF h >= Len(list) THEN [roots |-> Append(list, <<n>>), w |-> w]
  ELSE IF list[h + 1] = <<>> THEN [roots |-> [list EXCEPT ![h + 1] = <<n>>], w |-> w]
  ELSE LET root == list[h + 1][1]
       IN  addNodeRight([list EXCEPT ![h + 1] = <<>>], h + 1, BranchNode(root, n),
                        Append(w, Witness("Right", root.h)))

\* The new list of roots, and the witness of the node that was added.
RECURSIVE addNode(_, _, _, _)
addNode(list, h, n, w) ==
  IF h >= Len(list) THEN [roots |-> Append(list, <<n>>), w |-> w]
  ELSE IF list[h + 1] = <<>> THEN [roots |-> [list EXCEPT ![h + 1] = <<n>>], w |-> w]
  ELSE LET root == list[h + 1][1]
       IN  addNode([list EXCEPT ![h + 1] = <<>>], h + 1, BranchNode(root, n),
                   Append(w, Witness("Left", root.h)))

\* Node.WitnessFor: the node, with what has been resolved on the way, and the
\* witness from below.
RECURSIVE nodeWitness(_, _, _)
nodeWitness(n, depth, idx) ==
  LET bound == 2 ^ (depth - 1)
      failed == [node |-> n, w |-> <<>>, ok |-> FALSE]
  IN  IF depth < 1 THEN [failed EXCEPT !.ok = n.kind \in {"hash", "data"}]
      ELSE IF n.kind = "data" \/ (n.kind = "hash" /\ ~CanResolve(n.h)) THEN failed
      ELSE IF n.kind = "hash" THEN nodeWitness(Resolved(n.h), depth, idx)
      ELSE IF idx < bound THEN
             LET a == nodeWitness(n.kids[1], depth - 1, idx)
             IN  [a EXCEPT !.node = [n EXCEPT !.kids[1] = a.node],
                           !.w = Append(@, Witness("Right", n.kids[2].h))]
      ELSE
             LET a == nodeWitness(n.kids[2], depth - 1, idx - bound)
             IN  [a EXCEPT !.node = [n EXCEPT !.kids[2] = a.node],
                           !.w = Append(@, Witness("Left", n.kids[1].h))]

\* The loops of WitnessFor and GetNode: the root that holds idx, and the place in it.
RECURSIVE RootOf(_, _)
RootOf(offset, idx) ==
  IF offset = 0 THEN <<>>
  ELSE IF roots[offset] = <<>> THEN RootOf(offset - 1, idx)
  ELSE IF idx < 2 ^ (offset - 1) THEN <<[offset |-> offset, idx |-> idx]>>
  ELSE RootOf(offset - 1, idx - 2 ^ (offset - 1))

\* What WitnessFor gives for idx < a.length.
WitnessFor(idx) ==
  LET at == RootOf(Len(roots), idx)[1]
      a == nodeWitness(roots[at.offset][1], at.offset - 1, at.idx)
  IN  [roots |-> [roots EXCEPT ![at.offset] = <<a.node>>], w |-> a.w, ok |-> a.ok]

\* GetNode: the leaf, or <<>> for an error.
RECURSIVE nodeAt(_, _, _)
nodeAt(n, depth, idx) ==
  LET bound == 2 ^ (depth - 1)
  IN  IF depth < 1 THEN IF n.kind \in {"hash", "data"} THEN <<n>> ELSE <<>>
      ELSE IF n.kind = "data" \/ (n.kind = "hash" /\ ~CanResolve(n.h)) THEN <<>>
      ELSE IF n.kind = "hash" THEN nodeAt(Resolved(n.h), depth, idx)
      ELSE IF idx < bound THEN nodeAt(n.kids[1], depth - 1, idx)
      ELSE nodeAt(n.kids[2], depth - 1, idx - bound)

GetNode(idx) ==
  LET at == RootOf(Len(roots), idx)[1]
  IN  nodeAt(roots[at.offset][1], at.offset - 1, at.idx)

-----------------------------------------------------------------------------
\* TRUE for a nil error.
Verify(ws, h) ==
  LET above(x, w) == IF w.direction = "Left" THEN <<w.hash, x>> ELSE <<x, w.hash>>
      height == Len(ws)
  IN  /\ height < Len(roots)
      /\ roots[height + 1] # <<>>
      /\ roots[height + 1][1].h = FoldLeft(above, h, ws)

Bit(n, i) == (n \div 2 ^ i) % 2

\* idx and offset of the code are the two sums.
GetHeightFromWitness(ws, accLength) ==
  LET depths == 0..(Len(ws) - 1)
      idx == MapThenSumSet(LAMBDA i : IF ws[i + 1].direction = "Right" THEN 2 ^ i ELSE 0, depths)
      offset == MapThenSumSet(LAMBDA i : Bit(accLength, i) * 2 ^ i, depths)
  IN  accLength - 1 - (idx + offset)

RECURSIVE Depth(_, _, _)
Depth(depth, height, accLength) ==
  IF depth = 0 THEN 0
  ELSE LET d == depth - 1
       IN  IF Bit(accLength, d) = 1
           THEN IF height < 2 ^ d THEN d ELSE Depth(d, height - 2 ^ d, accLength)
           ELSE Depth(d, height, accLength)

RECURSIVE BitLength(_)
BitLength(v) == IF v = 0 THEN 0 ELSE 1 + BitLength(v \div 2)

GetDepthByHeightAndAccLength(height, accLength) == Depth(BitLength(accLength), height, accLength)

\* "acc: old, wit: new": the loop from the highest root, which takes every root
\* for one that exists.
RECURSIVE OldDepth(_, _)
OldDepth(i, height) ==
  IF i <= 0 THEN 0 ELSE IF height < 2 ^ i THEN i ELSE OldDepth(i - 1, height - 2 ^ i)

VerifyWithAccLength(ws, h, accLength) ==
  IF length = accLength THEN Verify(ws, h)
  ELSE LET height == GetHeightFromWitness(ws, accLength)
           nws == WitnessFor(height)
           depth == OldDepth(Len(roots) - 1, height)
       IN  /\ height < length
           /\ IF length > accLength
              THEN /\ nws.ok
                   /\ Verify([i \in 1..Len(nws.w) |-> IF i <= Len(ws) THEN ws[i] ELSE nws.w[i]], h)
              ELSE Verify(SubSeq(ws, 1, depth), h)

\* ExtAccumulator, for its own offset.
WitnessForAt(height, at) ==
  LET idx == height - 1 - Offset
      accLength == Min({at - Offset, length})
  IN  SubSeq(WitnessFor(idx).w, 1, GetDepthByHeightAndAccLength(idx, accLength))

VerifyAt(ws, h, at) == VerifyWithAccLength(ws, h, Min({at - Offset, length}))

WitnessesToHashes(ws) == [i \in 1..Len(ws) |-> ws[i].hash]
HashesToWitness(hashes, idx) ==
  [i \in 1..Len(hashes) |->
     Witness(IF (idx \div 2 ^ (i - 1)) % 2 = 0 THEN "Right" ELSE "Left", hashes[i])]

-----------------------------------------------------------------------------
Init ==
  /\ roots = <<>> /\ length = 0 /\ flushed = {} /\ todo = <<>>
  /\ bucket = {} /\ saved = <<>> /\ wit = <<>> /\ crashes = 0

Idle == todo = <<>>

\* AddData and AddHash: the witness they return is kept.
AddNode(n) ==
  /\ Idle /\ length < MaxLength
  /\ LET a == addNode(roots, 0, n, <<>>)
     IN  /\ roots' = a.roots
         /\ wit' = <<[idx |-> length, w |-> a.w, length |-> length + 1]>>
  /\ length' = length + 1
  /\ UNCHANGED <<flushed, todo, bucket, saved, crashes>>
AddData == length \notin HashPlaces /\ AddNode(DataNode(length))
AddHash == length \in HashPlaces /\ AddNode(HashNode(<<length>>))

\* WitnessFor leaves the nodes it has resolved in the accumulator.
TakeWitness(idx) ==
  /\ Idle /\ idx < length
  /\ LET a == WitnessFor(idx)
     IN  /\ a.ok
         /\ roots' = a.roots
         /\ wit' = <<[idx |-> idx, w |-> a.w, length |-> length]>>
  /\ UNCHANGED <<length, flushed, todo, bucket, saved, crashes>>

\* Node.Flush: what it has to Set, children first.
RECURSIVE Unstored(_)
Unstored(n) ==
  IF n.kind \in {"hash", "stored"} \/ n.h \in flushed THEN <<>>
  ELSE (IF n.kids = <<>> THEN <<>> ELSE Unstored(n.kids[1]) \o Unstored(n.kids[2])) \o <<n.h>>

State == [roots |-> [i \in 1..Len(roots) |-> IF roots[i] = <<>> THEN <<>> ELSE roots[i][1].h],
          length |-> length]

\* Mutant: the state is stored before the nodes.
FlushStateFirst ==
  /\ Idle
  /\ LET nodes(i) == IF roots[i] = <<>> THEN <<>> ELSE Unstored(roots[i][1])
         all == FlattenSeq([i \in 1..Len(roots) |-> nodes(i)])
     IN  todo' = <<[state |-> <<State>>]>> \o [i \in 1..Len(all) |-> [state |-> <<>>, node |-> all[i]]]
  /\ UNCHANGED <<acc, bucket, saved, wit, crashes>>

\* Flush begins: the nodes of each root, then the state.
Flush ==
  /\ Idle
  /\ LET nodes(i) == IF roots[i] = <<>> THEN <<>> ELSE Unstored(roots[i][1])
         all == FlattenSeq([i \in 1..Len(roots) |-> nodes(i)])
     IN  todo' = [i \in 1..Len(all) |-> [state |-> <<>>, node |-> all[i]]] \o <<[state |-> <<State>>]>>
  /\ UNCHANGED <<acc, bucket, saved, wit, crashes>>

\* One Set of the Flush under way.
FlushSet ==
  /\ ~Idle
  /\ IF Head(todo).state # <<>>
     THEN saved' = Head(todo).state /\ UNCHANGED <<flushed, bucket>>
     ELSE /\ bucket' = bucket \union {Head(todo).node}
          /\ flushed' = flushed \union {Head(todo).node}
          /\ UNCHANGED saved
  /\ todo' = Tail(todo)
  /\ UNCHANGED <<roots, length, wit, crashes>>

\* A Set fails and Flush returns its error.
FlushError ==
  /\ ~Idle
  /\ todo' = <<>>
  /\ UNCHANGED <<acc, bucket, saved, wit, crashes>>

\* The process ends; the next one calls Recover.
Recover ==
  /\ crashes < MaxCrashes
  /\ crashes' = crashes + 1
  /\ todo' = <<>> /\ flushed' = {}
  /\ IF saved = <<>> THEN roots' = <<>> /\ length' = 0
     ELSE /\ roots' = [i \in 1..Len(saved[1].roots) |->
                         IF saved[1].roots[i] = <<>> THEN <<>> ELSE <<HashNode(saved[1].roots[i])>>]
          /\ length' = saved[1].length
  /\ UNCHANGED <<bucket, saved, wit>>

Next ==
  \/ AddData \/ AddHash
  \/ \E idx \in 0..(MaxLength - 1) : TakeWitness(idx)
  \/ Flush \/ FlushSet \/ FlushError
  \/ Recover
Spec == Init /\ [][Next]_vars

-----------------------------------------------------------------------------
\* Every data that has been added has a witness, also when its nodes have to be
\* read from the bucket after a crash, and the witness verifies, also when only
\* its hashes have been sent.
WitnessesVerify ==
  \A idx \in 0..(length - 1) :
     LET a == WitnessFor(idx)
     IN  /\ a.ok
         /\ Verify(a.w, <<idx>>)
         /\ HashesToWitness(WitnessesToHashes(a.w), idx) = a.w

\* What KeyForState refers to is complete in the bucket at any time, although
\* the Sets of a Flush are not one step: the process may end at each of them.
RECURSIVE Complete(_)
Complete(h) == Len(h) = 1 \/ (h \in bucket /\ Complete(h[1]) /\ Complete(h[2]))
SavedIsComplete ==
  saved # <<>> => \A i \in 1..Len(saved[1].roots) :
                     saved[1].roots[i] # <<>> => Complete(saved[1].roots[i])

\* A witness stays good while the accumulator grows: with the length it was
\* given at, it verifies.
OldWitnessVerifies ==
  wit # <<>> /\ wit[1].length <= length =>
    VerifyWithAccLength(wit[1].w, <<wit[1].idx>>, wit[1].length)

\* WitnessForAt cuts a witness to the accumulator of an earlier height, and
\* VerifyAt completes it again, for every height up to that one.
AtRoundTrip ==
  \A at \in (Offset + 1)..(Offset + length) : \A height \in (Offset + 1)..at :
     VerifyAt(WitnessForAt(height, at), <<height - 1 - Offset>>, at)

\* GetNode finds the data by its place, through nodes in memory and in the bucket.
GetNodeFinds ==
  \A idx \in 0..(length - 1) : GetNode(idx) # <<>> /\ GetNode(idx)[1].h = <<idx>>

\* A witness of a longer accumulator verifies in a shorter one that has the data,
\* such as one recovered after a crash: what accumulator_test.go tries for an
\* accumulator of length seven.
NewWitnessVerifies ==
  wit # <<>> /\ wit[1].idx < length =>
    VerifyWithAccLength(wit[1].w, <<wit[1].idx>>, wit[1].length)
=============================================================================
