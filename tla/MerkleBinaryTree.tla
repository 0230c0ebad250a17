-------------------------- MODULE MerkleBinaryTree --------------------------
(***************************************************************************)
(* common/mbt: the tree over the messages of a BTP block, the proofs of a  *)
(* range of messages that the btp2 receiver puts into relay messages, and  *)
(* the paths of single messages.  A hash is a term: <<c>> is the hash of   *)
(* content c, <<a, b>> that of two hashes, <<>> a hash not yet computed.   *)
(***************************************************************************)
EXTENDS Integers, Sequences, SequencesExt, FiniteSets

CONSTANT MaxLeaves              \* bound on the contents of a tree

MaxLeavesAssumption == MaxLeaves \in Nat

VARIABLES contents,             \* MerkleBinaryTree.contents
          root,                 \* MerkleBinaryTree.root: <<>> for nil, or <<node>>
          proof,                \* the answer of Proof, with its range, or <<>>
          path                  \* the answer of Path, with its number, or <<>>

vars == <<contents, root, proof, path>>

levelInit == 0
levelLeaf == 1
levelBranch == 2

HashFunc(hashes) == hashes

\* kids is <<>> for a node without l and r.
Node(kids, h, level, numOfLeaf) ==
  [kids |-> kids, h |-> h, level |-> level, numOfLeaf |-> numOfLeaf]
NewNode == Node(<<>>, <<>>, levelInit, 0)

-----------------------------------------------------------------------------
RECURSIVE Halvings(_)
Halvings(n) == IF n = 0 THEN 0 ELSE 1 + Halvings(n \div 2)

\* Mutant: the loop starts from n instead of n - 1.
NumberToLevelFull(n) ==
  IF n <= 2 THEN n ELSE levelBranch + 1 + Halvings(n \div 4)

NumberToLevel(n) ==
  IF n <= 2 THEN n ELSE levelBranch + 1 + Halvings((n - 1) \div 4)

Joined(n, leaf, h) == Node(<<n, leaf>>, h, n.level + 1, n.numOfLeaf + leaf.numOfLeaf)

RECURSIVE add(_, _)
add(n, h) ==
  IF n.level = levelInit THEN Node(<<>>, h, levelLeaf, 1)
  ELSE IF n.kids # <<>> /\ n.kids[1].level # n.kids[2].level
  THEN LET r == add(n.kids[2], h)
       IN  Node(<<n.kids[1], r>>, HashFunc(<<n.kids[1].h, r.h>>), n.level, n.numOfLeaf + 1)
  ELSE Joined(n, Node(<<>>, h, levelLeaf, 1), HashFunc(<<n.h, h>>))

RECURSIVE lazyAdd(_, _, _)
lazyAdd(n, num, h) ==
  IF n.level = levelInit THEN Node(<<>>, h, NumberToLevel(num), num)
  ELSE IF n.kids # <<>> /\ n.kids[1].numOfLeaf # n.kids[2].numOfLeaf
  THEN [n EXCEPT !.kids[2] = lazyAdd(@, num, h), !.numOfLeaf = @ + num]
  ELSE Joined(n, Node(<<>>, h, NumberToLevel(num), num), <<>>)

\* ensureHash(false)
RECURSIVE ensureHash(_)
ensureHash(n) ==
  IF n.level < levelBranch \/ n.h # <<>> THEN n
  ELSE LET l == ensureHash(n.kids[1])
           r == ensureHash(n.kids[2])
       IN  [n EXCEPT !.kids = <<l, r>>, !.h = HashFunc(<<l.h, r.h>>)]

\* The root of NewMerkleBinaryTree for at least one content.
BuildRoot(list) ==
  ensureHash(FoldLeft(LAMBDA n, c : lazyAdd(n, 1, HashFunc(<<c>>)), NewNode, list))

-----------------------------------------------------------------------------
ProofNode(n) == [numOfLeaf |-> n.numOfLeaf, value |-> n.h]

maxNumChild(n) == 2 ^ (n.level - levelBranch)

\* node.proof: the nodes to the left and to the right of leaf num, upwards.
RECURSIVE nodeProof(_, _)
nodeProof(n, num) ==
  IF n.level < levelBranch THEN [l |-> <<>>, r |-> <<>>]
  ELSE IF num > maxNumChild(n)
  THEN LET p == nodeProof(n.kids[2], num - maxNumChild(n))
       IN  [p EXCEPT !.l = Append(@, ProofNode(n.kids[1]))]
  ELSE LET p == nodeProof(n.kids[1], num)
       IN  [p EXCEPT !.r = Append(@, ProofNode(n.kids[2]))]

\* What Proof returns for 1 <= begin <= end <= Len(list).
RangeProof(list, n, begin, end) ==
  [left |-> IF begin = 1 THEN <<>> ELSE Reverse(nodeProof(n, begin).l),
   contents |-> SubSeq(list, begin, end),
   right |-> CASE begin = 1 /\ end = Len(list) -> <<>>
               [] begin # 1 /\ begin # end /\ end = Len(list) -> <<>>
               [] OTHER -> nodeProof(n, end).r]

\* node.verify: TRUE for a nil error.
RECURSIVE verify(_)
verify(n) ==
  IF n.level = levelLeaf THEN n.numOfLeaf = 1
  ELSE n.kids # <<>> =>
         LET l == n.kids[1]
             r == n.kids[2]
         IN  /\ l.level >= r.level
             /\ verify(l)
             /\ n.level > levelBranch => 2 ^ (l.level - levelLeaf) = l.numOfLeaf
             /\ verify(r)

Leaves(nodes) == FoldLeft(LAMBDA sum, n : sum + n.numOfLeaf, 0, nodes)

\* MerkleBinaryTreeProof.Root
ProofRoot(p) ==
  LET addNode(n, pn) == lazyAdd(n, pn.numOfLeaf, pn.value)
      addContent(n, c) == lazyAdd(n, 1, HashFunc(<<c>>))
      r == ensureHash(FoldLeft(addNode,
                        FoldLeft(addContent, FoldLeft(addNode, NewNode, p.left), p.contents),
                        p.right))
      left == Leaves(p.left)
      total == left + Len(p.contents) + Leaves(p.right)
  IN  [h |-> r.h, left |-> left, total |-> total, ok |-> r.numOfLeaf = total /\ verify(r)]

\* node.path
RECURSIVE nodePath(_, _)
nodePath(n, num) ==
  IF n.level < levelBranch THEN <<>>
  ELSE IF num > maxNumChild(n)
  THEN Append(nodePath(n.kids[2], num - maxNumChild(n)), [right |-> FALSE, value |-> n.kids[1].h])
  ELSE Append(nodePath(n.kids[1], num), [right |-> TRUE, value |-> n.kids[2].h])

\* RootByMerkleNode and MerkleBinaryTreePath.Root
RootByMerkleNode(leaf, nodes) ==
  FoldLeft(LAMBDA h, n : IF n.right THEN HashFunc(<<h, n.value>>) ELSE HashFunc(<<n.value, h>>),
           leaf, nodes)

-----------------------------------------------------------------------------
Init == contents = <<>> /\ root = <<>> /\ proof = <<>> /\ path = <<>>

\* NewMerkleBinaryTree, for contents that are not nil.  Contents are numbered.
NewMerkleBinaryTree(n) ==
  /\ contents' = [i \in 1..n |-> i]
  /\ root' = IF n > 0 THEN <<BuildRoot(contents')>> ELSE <<>>
  /\ proof' = <<>> /\ path' = <<>>

Add ==
  /\ Len(contents) < MaxLeaves
  /\ contents' = Append(contents, Len(contents) + 1)
  /\ root' = <<add(IF root = <<>> THEN NewNode ELSE root[1], HashFunc(<<Len(contents) + 1>>))>>
  /\ proof' = <<>> /\ path' = <<>>

\* Proof and ProofOfAll; other ranges give an error and no proof.
Proof(begin, end) ==
  /\ begin >= 1 /\ end <= Len(contents) /\ begin <= end
  /\ proof' = <<[begin |-> begin, proof |-> RangeProof(contents, root[1], begin, end)]>>
  /\ UNCHANGED <<contents, root, path>>

Path(num) ==
  /\ num >= 1 /\ num <= Len(contents)
  /\ path' = <<[content |-> contents[num], nodes |-> nodePath(root[1], num)]>>
  /\ UNCHANGED <<contents, root, proof>>

\* What the relay does: trees are made by NewMerkleBinaryTree.
Next ==
  \/ \E n \in 0..MaxLeaves : NewMerkleBinaryTree(n)
  \/ \E begin, end \in 1..MaxLeaves : Proof(begin, end)
  \/ \E num \in 1..MaxLeaves : Path(num)
Spec == Init /\ [][Next]_vars

\* A tree that grows by Add.
AddSpec == Init /\ [][Add]_vars

-----------------------------------------------------------------------------
\* The reference: the left subtree is the largest full tree that leaves
\* something for the right one.
RECURSIVE Reference(_)
Reference(list) ==
  IF Len(list) = 1 THEN <<list[1]>>
  ELSE LET fits == {2 ^ k : k \in 0..Len(list)} \intersect 1..(Len(list) - 1)
           split == CHOOSE k \in fits : \A j \in fits : j <= k
       IN  <<Reference(SubSeq(list, 1, split)), Reference(SubSeq(list, split + 1, Len(list)))>>

\* NewMerkleBinaryTree, which adds leaf by leaf to the rightmost incomplete
\* subtree, computes the root that the definition by halves gives.
TreeIsReference == root # <<>> => root[1].h = Reference(contents)

\* What Proof gives for a range convinces MerkleBinaryTreeProof.Root: the same
\* root, the number of contents before the range, the length of the tree, and
\* no error, for every range of every tree.
ProofConvinces ==
  proof # <<>> =>
    ProofRoot(proof[1].proof) =
      [h |-> root[1].h, left |-> proof[1].begin - 1, total |-> Len(contents), ok |-> TRUE]

\* A path leads from its content to the root, on whichever sides it turns.
PathLeadsToRoot ==
  path # <<>> => RootByMerkleNode(HashFunc(<<path[1].content>>), path[1].nodes) = root[1].h

\* A tree grown by Add is the tree NewMerkleBinaryTree makes of its contents:
\* what tree_test.go compares, node by node, for seven contents.
AddIsNew == root # <<>> => root[1] = BuildRoot(contents)
=============================================================================
