------------------------------- MODULE Merkle -------------------------------
(***************************************************************************)
(* The root that commits to the leaves of a stream: MerkleAccumulator of   *)
(* packages/core/src/merkle.ts, and merkle_root of analysis/analyze.py,    *)
(* which does the same from the published blob.  A hash is the term that   *)
(* is hashed: SHA-256 has no collisions here.                              *)
(***************************************************************************)
EXTENDS Integers, Sequences, FiniteSets

Leaf(data) == <<"leaf", data>>

Node(left, right) == <<"node", left, right>>

\* Variant: an odd node is paired with itself.
DuplicateLast(level) ==
  [i \in 1..((Len(level) + 1) \div 2) |->
     Node(level[2*i - 1], level[IF 2*i <= Len(level) THEN 2*i ELSE 2*i - 1])]

\* Nodes are hashed in pairs, an odd one is promoted unchanged.
NextLevel(level) ==
  [i \in 1..((Len(level) + 1) \div 2) |->
     IF 2*i <= Len(level) THEN Node(level[2*i - 1], level[2*i]) ELSE level[2*i - 1]]

\* Up to the level that is one node.
Root(leaves) ==
  LET level[k \in 0..Len(leaves)] ==
        IF k = 0 THEN [i \in DOMAIN leaves |-> Leaf(leaves[i])]
        ELSE IF Len(level[k-1]) = 1 THEN level[k-1]
        ELSE NextLevel(level[k-1])
  IN level[Len(leaves)][1]
=============================================================================
