---------------------------- MODULE PrimMaxTree ----------------------------
(***************************************************************************)
(* The comparison tree of prim_max_tree.sv, for any number of inputs: a    *)
(* full binary tree whose leaves are the inputs, padded with invalid       *)
(* leaves to a power of two, and whose root carries the answer.            *)
(***************************************************************************)
EXTENDS PrioritySelect

CONSTANTS NumSrc, MaxValue

ASSUME NumSrcAssumption == NumSrc \in Nat /\ NumSrc >= 2
ASSUME MaxValueAssumption == MaxValue \in Nat

Inputs == 0..(NumSrc - 1)

\* values and valid: the inputs of the combinational block
TreeInputs == [values : [Inputs -> 0..MaxValue], valid : SUBSET Inputs]

NumLevels == CHOOSE l \in 1..NumSrc : 2^l >= NumSrc /\ \A k \in 0..(l - 1) : 2^k < NumSrc

Leaf(in, offset) ==
  IF offset < NumSrc
  THEN [vld |-> offset \in in.valid, idx |-> offset, max |-> in.values[offset]]
  ELSE [vld |-> FALSE, idx |-> 0, max |-> 0]

\* Mutant: of two equal children the right one is forwarded
ParentPrefersRight(c0, c1) ==
  LET sel == \/ ~c0.vld /\ c1.vld
             \/ c0.vld /\ c1.vld /\ c1.max >= c0.max
  IN  IF sel THEN c1 ELSE c0

\* sel: forward the right child only if it alone is valid or strictly larger
Parent(c0, c1) ==
  LET sel == \/ ~c0.vld /\ c1.vld
             \/ c0.vld /\ c1.vld /\ c1.max > c0.max
  IN  IF sel THEN c1 ELSE c0

FirstLeaf == 2^NumLevels - 1

\* Pa, C0 and C1 are numbered as in the code: the children of n are 2n+1, 2n+2
Root(in) ==
  LET node[n \in 0..(2 * FirstLeaf)] ==
        IF n >= FirstLeaf THEN Leaf(in, n - FirstLeaf)
        ELSE Parent(node[2 * n + 1], node[2 * n + 2])
  IN  node[0]

-----------------------------------------------------------------------------
(* The tree computes the selection the interrupt target relies on: valid   *)
(* exactly if some input is, the index of the winner with ties going to    *)
(* the lowest index across subtree boundaries and padding, and its value   *)
(* (the assertions at prim_max_tree.sv:143-149).                           *)
IsWinner(in) ==
  LET root == Root(in) IN
  /\ root.vld <=> in.valid # {}
  /\ root.idx = Winner(in.values, in.valid)
  /\ root.max = in.values[Winner(in.values, in.valid)]

=============================================================================
