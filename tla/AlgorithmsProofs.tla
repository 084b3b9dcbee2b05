-------------------------- MODULE AlgorithmsProofs --------------------------
(***************************************************************************)
(* The algorithms without state of their own, for every size of theirs:    *)
(* the interrupt controller's tree of comparisons, the parameters of the   *)
(* timer, the transfers of the SPI host, the memory functions, and the     *)
(* strings and integers of ujson.  They compute step by step; the proofs   *)
(* are by induction over the steps, which the provers have no rule for:    *)
(* the least step for which a claim fails is looked at instead (Induct).   *)
(***************************************************************************)
EXTENDS MCAlgorithms, FiniteSetTheorems, SequenceTheorems, WellFoundedInduction, TLAPS

(* A non-empty set of naturals has a least element: induction over numbers *)
(* is by the least number for which a claim fails.                         *)
LEMMA LeastOf ==
  ASSUME NEW T \in SUBSET Nat, T # {}
  PROVE  \E x \in T : \A y \in T : x <= y
<1>1. PICK x \in T : \A y \in T : ~ (<<y, x>> \in OpToRel(<, Nat))
  BY NatLessThanWellFounded, WFMin, Zenon
<1>2. \A y \in T : ~ (y < x)
  BY <1>1 DEF OpToRel
<1>3. \A y \in T : x <= y
  BY <1>2, SMT
<1> QED  BY <1>3

(* Induction over the numbers up to N, for a set of numbers.               *)
LEMMA Induct ==
  ASSUME NEW N \in Nat, NEW T, 0 \in T, \A n \in 0..(N - 1) : n \in T => n + 1 \in T
  PROVE  \A n \in 0..N : n \in T
<1> DEFINE Out == {n \in 0..N : n \notin T}
<1> SUFFICES ASSUME Out # {}  PROVE FALSE
  OBVIOUS
<1>1. Out \in SUBSET Nat
  OBVIOUS
<1>2. PICK x \in Out : \A y \in Out : x <= y
  BY <1>1, LeastOf
<1>3. x # 0 /\ x \in 1..N
  BY <1>2
<1>4. x - 1 \in 0..(N - 1) /\ x - 1 \notin Out
  BY <1>2, <1>3
<1>5. x - 1 \in T
  BY <1>4
<1>6. (x - 1) + 1 \in T
  BY <1>4, <1>5
<1> QED  BY <1>2, <1>3, <1>6

-----------------------------------------------------------------------------
(* Powers of two.  The provers know nothing of ^: what is needed of it is  *)
(* that a set of n elements has 2^n subsets.                               *)
LEMMA PowerCounts ==
  ASSUME NEW n \in Nat
  PROVE  IsFiniteSet(SUBSET (1..n)) /\ Cardinality(SUBSET (1..n)) = 2^n /\ 2^n \in Nat
<1>1. IsFiniteSet(1..n) /\ Cardinality(1..n) = n
  BY FS_Interval
<1>2. IsFiniteSet(SUBSET (1..n)) /\ Cardinality(SUBSET (1..n)) = 2^n
  BY <1>1, FS_SUBSET
<1> QED  BY <1>2, FS_CardinalityType

(* One more element doubles the subsets: each is there with it and without.*)
LEMMA PowerDoubles ==
  ASSUME NEW n \in Nat
  PROVE  2^(n + 1) = 2 * 2^n
<1> DEFINE A == SUBSET (1..n)
           B == SUBSET (1..(n + 1))
           f == [p \in A \X {0, 1} |-> IF p[2] = 0 THEN p[1] ELSE p[1] \cup {n + 1}]
<1>1. n + 1 \notin 1..n /\ 1..(n + 1) = (1..n) \cup {n + 1}
  OBVIOUS
<1>2. f \in [A \X {0, 1} -> B]
  BY <1>1
<1>3. ASSUME NEW p \in A \X {0, 1}, NEW q \in A \X {0, 1}, f[p] = f[q]  PROVE p = q
  <2>1. /\ p = <<p[1], p[2]>> /\ q = <<q[1], q[2]>>
        /\ n + 1 \notin p[1] /\ n + 1 \notin q[1]
        /\ p[2] \in {0, 1} /\ q[2] \in {0, 1}
    BY <1>1
  <2>2. n + 1 \in f[p] <=> p[2] = 1
    BY <2>1
  <2>3. n + 1 \in f[q] <=> q[2] = 1
    BY <2>1
  <2>4. p[2] = q[2]
    BY <1>3, <2>1, <2>2, <2>3
  <2>5. p[1] = f[p] \ {n + 1} /\ q[1] = f[q] \ {n + 1}
    BY <2>1
  <2> QED  BY <1>3, <2>1, <2>4, <2>5
<1>4. ASSUME NEW T \in B  PROVE \E p \in A \X {0, 1} : f[p] = T
  <2>1. CASE n + 1 \in T
    <3>1. T \ {n + 1} \in A
      BY <1>1
    <3>2. <<T \ {n + 1}, 1>> \in A \X {0, 1}
      BY <3>1
    <3>3. f[<<T \ {n + 1}, 1>>] = (T \ {n + 1}) \cup {n + 1}
      BY <3>2
    <3>4. (T \ {n + 1}) \cup {n + 1} = T
      BY <2>1
    <3> QED  BY <3>2, <3>3, <3>4
  <2>2. CASE n + 1 \notin T
    <3>1. T \in A
      BY <1>1, <2>2
    <3>2. <<T, 0>> \in A \X {0, 1} /\ f[<<T, 0>>] = T
      BY <3>1
    <3> QED  BY <3>2
  <2> QED  BY <2>1, <2>2
<1>5. f \in Bijection(A \X {0, 1}, B)
  <2> HIDE DEF f, A, B
  <2> QED  BY <1>2, <1>3, <1>4, Zenon DEF Bijection, Injection, IsInjective, Surjection
<1>6. ExistsBijection(A \X {0, 1}, B)
  BY <1>5 DEF ExistsBijection
<1>7. IsFiniteSet({0, 1}) /\ Cardinality({0, 1}) = 2
  <2>1. IsFiniteSet({0}) /\ Cardinality({0}) = 1
    BY FS_Singleton
  <2>2. IsFiniteSet({0} \cup {1}) /\ Cardinality({0} \cup {1}) = 1 + 1
    BY <2>1, FS_AddElement
  <2>3. {0} \cup {1} = {0, 1}
    OBVIOUS
  <2> QED  BY <2>2, <2>3
<1>8. IsFiniteSet(A \X {0, 1}) /\ Cardinality(A \X {0, 1}) = 2^n * 2
  <2>1. IsFiniteSet(A) /\ Cardinality(A) = 2^n
    BY PowerCounts
  <2> HIDE DEF A
  <2>2. IsFiniteSet(A \X {0, 1}) /\ Cardinality(A \X {0, 1}) = Cardinality(A) * Cardinality({0, 1})
    BY <1>7, <2>1, FS_Product
  <2> QED  BY <1>7, <2>1, <2>2
<1>9. Cardinality(B) = 2^n * 2
  BY <1>6, <1>8, FS_Bijection
<1>10. Cardinality(B) = 2^(n + 1) /\ 2^n \in Nat
  <2>1. n + 1 \in Nat
    OBVIOUS
  <2> QED  BY <2>1, PowerCounts
<1> QED  BY <1>9, <1>10

(* A power of two is more than its exponent, and not 0.                    *)
LEMMA PowerExceeds ==
  ASSUME NEW n \in Nat
  PROVE  2^n > n
<1> DEFINE T == {k \in Nat : 2^k > k}
<1>1. 0 \in T
  OBVIOUS
<1>2. ASSUME NEW k \in 0..(n - 1), k \in T  PROVE k + 1 \in T
  <2>1. 2^(k + 1) = 2 * 2^k /\ 2^k \in Nat /\ 2^k > k
    BY <1>2, PowerDoubles, PowerCounts
  <2> QED  BY <2>1
<1>3. \A k \in 0..n : k \in T
  BY <1>1, <1>2, Induct
<1> QED  BY <1>3

-----------------------------------------------------------------------------
(* The comparison tree.                                                    *)

(* There are levels enough for all inputs.                                 *)
LEMMA LevelsSuffice ==
  NumLevels \in Nat /\ 2^NumLevels >= NumSrc /\ FirstLeaf \in Nat /\ FirstLeaf = 2^NumLevels - 1
<1> DEFINE Enough == {l \in 1..NumSrc : 2^l >= NumSrc}
<1>1. NumSrc \in Nat /\ NumSrc >= 2
  BY NumSrcAssumption
<1>2. ASSUME NEW l \in 0..NumSrc  PROVE 2^l \in Nat
  <2>1. l \in Nat
    BY <1>1
  <2> QED  BY <2>1, PowerCounts
<1>3. NumSrc \in Enough
  BY <1>1, <1>2, PowerExceeds
<1>4. Enough \in SUBSET Nat
  BY <1>1
<1>5. PICK l \in Enough : \A m \in Enough : l <= m
  BY <1>3, <1>4, LeastOf
<1>6. ASSUME NEW k \in 0..(l - 1)  PROVE 2^k < NumSrc
  <2>1. CASE k = 0
    BY <1>1, <2>1
  <2>2. CASE k # 0
    <3>1. k \in 1..NumSrc /\ k \notin Enough
      BY <1>1, <1>5, <1>6, <2>2
    <3>2. 2^k \in Nat
      BY <1>2, <3>1
    <3> QED  BY <1>1, <3>1, <3>2
  <2> QED  BY <2>1, <2>2
<1>7. \E x \in 1..NumSrc : 2^x >= NumSrc /\ \A k \in 0..(x - 1) : 2^k < NumSrc
  BY <1>5, <1>6
<1>8. NumLevels \in 1..NumSrc /\ 2^NumLevels >= NumSrc
  BY <1>7 DEF NumLevels
<1>9. NumLevels \in Nat /\ 2^NumLevels \in Nat
  BY <1>1, <1>2, <1>8
<1> QED  BY <1>1, <1>8, <1>9 DEF FirstLeaf

(* The value the definition gives to a node.                               *)
NodeOf(in, f, n) ==
  IF n >= FirstLeaf THEN Leaf(in, n - FirstLeaf) ELSE Parent(f[2 * n + 1], f[2 * n + 2])

(* The nodes of the tree.                                                  *)
Nodes == 0..(2 * FirstLeaf)

(* The recursion of the tree is well-founded: there is a function that     *)
(* satisfies it, and the root is its value at 0.                           *)
LEMMA TreeExists ==
  ASSUME NEW in
  PROVE  \E f : Root(in) = f[0] /\ \A n \in Nodes : f[n] = NodeOf(in, f, n)
<1>1. FirstLeaf \in Nat
  BY LevelsSuffice
<1> DEFINE N == 2 * FirstLeaf + 1
           Known(f, k) == f = [n \in Nodes |-> f[n]] /\ \A n \in (N - k)..(2 * FirstLeaf) : f[n] = NodeOf(in, f, n)
           T == {k \in 0..N : \E f : Known(f, k)}
<1>2. 0 \in T
  <2>1. Known([n \in Nodes |-> 0], 0)
    BY <1>1 DEF Nodes
  <2> QED  BY <1>1, <2>1
<1>3. ASSUME NEW k \in 0..(N - 1), k \in T  PROVE k + 1 \in T
  <2>1. PICK f : Known(f, k)
    BY <1>3
  <2> DEFINE m == N - (k + 1)
             g == [n \in Nodes |-> IF n = m THEN NodeOf(in, f, m) ELSE f[n]]
  <2>2. m \in Nodes
    BY <1>1 DEF Nodes
  <2>3. ASSUME NEW n \in m..(2 * FirstLeaf)  PROVE g[n] = NodeOf(in, g, n)
    <3>1. n \in Nodes
      BY <1>1, <2>2 DEF Nodes
    <3>2. n < FirstLeaf => /\ 2 * n + 1 \in Nodes /\ 2 * n + 1 # m
                           /\ 2 * n + 2 \in Nodes /\ 2 * n + 2 # m
      BY <1>1, <2>2, <2>3 DEF Nodes
    <3>3. n < FirstLeaf => g[2 * n + 1] = f[2 * n + 1] /\ g[2 * n + 2] = f[2 * n + 2]
      BY <3>2
    <3>4. NodeOf(in, g, n) = NodeOf(in, f, n)
      <4> HIDE DEF g
      <4>1. CASE n >= FirstLeaf
        BY <4>1 DEF NodeOf
      <4>2. CASE ~(n >= FirstLeaf)
        BY <1>1, <3>1, <3>3, <4>2 DEF NodeOf, Nodes
      <4> QED  BY <4>1, <4>2
    <3>5. CASE n = m
      <4>1. g[n] = NodeOf(in, f, n)
        BY <3>1, <3>5
      <4> QED  BY <3>4, <4>1
    <3>6. CASE n # m
      <4>1. n \in (N - k)..(2 * FirstLeaf)
        BY <1>1, <2>3, <3>6
      <4>2. f[n] = NodeOf(in, f, n)
        BY <2>1, <4>1
      <4>3. g[n] = f[n]
        BY <3>1, <3>6
      <4> QED  BY <3>4, <4>2, <4>3
    <3> QED  BY <3>5, <3>6
  <2>4. g = [n \in Nodes |-> g[n]]
    OBVIOUS
  <2>5. Known(g, k + 1)
    <3> HIDE DEF g
    <3> QED  BY <2>3, <2>4
  <2>6. k + 1 \in 0..N
    BY <1>1
  <2> QED  BY <2>5, <2>6
<1>4. N \in T
  <2>1. N \in Nat
    BY <1>1
  <2> HIDE DEF T, N
  <2>2. \A k \in 0..N : k \in T
    BY <1>2, <1>3, <2>1, Induct
  <2> QED  BY <2>1, <2>2
<1>5. PICK f : Known(f, N)
  BY <1>4
<1>6. \A n \in Nodes : f[n] = NodeOf(in, f, n)
  <2>1. (N - N)..(2 * FirstLeaf) = Nodes
    BY <1>1 DEF Nodes
  <2> QED  BY <1>5, <2>1
<1> DEFINE Tree(g) == g = [n \in 0..(2 * FirstLeaf) |->
                             IF n >= FirstLeaf THEN Leaf(in, n - FirstLeaf)
                             ELSE Parent(g[2 * n + 1], g[2 * n + 2])]
<1>7. Tree(f)
  <2>1. f = [n \in Nodes |-> f[n]]
    BY <1>5
  <2>2. f = [n \in Nodes |-> NodeOf(in, f, n)]
    BY <1>6, <2>1
  <2> QED  BY <2>2, Zenon DEF NodeOf, Nodes
<1>8. Tree(CHOOSE g : Tree(g))
  BY <1>7, Zenon
<1>9. Root(in) = (CHOOSE g : Tree(g))[0]
  BY DEF Root
<1>10. \A n \in Nodes : (CHOOSE g : Tree(g))[n] = NodeOf(in, CHOOSE g : Tree(g), n)
  <2> DEFINE g == CHOOSE g : Tree(g)
  <2> SUFFICES ASSUME NEW n \in Nodes  PROVE g[n] = NodeOf(in, g, n)
    OBVIOUS
  <2>1. Tree(g)
    BY <1>8
  <2> HIDE DEF g
  <2> QED  BY <2>1 DEF NodeOf, Nodes
<1> QED  BY <1>9, <1>10, Zenon

(* What a node of the tree says of the inputs V below it, of which first   *)
(* is the leftmost leaf: the winner, or where there is none that leaf.     *)
Shows(in, node, V, first) ==
  /\ node.vld \in BOOLEAN /\ (node.vld <=> V # {})
  /\ V # {} => /\ node.idx \in V /\ node.max = in.values[node.idx]
               /\ \A t \in V : Beats(in.values, node.idx, t)
  /\ V = {} => /\ node.idx = Leaf(in, first).idx
               /\ node.max = Leaf(in, first).max

(* A parent shows the inputs of both children, if those on its left come   *)
(* first.                                                                  *)
LEMMA ParentShows ==
  ASSUME NEW in \in TreeInputs, NEW c0, NEW c1, NEW V0 \in SUBSET Inputs, NEW V1 \in SUBSET Inputs,
         NEW first0, NEW first1, Shows(in, c0, V0, first0), Shows(in, c1, V1, first1),
         \A s \in V0, t \in V1 : s < t
  PROVE  Shows(in, Parent(c0, c1), V0 \cup V1, first0)
<1> DEFINE p == in.values
<1>1. /\ \A s \in Inputs : s \in Nat /\ p[s] \in Nat
      /\ NumSrc \in Nat /\ MaxValue \in Nat
  BY NumSrcAssumption, MaxValueAssumption DEF TreeInputs, Inputs
<1>2. CASE V0 = {} /\ V1 = {}
  <2>1. ~c0.vld /\ ~c1.vld
    BY <1>2 DEF Shows
  <2>2. Parent(c0, c1) = c0
    BY <2>1 DEF Parent
  <2> QED  BY <1>2, <2>2 DEF Shows
<1>3. CASE V0 # {} /\ V1 = {}
  <2>1. c0.vld /\ ~c1.vld
    BY <1>3 DEF Shows
  <2>2. Parent(c0, c1) = c0
    BY <2>1 DEF Parent
  <2>3. V0 \cup V1 = V0
    BY <1>3
  <2> QED  BY <1>3, <2>2, <2>3 DEF Shows
<1>4. CASE V0 = {} /\ V1 # {}
  <2>1. ~c0.vld /\ c1.vld
    BY <1>4 DEF Shows
  <2>2. Parent(c0, c1) = c1
    BY <2>1 DEF Parent
  <2>3. V0 \cup V1 = V1
    BY <1>4
  <2> QED  BY <1>4, <2>2, <2>3 DEF Shows
<1>5. CASE V0 # {} /\ V1 # {}
  <2>1. c0.vld /\ c1.vld
    BY <1>5 DEF Shows
  <2>2. /\ c0.idx \in V0 /\ c0.max = p[c0.idx] /\ \A t \in V0 : Beats(p, c0.idx, t)
        /\ c1.idx \in V1 /\ c1.max = p[c1.idx] /\ \A t \in V1 : Beats(p, c1.idx, t)
    BY <1>5 DEF Shows
  <2> HIDE DEF p
  <2>3. CASE c1.max > c0.max
    <3>1. Parent(c0, c1) = c1
      BY <2>1, <2>3 DEF Parent
    <3>2. ASSUME NEW t \in V0  PROVE Beats(p, c1.idx, t)
      <4>1. p[c0.idx] >= p[t]
        BY <1>1, <2>2 DEF Beats
      <4> QED  BY <1>1, <2>2, <2>3, <4>1 DEF Beats
    <3> QED  BY <1>5, <2>1, <2>2, <3>1, <3>2 DEF Shows, p
  <2>4. CASE ~(c1.max > c0.max)
    <3>1. Parent(c0, c1) = c0
      BY <2>1, <2>4 DEF Parent
    <3>2. ASSUME NEW t \in V1  PROVE Beats(p, c0.idx, t)
      <4>1. p[c1.idx] >= p[t] /\ c0.idx < t
        BY <1>1, <2>2 DEF Beats
      <4>2. p[c0.idx] >= p[c1.idx]
        BY <1>1, <2>2, <2>4
      <4> QED  BY <1>1, <2>2, <4>1, <4>2 DEF Beats
    <3> QED  BY <1>5, <2>1, <2>2, <3>1, <3>2 DEF Shows, p
  <2> QED  BY <2>3, <2>4
<1> QED  BY <1>2, <1>3, <1>4, <1>5

(* A leaf shows its input, if that is valid.                               *)
LEMMA LeafShows ==
  ASSUME NEW in \in TreeInputs, NEW i \in Nat
  PROVE  Shows(in, Leaf(in, i), {s \in in.valid : i <= s /\ s < i + 1}, i)
<1> DEFINE V == {s \in in.valid : i <= s /\ s < i + 1}
<1> SUFFICES Shows(in, Leaf(in, i), V, i)
  OBVIOUS
<1>1. in.valid \subseteq Inputs /\ NumSrc \in Nat /\ Inputs = 0..(NumSrc - 1)
  BY NumSrcAssumption DEF TreeInputs, Inputs
<1>2. CASE i \in in.valid
  <2>1. V = {i} /\ i < NumSrc
    BY <1>1, <1>2
  <2>2. Leaf(in, i).vld = (i \in in.valid) /\ Leaf(in, i).idx = i /\ Leaf(in, i).max = in.values[i]
    BY <2>1, Zenon DEF Leaf
  <2>3. Beats(in.values, i, i)
    BY DEF Beats
  <2>4. (i \in in.valid) = TRUE
    BY <1>2, Zenon
  <2>5. Leaf(in, i).vld = TRUE
    BY <2>2, <2>4, Zenon
  <2>6. Leaf(in, i).idx = i /\ Leaf(in, i).max = in.values[i]
    BY <2>2, Zenon
  <2> HIDE DEF V
  <2> QED  BY <2>1, <2>3, <2>5, <2>6 DEF Shows
<1>3. CASE i \notin in.valid
  <2>1. V = {}
    BY <1>1, <1>3
  <2>2. Leaf(in, i).vld = FALSE
    <3>1. CASE i < NumSrc
      <4>1. Leaf(in, i).vld = (i \in in.valid)
        BY <3>1, Zenon DEF Leaf
      <4>2. (i \in in.valid) = FALSE
        BY <1>3, SMT
      <4> QED  BY <4>1, <4>2, Zenon
    <3>2. CASE ~(i < NumSrc)
      BY <3>2, Zenon DEF Leaf
    <3> QED  BY <3>1, <3>2
  <2> HIDE DEF V
  <2>3. Leaf(in, i).vld \in BOOLEAN /\ (Leaf(in, i).vld <=> V # {})
    BY <2>1, <2>2
  <2> QED  BY <2>1, <2>3, Zenon DEF Shows
<1> QED  BY <1>2, <1>3

(* The inputs below a node that is the j-th of those which have 2^h leaves.*)
Below(in, p, j) == {s \in in.valid : j * p <= s /\ s < (j + 1) * p}

(* They are those below its two children, which have p leaves each.        *)
LEMMA BelowSplits ==
  ASSUME NEW in \in TreeInputs, NEW p \in Nat, NEW j \in Nat
  PROVE  /\ Below(in, 2 * p, j) = Below(in, p, 2 * j) \cup Below(in, p, 2 * j + 1)
         /\ \A s \in Below(in, p, 2 * j), t \in Below(in, p, 2 * j + 1) : s < t
         /\ (2 * j) * p = j * (2 * p)
<1>1. in.valid \subseteq Int
  BY NumSrcAssumption DEF TreeInputs, Inputs
<1> DEFINE m == j * p
<1>2. /\ j * (2 * p) = 2 * m /\ (j + 1) * (2 * p) = 2 * m + 2 * p
      /\ (2 * j) * p = 2 * m /\ (2 * j + 1) * p = 2 * m + p /\ ((2 * j + 1) + 1) * p = 2 * m + 2 * p
      /\ m \in Nat
  OBVIOUS
<1>3. /\ Below(in, 2 * p, j) = {s \in in.valid : 2 * m <= s /\ s < 2 * m + 2 * p}
      /\ Below(in, p, 2 * j) = {s \in in.valid : 2 * m <= s /\ s < 2 * m + p}
      /\ Below(in, p, 2 * j + 1) = {s \in in.valid : 2 * m + p <= s /\ s < 2 * m + 2 * p}
  BY <1>2 DEF Below
<1> HIDE DEF m
<1>4. {s \in in.valid : 2 * m <= s /\ s < 2 * m + 2 * p} =
        {s \in in.valid : 2 * m <= s /\ s < 2 * m + p} \cup {s \in in.valid : 2 * m + p <= s /\ s < 2 * m + 2 * p}
  BY <1>1, <1>2
<1>5. \A s \in {s \in in.valid : 2 * m <= s /\ s < 2 * m + p},
         t \in {s \in in.valid : 2 * m + p <= s /\ s < 2 * m + 2 * p} : s < t
  BY <1>1, <1>2
<1> QED  BY <1>2, <1>3, <1>4, <1>5

(* Level by level from the leaves: the j-th node of those above 2^h leaves *)
(* shows the inputs below it.                                              *)
LEMMA LevelsShow ==
  ASSUME NEW in \in TreeInputs, NEW f, \A n \in Nodes : f[n] = NodeOf(in, f, n)
  PROVE  \A h \in 0..NumLevels : \A j \in 0..(2^(NumLevels - h) - 1) :
           Shows(in, f[2^(NumLevels - h) - 1 + j], Below(in, 2^h, j), j * 2^h)
<1> DEFINE L == NumLevels
           Level(h) == \A j \in 0..(2^(L - h) - 1) :
                         Shows(in, f[2^(L - h) - 1 + j], Below(in, 2^h, j), j * 2^h)
           T == {h \in 0..L : Level(h)}
<1>1. L \in Nat /\ FirstLeaf = 2^L - 1 /\ FirstLeaf \in Nat /\ 2^L \in Nat
  BY LevelsSuffice, PowerCounts
<1>2. Level(0)
  <2> SUFFICES ASSUME NEW j \in 0..(2^(L - 0) - 1)
               PROVE  Shows(in, f[2^(L - 0) - 1 + j], Below(in, 2^0, j), j * 2^0)
    OBVIOUS
  <2>1. L - 0 = L /\ j \in Nat /\ j <= FirstLeaf
    BY <1>1
  <2>2. 2^(L - 0) - 1 + j = FirstLeaf + j /\ FirstLeaf + j \in Nodes
    BY <1>1, <2>1 DEF Nodes
  <2>3. f[FirstLeaf + j] = Leaf(in, j)
    <3>1. FirstLeaf + j >= FirstLeaf /\ (FirstLeaf + j) - FirstLeaf = j
      BY <1>1, <2>1
    <3>2. f[FirstLeaf + j] = NodeOf(in, f, FirstLeaf + j)
      BY <2>2
    <3> QED  BY <3>1, <3>2 DEF NodeOf
  <2>4. 2^0 = 1 /\ j * 1 = j /\ (j + 1) * 1 = j + 1
    BY <2>1
  <2>5. Below(in, 2^0, j) = {s \in in.valid : j <= s /\ s < j + 1}
    BY <2>4 DEF Below
  <2> QED  BY <2>1, <2>2, <2>3, <2>4, <2>5, LeafShows
<1>3. ASSUME NEW h \in 0..(L - 1), Level(h)  PROVE Level(h + 1)
  <2> SUFFICES ASSUME NEW j \in 0..(2^(L - (h + 1)) - 1)
               PROVE  Shows(in, f[2^(L - (h + 1)) - 1 + j], Below(in, 2^(h + 1), j), j * 2^(h + 1))
    OBVIOUS
  <2>1. PICK q \in Nat : q = 2^(L - (h + 1))
    <3>1. L - (h + 1) \in Nat
      BY <1>1
    <3> QED  BY <3>1, PowerCounts
  <2>2. PICK p \in Nat : p = 2^h
    <3>1. h \in Nat
      BY <1>1
    <3> QED  BY <3>1, PowerCounts
  <2>3. 2^(h + 1) = 2 * p
    BY <1>1, <2>2, PowerDoubles
  <2>4. 2^(L - h) = 2 * q
    <3>1. L - (h + 1) \in Nat /\ (L - (h + 1)) + 1 = L - h
      BY <1>1
    <3>2. 2^((L - (h + 1)) + 1) = 2 * 2^(L - (h + 1))
      BY <3>1, PowerDoubles
    <3> QED  BY <2>1, <3>1, <3>2
  <2>5. 2 * q <= 2^L
    <3>1. \A a \in 0..L : 2^(L - a) <= 2^L
      <4> DEFINE U == {a \in 0..L : 2^(L - a) <= 2^L}
      <4>1. 0 \in U
        <5>1. L - 0 = L
          BY <1>1
        <5> QED  BY <1>1, <5>1
      <4>2. ASSUME NEW a \in 0..(L - 1), a \in U  PROVE a + 1 \in U
        <5>1. L - (a + 1) \in Nat /\ (L - (a + 1)) + 1 = L - a
          BY <1>1
        <5>2. 2^((L - (a + 1)) + 1) = 2 * 2^(L - (a + 1)) /\ 2^(L - (a + 1)) \in Nat
          BY <5>1, PowerDoubles, PowerCounts
        <5>3. 2^(L - a) = 2 * 2^(L - (a + 1))
          BY <5>1, <5>2
        <5>4. 2^(L - a) <= 2^L
          BY <4>2
        <5>5. 2^(L - (a + 1)) <= 2^L
          BY <1>1, <5>2, <5>3, <5>4
        <5> QED  BY <1>1, <5>5
      <4> HIDE DEF U
      <4>3. \A a \in 0..L : a \in U
        BY <1>1, <4>1, <4>2, Induct
      <4> QED  BY <4>3 DEF U
    <3>2. h \in 0..L
      BY <1>1
    <3> QED  BY <2>4, <3>1, <3>2
  <2>6. PICK n \in Nat : n = q - 1 + j /\ j \in Nat /\ j < q
    <3>1. q - 1 + j \in Nat /\ j \in Nat /\ j < q
      BY <2>1
    <3> QED  BY <3>1
  <2>7. n \in Nodes /\ ~(n >= FirstLeaf) /\ 2 * n + 1 = 2 * q - 1 + 2 * j /\ 2 * n + 2 = 2 * q - 1 + (2 * j + 1)
    BY <1>1, <2>1, <2>5, <2>6 DEF Nodes
  <2>8. f[n] = Parent(f[2 * q - 1 + 2 * j], f[2 * q - 1 + (2 * j + 1)])
    <3>1. f[n] = NodeOf(in, f, n)
      BY <2>7
    <3>2. NodeOf(in, f, n) = Parent(f[2 * n + 1], f[2 * n + 2])
      BY <2>7 DEF NodeOf
    <3> QED  BY <2>7, <3>1, <3>2
  <2>9. /\ Shows(in, f[2 * q - 1 + 2 * j], Below(in, p, 2 * j), (2 * j) * p)
        /\ Shows(in, f[2 * q - 1 + (2 * j + 1)], Below(in, p, 2 * j + 1), (2 * j + 1) * p)
    <3>1. \A i \in 0..(2 * q - 1) : Shows(in, f[2 * q - 1 + i], Below(in, p, i), i * p)
      BY <1>3, <2>2, <2>4
    <3>2. 2 * j \in 0..(2 * q - 1) /\ 2 * j + 1 \in 0..(2 * q - 1)
      BY <2>6
    <3> QED  BY <3>1, <3>2
  <2>10. /\ Below(in, 2 * p, j) = Below(in, p, 2 * j) \cup Below(in, p, 2 * j + 1)
         /\ \A s \in Below(in, p, 2 * j), t \in Below(in, p, 2 * j + 1) : s < t
         /\ (2 * j) * p = j * (2 * p)
    BY <2>2, <2>6, BelowSplits
  <2>11. Below(in, p, 2 * j) \in SUBSET Inputs /\ Below(in, p, 2 * j + 1) \in SUBSET Inputs
    BY DEF Below, TreeInputs
  <2>12. Shows(in, f[n], Below(in, 2 * p, j), j * (2 * p))
    BY <2>8, <2>9, <2>10, <2>11, ParentShows
  <2> QED  BY <2>1, <2>3, <2>6, <2>12
<1>4. \A h \in 0..L : h \in T
  <2>1. 0 \in T
    BY <1>1, <1>2
  <2>2. ASSUME NEW h \in 0..(L - 1), h \in T  PROVE h + 1 \in T
    <3>1. Level(h) /\ h + 1 \in 0..L
      BY <1>1, <2>2
    <3> HIDE DEF Level
    <3>2. Level(h + 1)
      BY <1>3, <3>1
    <3> QED  BY <3>1, <3>2
  <2> HIDE DEF T, L
  <2> QED  BY <1>1, <2>1, <2>2, Induct
<1> QED  BY <1>4

(* The tree's answer is the selection.                                     *)
LEMMA TreeWins ==
  ASSUME NEW in \in TreeInputs
  PROVE  IsWinner(in)
<1>1. PICK f : Root(in) = f[0] /\ \A n \in Nodes : f[n] = NodeOf(in, f, n)
  BY TreeExists
<1>2. NumLevels \in Nat /\ 2^NumLevels >= NumSrc /\ 2^NumLevels \in Nat
  BY LevelsSuffice, PowerCounts
<1>3. Shows(in, f[0], Below(in, 2^NumLevels, 0), 0)
  <2>1. \A j \in 0..(2^(NumLevels - NumLevels) - 1) :
          Shows(in, f[2^(NumLevels - NumLevels) - 1 + j], Below(in, 2^NumLevels, j), j * 2^NumLevels)
    <3>1. NumLevels \in 0..NumLevels
      BY <1>2
    <3> QED  BY <1>1, <3>1, LevelsShow
  <2>2. NumLevels - NumLevels = 0 /\ 2^0 = 1 /\ 0 * 2^NumLevels = 0
    BY <1>2
  <2>3. 2^(NumLevels - NumLevels) = 1
    BY <2>2
  <2>4. 0 \in 0..(2^(NumLevels - NumLevels) - 1) /\ 2^(NumLevels - NumLevels) - 1 + 0 = 0
    BY <2>3
  <2> QED  BY <2>1, <2>2, <2>4
<1>4. in.valid \subseteq Inputs /\ Inputs = 0..(NumSrc - 1) /\ NumSrc \in Nat /\ NumSrc >= 2
      /\ in.values \in [Inputs -> 0..MaxValue] /\ MaxValue \in Nat
  BY NumSrcAssumption, MaxValueAssumption DEF TreeInputs, Inputs
<1>5. Below(in, 2^NumLevels, 0) = in.valid
  <2>1. 0 * 2^NumLevels = 0 /\ (0 + 1) * 2^NumLevels = 2^NumLevels
    BY <1>2
  <2>2. \A s \in in.valid : 0 <= s /\ s < 2^NumLevels
    BY <1>2, <1>4
  <2> QED  BY <2>1, <2>2 DEF Below
<1> DEFINE root == Root(in)
<1>6. Shows(in, root, in.valid, 0)
  BY <1>1, <1>3, <1>5
<1> HIDE DEF root
<1>7. CASE in.valid = {}
  <2>1. Winner(in.values, in.valid) = 0
    BY <1>7 DEF Winner
  <2>2. Leaf(in, 0).idx = 0 /\ Leaf(in, 0).max = in.values[0]
    BY <1>4 DEF Leaf
  <2>3. (root.vld <=> in.valid # {}) /\ root.idx = 0 /\ root.max = in.values[0]
    BY <1>6, <1>7, <2>2 DEF Shows
  <2> QED  BY <2>1, <2>3 DEF IsWinner, root
<1>8. CASE in.valid # {}
  <2>1. /\ root.idx \in in.valid /\ root.max = in.values[root.idx]
        /\ \A t \in in.valid : Beats(in.values, root.idx, t)
        /\ root.vld <=> in.valid # {}
    BY <1>6, <1>8 DEF Shows
  <2>2. ASSUME NEW s \in in.valid, \A t \in in.valid : Beats(in.values, s, t)  PROVE s = root.idx
    <3>1. Beats(in.values, s, root.idx) /\ Beats(in.values, root.idx, s)
      BY <2>1, <2>2
    <3>2. in.values[s] \in Nat /\ in.values[root.idx] \in Nat /\ s \in Nat /\ root.idx \in Nat
      BY <1>4, <2>1
    <3> QED  BY <3>1, <3>2 DEF Beats
  <2>3. Winner(in.values, in.valid) = root.idx
    <3>1. Winner(in.values, in.valid) = CHOOSE s \in in.valid : \A t \in in.valid : Beats(in.values, s, t)
      BY <1>8 DEF Winner
    <3> QED  BY <2>1, <2>2, <3>1
  <2> QED  BY <2>1, <2>3 DEF IsWinner, root
<1> QED  BY <1>7, <1>8

(* TreeIsWinner: for any number of inputs, of any values and of which any  *)
(* are valid, the tree of prim_max_tree.sv answers with the highest value  *)
(* and of equal ones with the lowest index.                                *)
THEOREM TreeComputes == Spec => []TreeIsWinner
<1>1. Init => (input.of = "tree" => input.in \in TreeInputs)
  <2>1. ASSUME input \in TreeCases  PROVE input.in \in TreeInputs
    BY <2>1 DEF TreeCases
  <2> QED  BY <2>1 DEF Init, TickCases, MemoryCases, FifoCases, StringCases, IntegerCases
<1>2. (input.of = "tree" => input.in \in TreeInputs) => TreeIsWinner
  BY TreeWins DEF TreeIsWinner
<1>3. (input.of = "tree" => input.in \in TreeInputs) /\ [Next]_input =>
        (input.of = "tree" => input.in \in TreeInputs)'
  BY DEF Next
<1> QED  BY <1>1, <1>2, <1>3, PTL DEF Spec

-----------------------------------------------------------------------------
(* The timer's parameters.                                                 *)

(* What the provers know of the quotient and the remainder, as one fact.   *)
LEMMA Division ==
  ASSUME NEW a \in Int, NEW b \in Nat, b > 0
  PROVE  /\ a \div b \in Int /\ a % b \in 0..(b - 1) /\ a = b * (a \div b) + (a % b)
         /\ a >= 0 => a \div b >= 0
OBVIOUS

(* They are the only numbers that do what a quotient and a remainder do.   *)
LEMMA QuotientIs ==
  ASSUME NEW a \in Int, NEW b \in Nat, b > 0, NEW q \in Int, NEW r \in 0..(b - 1), a = b * q + r
  PROVE  a \div b = q /\ a % b = r
<1> DEFINE d == a \div b
           s == a % b
<1>1. d \in Int /\ s \in 0..(b - 1) /\ a = b * d + s
  BY Division
<1> HIDE DEF d, s
<1>2. d = q
  <2>1. b * (d - q) = r - s
    BY <1>1
  <2>2. CASE d > q
    <3>1. d - q >= 1
      BY <1>1, <2>2
    <3>2. b * (d - q) >= b
      BY <1>1, <3>1
    <3> QED  BY <1>1, <2>1, <3>2
  <2>3. CASE d < q
    <3>1. q - d >= 1
      BY <1>1, <2>3
    <3>2. b * (q - d) >= b /\ b * (q - d) = s - r
      BY <1>1, <2>1, <3>1
    <3> QED  BY <1>1, <3>2
  <2> QED  BY <1>1, <2>2, <2>3
<1>3. s = r
  BY <1>1, <1>2
<1> QED  BY <1>2, <1>3 DEF d, s

(* One more bit of a: twice what the bits above it are, and the bit.       *)
LEMMA BitsBroughtDown ==
  ASSUME NEW a \in Nat, NEW k \in Nat
  PROVE  /\ Bit(a, k) \in {0, 1}
         /\ a \div 2^k \in Nat /\ a \div 2^(k + 1) \in Nat
         /\ a \div 2^k = 2 * (a \div 2^(k + 1)) + Bit(a, k)
<1>1. PICK p \in Nat : p = 2^k /\ p > 0 /\ 2^(k + 1) = 2 * p
  BY PowerCounts, PowerExceeds, PowerDoubles
<1> DEFINE x == a \div p
           y == x \div 2
           c == x % 2
           r == a % p
<1>2. x \in Nat /\ r \in 0..(p - 1) /\ a = p * x + r
  BY <1>1, Division
<1>3. y \in Nat /\ c \in 0..1 /\ x = 2 * y + c
  <2>1. x \in Int /\ x >= 0
    BY <1>2
  <2> HIDE DEF x
  <2> QED  BY <2>1
<1> HIDE DEF x, y, c, r
<1>4. a = (2 * p) * y + (p * c + r)
  <2>1. p * (2 * y + c) = (2 * p) * y + p * c
    BY <1>1, <1>3
  <2> QED  BY <1>1, <1>2, <1>3, <2>1
<1>5. p * c + r \in 0..(2 * p - 1)
  <2>1. CASE c = 0
    BY <1>1, <1>2, <2>1
  <2>2. CASE c = 1
    BY <1>1, <1>2, <2>2
  <2> QED  BY <1>3, <2>1, <2>2
<1>6. a \div (2 * p) = y
  <2>1. 2 * p \in Nat /\ 2 * p > 0
    BY <1>1
  <2> DEFINE d == 2 * p
             e == p * c + r
  <2>2. d \in Nat /\ d > 0 /\ e \in 0..(d - 1) /\ a = d * y + e
    BY <1>4, <1>5, <2>1
  <2> HIDE DEF d, e
  <2>3. a \div d = y
    BY <1>3, <2>2, QuotientIs
  <2> QED  BY <2>3 DEF d
<1>7. Bit(a, k) = c
  BY <1>1 DEF Bit, c, x
<1>8. a \div 2^k = x /\ a \div 2^(k + 1) = y
  BY <1>1, <1>6 DEF x
<1> QED  BY <1>2, <1>3, <1>7, <1>8

(* What the definition gives to a step of the long division.               *)
LongOf(a, b, f, i) ==
  IF i = 0 THEN [quot |-> 0, rem |-> 0]
  ELSE LET rem  == 2 * f[i - 1].rem + Bit(a, FreqBits - i)
           quot == 2 * f[i - 1].quot
       IN  IF rem >= b THEN [quot |-> quot + 1, rem |-> rem - b]
           ELSE [quot |-> quot, rem |-> rem]

(* The recursion of the long division has a solution, so that its function *)
(* is one.                                                                 *)
LEMMA LongExists ==
  ASSUME NEW a, NEW b
  PROVE  \E f : Udiv64Slow(a, b) = f[FreqBits] /\ \A i \in 0..FreqBits : f[i] = LongOf(a, b, f, i)
<1>1. FreqBits \in Nat
  BY FreqBitsAssumption
<1> DEFINE Known(f, k) == f = [i \in 0..FreqBits |-> f[i]] /\ \A i \in 0..k : f[i] = LongOf(a, b, f, i)
           T == {k \in 0..FreqBits : \E f : Known(f, k)}
<1>2. 0 \in T
  <2> DEFINE f == [i \in 0..FreqBits |-> [quot |-> 0, rem |-> 0]]
  <2>1. f[0] = LongOf(a, b, f, 0)
    BY <1>1 DEF LongOf
  <2>2. f = [i \in 0..FreqBits |-> f[i]]
    OBVIOUS
  <2>3. \A i \in 0..0 : i = 0
    OBVIOUS
  <2> HIDE DEF f
  <2>4. Known(f, 0)
    BY <2>1, <2>2, <2>3
  <2> QED  BY <1>1, <2>4
<1>3. ASSUME NEW k \in 0..(FreqBits - 1), k \in T  PROVE k + 1 \in T
  <2>1. PICK f : Known(f, k)
    BY <1>3
  <2> DEFINE g == [i \in 0..FreqBits |-> IF i = k + 1 THEN LongOf(a, b, f, k + 1) ELSE f[i]]
  <2>2. g = [i \in 0..FreqBits |-> g[i]]
    OBVIOUS
  <2>3. ASSUME NEW i \in 0..(k + 1)  PROVE g[i] = LongOf(a, b, g, i)
    <3>1. i \in 0..FreqBits
      BY <1>1, <2>3
    <3>2. i # 0 => i - 1 \in 0..FreqBits /\ i - 1 # k + 1
      BY <1>1, <2>3
    <3>3. i # 0 => g[i - 1] = f[i - 1]
      BY <3>2
    <3>4. LongOf(a, b, g, i) = LongOf(a, b, f, i)
      <4> HIDE DEF g
      <4>1. CASE i = 0
        BY <4>1 DEF LongOf
      <4>2. CASE i # 0
        BY <3>3, <4>2, Zenon DEF LongOf
      <4> QED  BY <4>1, <4>2
    <3>5. CASE i = k + 1
      <4>1. g[i] = LongOf(a, b, f, i)
        BY <3>1, <3>5
      <4> QED  BY <3>4, <4>1
    <3>6. CASE i # k + 1
      <4>1. i \in 0..k
        BY <2>3, <3>6
      <4>2. f[i] = LongOf(a, b, f, i)
        BY <2>1, <4>1
      <4>3. g[i] = f[i]
        BY <3>1, <3>6
      <4> QED  BY <3>4, <4>2, <4>3
    <3> QED  BY <3>5, <3>6
  <2>4. Known(g, k + 1)
    <3> HIDE DEF g
    <3> QED  BY <2>2, <2>3
  <2>5. k + 1 \in 0..FreqBits
    BY <1>1
  <2> QED  BY <2>4, <2>5
<1>4. FreqBits \in T
  <2> HIDE DEF T
  <2>1. \A k \in 0..FreqBits : k \in T
    BY <1>1, <1>2, <1>3, Induct
  <2> QED  BY <1>1, <2>1
<1>5. PICK f : Known(f, FreqBits)
  BY <1>4
<1> DEFINE Long(g) == g = [i \in 0..FreqBits |->
                             IF i = 0 THEN [quot |-> 0, rem |-> 0]
                             ELSE LET rem  == 2 * g[i - 1].rem + Bit(a, FreqBits - i)
                                      quot == 2 * g[i - 1].quot
                                  IN  IF rem >= b THEN [quot |-> quot + 1, rem |-> rem - b]
                                      ELSE [quot |-> quot, rem |-> rem]]
<1>6. Long(f)
  <2>1. f = [i \in 0..FreqBits |-> LongOf(a, b, f, i)]
    BY <1>5
  <2> QED  BY <2>1, Zenon DEF LongOf
<1>7. Long(CHOOSE g : Long(g))
  BY <1>6, Zenon
<1>8. Udiv64Slow(a, b) = (CHOOSE g : Long(g))[FreqBits]
  BY DEF Udiv64Slow
<1>9. ASSUME NEW i \in 0..FreqBits  PROVE (CHOOSE g : Long(g))[i] = LongOf(a, b, CHOOSE g : Long(g), i)
  <2> DEFINE g == CHOOSE g : Long(g)
  <2> SUFFICES g[i] = LongOf(a, b, g, i)
    OBVIOUS
  <2>1. Long(g)
    BY <1>7
  <2> HIDE DEF g
  <2>2. g = [n \in 0..FreqBits |-> LongOf(a, b, g, n)]
    BY <2>1, Zenon DEF LongOf
  <2> QED  BY <2>2, Zenon
<1> QED  BY <1>8, <1>9, Zenon

(* udiv64_slow divides: quotient and remainder are those of the dividend.  *)
LEMMA LongDivides ==
  ASSUME NEW a \in Freqs, NEW b \in Nat, b > 0
  PROVE  /\ Udiv64Slow(a, b).quot = a \div b
         /\ Udiv64Slow(a, b).rem = a % b
<1>1. FreqBits \in Nat /\ 2^FreqBits \in Nat /\ 2^FreqBits > 0 /\ a \in Nat /\ a < 2^FreqBits
  BY FreqBitsAssumption, PowerCounts, PowerExceeds DEF Freqs
<1>2. PICK f : Udiv64Slow(a, b) = f[FreqBits] /\ \A i \in 0..FreqBits : f[i] = LongOf(a, b, f, i)
  BY LongExists
<1> DEFINE So(i) == /\ f[i].quot \in Nat /\ f[i].rem \in 0..(b - 1)
                    /\ a \div 2^(FreqBits - i) = b * f[i].quot + f[i].rem
           T == {i \in 0..FreqBits : So(i)}
<1>3. 0 \in T
  <2>1. f[0].quot = 0 /\ f[0].rem = 0
    <3>1. f[0] = LongOf(a, b, f, 0)
      BY <1>1, <1>2
    <3>2. LongOf(a, b, f, 0) = [quot |-> 0, rem |-> 0]
      BY Zenon DEF LongOf
    <3> QED  BY <3>1, <3>2
  <2>2. a \div 2^FreqBits = 0
    <3>1. PICK p \in Nat : p = 2^FreqBits /\ p > 0
      BY <1>1
    <3>2. a \in 0..(p - 1) /\ a = p * 0 + a
      BY <1>1, <3>1
    <3>3. a \div p = 0
      BY <1>1, <3>1, <3>2, QuotientIs
    <3> QED  BY <3>1, <3>3
  <2>3. FreqBits - 0 = FreqBits
    BY <1>1
  <2> QED  BY <1>1, <2>1, <2>2, <2>3
<1>4. ASSUME NEW n \in 0..(FreqBits - 1), n \in T  PROVE n + 1 \in T
  <2> DEFINE i == n + 1
  <2>1. i \in 0..FreqBits /\ i # 0 /\ i - 1 = n /\ FreqBits - n = (FreqBits - i) + 1 /\ FreqBits - i \in Nat
    BY <1>1
  <2>2. PICK q \in Nat, r \in 0..(b - 1) : q = f[n].quot /\ r = f[n].rem /\ a \div 2^(FreqBits - n) = b * q + r
    BY <1>4
  <2>3. PICK c \in {0, 1} : c = Bit(a, FreqBits - i)
    BY <1>1, <2>1, BitsBroughtDown
  <2>4. a \div 2^(FreqBits - i) = 2 * (b * q + r) + c
    <3>1. a \div 2^(FreqBits - i) = 2 * (a \div 2^((FreqBits - i) + 1)) + Bit(a, FreqBits - i)
      BY <1>1, <2>1, BitsBroughtDown
    <3> QED  BY <2>1, <2>2, <2>3, <3>1
  <2>5. f[i] = IF 2 * r + c >= b THEN [quot |-> 2 * q + 1, rem |-> 2 * r + c - b]
               ELSE [quot |-> 2 * q, rem |-> 2 * r + c]
    <3>1. f[i] = LongOf(a, b, f, i)
      BY <1>2, <2>1
    <3> HIDE DEF i
    <3> QED  BY <2>1, <2>2, <2>3, <3>1 DEF LongOf
  <2> HIDE DEF i
  <2>6. PICK m \in Nat : m = b * q
    BY <2>2
  <2>7. b * (2 * q) = 2 * m /\ b * (2 * q + 1) = 2 * m + b
    BY <2>2, <2>6
  <2>8. CASE 2 * r + c >= b
    <3>1. f[i].quot = 2 * q + 1 /\ f[i].rem = 2 * r + c - b
      BY <2>5, <2>8
    <3>2. 2 * r + c - b \in 0..(b - 1) /\ 2 * q + 1 \in Nat
      BY <2>2, <2>3, <2>8
    <3>3. 2 * (m + r) + c = (2 * m + b) + (2 * r + c - b)
      BY <2>2, <2>3, <2>6
    <3> QED  BY <2>1, <2>4, <2>6, <2>7, <3>1, <3>2, <3>3 DEF i
  <2>9. CASE ~(2 * r + c >= b)
    <3>1. f[i].quot = 2 * q /\ f[i].rem = 2 * r + c
      BY <2>5, <2>9
    <3>2. 2 * r + c \in 0..(b - 1) /\ 2 * q \in Nat
      BY <2>2, <2>3, <2>9
    <3>3. 2 * (m + r) + c = 2 * m + (2 * r + c)
      BY <2>2, <2>3, <2>6
    <3> QED  BY <2>1, <2>4, <2>6, <2>7, <3>1, <3>2, <3>3 DEF i
  <2> QED  BY <2>8, <2>9
<1>5. FreqBits \in T
  <2> HIDE DEF T
  <2>1. \A i \in 0..FreqBits : i \in T
    BY <1>1, <1>3, <1>4, Induct
  <2> QED  BY <1>1, <2>1
<1>6. /\ f[FreqBits].quot \in Nat /\ f[FreqBits].rem \in 0..(b - 1)
      /\ a = b * f[FreqBits].quot + f[FreqBits].rem
  <2>1. FreqBits - FreqBits = 0 /\ 2^0 = 1 /\ a \div 1 = a
    BY <1>1
  <2>2. 2^(FreqBits - FreqBits) = 1
    BY <2>1
  <2> QED  BY <1>5, <2>1, <2>2
<1>7. a \div b = f[FreqBits].quot /\ a % b = f[FreqBits].rem
  <2>1. PICK q \in Nat, r \in 0..(b - 1) : q = f[FreqBits].quot /\ r = f[FreqBits].rem /\ a = b * q + r
    BY <1>6
  <2>2. a \in Int
    BY <1>1
  <2>3. ASSUME a \in Int, b \in Nat, b > 0, q \in Int, r \in 0..(b - 1), a = b * q + r
        PROVE  a \div b = q /\ a % b = r
    BY <2>3, QuotientIs, Zenon
  <2> QED  BY <2>1, <2>2, <2>3
<1> QED  BY <1>2, <1>7

(* A division by zero gives all ones.                                      *)
LEMMA LongDividesByZero ==
  ASSUME NEW a \in Freqs
  PROVE  Udiv64Slow(a, 0).quot = 2^FreqBits - 1
<1>1. FreqBits \in Nat /\ a \in Nat
  BY FreqBitsAssumption, PowerCounts DEF Freqs
<1>2. PICK f : Udiv64Slow(a, 0) = f[FreqBits] /\ \A i \in 0..FreqBits : f[i] = LongOf(a, 0, f, i)
  BY LongExists
<1> DEFINE T == {i \in 0..FreqBits : f[i].rem \in Nat /\ f[i].quot = 2^i - 1}
<1>3. 0 \in T
  <2>1. f[0].quot = 0 /\ f[0].rem = 0
    <3>1. f[0] = LongOf(a, 0, f, 0)
      BY <1>1, <1>2
    <3>2. LongOf(a, 0, f, 0) = [quot |-> 0, rem |-> 0]
      BY Zenon DEF LongOf
    <3> QED  BY <3>1, <3>2
  <2> QED  BY <1>1, <2>1
<1>4. ASSUME NEW n \in 0..(FreqBits - 1), n \in T  PROVE n + 1 \in T
  <2> DEFINE i == n + 1
  <2>1. i \in 0..FreqBits /\ i # 0 /\ i - 1 = n /\ FreqBits - i \in Nat /\ n \in Nat
    BY <1>1
  <2>2. PICK r \in Nat, p \in Nat : r = f[n].rem /\ p = 2^n /\ f[n].quot = p - 1 /\ 2^(n + 1) = 2 * p
    BY <1>4, <2>1, PowerCounts, PowerDoubles
  <2>3. PICK c \in {0, 1} : c = Bit(a, FreqBits - i)
    BY <1>1, <2>1, BitsBroughtDown
  <2>4. f[i] = IF 2 * r + c >= 0 THEN [quot |-> 2 * (p - 1) + 1, rem |-> 2 * r + c - 0]
               ELSE [quot |-> 2 * (p - 1), rem |-> 2 * r + c]
    <3>1. f[i] = LongOf(a, 0, f, i)
      BY <1>2, <2>1
    <3> HIDE DEF i
    <3> QED  BY <2>1, <2>2, <2>3, <3>1 DEF LongOf
  <2>5. 2 * r + c >= 0 /\ 2 * r + c - 0 \in Nat /\ 2 * (p - 1) + 1 = 2 * p - 1
    BY <2>2, <2>3
  <2> HIDE DEF i
  <2>6. f[i].quot = 2 * p - 1 /\ f[i].rem \in Nat
    BY <2>4, <2>5
  <2> QED  BY <2>1, <2>2, <2>6 DEF i
<1>5. FreqBits \in T
  <2> HIDE DEF T
  <2>1. \A i \in 0..FreqBits : i \in T
    BY <1>1, <1>3, <1>4, Induct
  <2> QED  BY <1>1, <2>1
<1> QED  BY <1>2, <1>5

(* What the definition gives to the greatest common divisor.               *)
GcdOf(f, a, b) == IF b = 0 THEN a ELSE f[<<b, Udiv64Slow(a, b).rem>>]

(* A remainder is a frequency again, and less than the divisor.            *)
LEMMA RemainderIs ==
  ASSUME NEW a \in Freqs, NEW b \in Freqs, b # 0
  PROVE  /\ Udiv64Slow(a, b).rem \in Freqs /\ Udiv64Slow(a, b).rem < b
         /\ a = b * (a \div b) + Udiv64Slow(a, b).rem /\ a \div b \in Int
<1>1. /\ a \in Nat /\ b \in Nat /\ b > 0 /\ 2^FreqBits \in Nat /\ b < 2^FreqBits
  BY FreqBitsAssumption, PowerCounts DEF Freqs
<1>2. Udiv64Slow(a, b).rem = a % b
  BY <1>1, LongDivides
<1>3. a % b \in 0..(b - 1) /\ a = b * (a \div b) + (a % b) /\ a \div b \in Int
  BY <1>1, Division
<1> QED  BY <1>1, <1>2, <1>3 DEF Freqs

(* Its recursion is well-founded: the second argument decreases.           *)
LEMMA GcdExists ==
  \E f : /\ \A a \in Freqs, b \in Freqs : EuclideanGcd(a, b) = f[<<a, b>>]
         /\ \A a \in Freqs, b \in Freqs : f[<<a, b>>] = GcdOf(f, a, b)
<1> DEFINE M == 2^FreqBits - 1
<1>1. M \in Nat /\ Freqs = 0..M
  BY FreqBitsAssumption, PowerCounts, PowerExceeds DEF Freqs
<1> HIDE DEF M
<1> DEFINE Known(f, k) == /\ f = [p \in Freqs \X Freqs |-> f[p]]
                          /\ \A a \in Freqs, b \in 0..k : f[<<a, b>>] = GcdOf(f, a, b)
           T == {k \in 0..M : \E f : Known(f, k)}
<1>2. 0 \in T
  <2> DEFINE f == [p \in Freqs \X Freqs |-> p[1]]
  <2>1. ASSUME NEW a \in Freqs, NEW b \in 0..0  PROVE f[<<a, b>>] = GcdOf(f, a, b)
    <3>1. b = 0 /\ <<a, b>> \in Freqs \X Freqs
      BY <1>1
    <3> QED  BY <3>1 DEF GcdOf
  <2>2. f = [p \in Freqs \X Freqs |-> f[p]]
    OBVIOUS
  <2> HIDE DEF f
  <2>3. Known(f, 0)
    BY <2>1, <2>2
  <2> HIDE DEF Known
  <2> QED  BY <1>1, <2>3
<1>3. ASSUME NEW k \in 0..(M - 1), k \in T  PROVE k + 1 \in T
  <2>1. PICK f : Known(f, k)
    BY <1>3
  <2> DEFINE g == [p \in Freqs \X Freqs |-> IF p[2] = k + 1 THEN GcdOf(f, p[1], p[2]) ELSE f[p]]
  <2>2. g = [p \in Freqs \X Freqs |-> g[p]]
    OBVIOUS
  <2>3. ASSUME NEW a \in Freqs, NEW b \in 0..(k + 1)  PROVE g[<<a, b>>] = GcdOf(g, a, b)
    <3>1. b \in Freqs /\ <<a, b>> \in Freqs \X Freqs
      BY <1>1
    <3>2. GcdOf(g, a, b) = GcdOf(f, a, b)
      <4>1. CASE b = 0
        BY <4>1 DEF GcdOf
      <4>2. CASE b # 0
        <5>1. PICK r \in Freqs : r = Udiv64Slow(a, b).rem /\ r < b
          BY <3>1, <4>2, RemainderIs
        <5>2. <<b, r>> \in Freqs \X Freqs /\ r # k + 1
          BY <1>1, <3>1, <5>1
        <5>3. g[<<b, r>>] = f[<<b, r>>]
          BY <5>2
        <5> HIDE DEF g
        <5> QED  BY <4>2, <5>1, <5>3 DEF GcdOf
      <4> QED  BY <4>1, <4>2
    <3>3. CASE b = k + 1
      <4>1. g[<<a, b>>] = GcdOf(f, a, b)
        BY <3>1, <3>3
      <4> QED  BY <3>2, <4>1
    <3>4. CASE b # k + 1
      <4>1. b \in 0..k
        BY <2>3, <3>4
      <4>2. f[<<a, b>>] = GcdOf(f, a, b)
        BY <2>1, <4>1
      <4>3. g[<<a, b>>] = f[<<a, b>>]
        BY <3>1, <3>4
      <4> QED  BY <3>2, <4>2, <4>3
    <3> QED  BY <3>3, <3>4
  <2>4. Known(g, k + 1)
    <3> HIDE DEF g
    <3> QED  BY <2>2, <2>3
  <2>5. k + 1 \in 0..M
    BY <1>1
  <2> QED  BY <2>4, <2>5
<1>4. M \in T
  <2> HIDE DEF T
  <2>1. \A k \in 0..M : k \in T
    BY <1>1, <1>2, <1>3, Induct
  <2> QED  BY <1>1, <2>1
<1>5. PICK f : Known(f, M)
  BY <1>4
<1> DEFINE Gcd(h) == h = [p \in Freqs \X Freqs |->
                            IF p[2] = 0 THEN p[1] ELSE h[<<p[2], Udiv64Slow(p[1], p[2]).rem>>]]
<1>6. Gcd(f)
  <2>1. \A a \in Freqs, b \in Freqs : f[<<a, b>>] = GcdOf(f, a, b)
    BY <1>1, <1>5
  <2>2. ASSUME NEW p \in Freqs \X Freqs  PROVE f[p] = GcdOf(f, p[1], p[2])
    <3>1. p = <<p[1], p[2]>> /\ p[1] \in Freqs /\ p[2] \in Freqs
      OBVIOUS
    <3>2. f[<<p[1], p[2]>>] = GcdOf(f, p[1], p[2])
      BY <2>1, <3>1
    <3> QED  BY <3>1, <3>2
  <2>3. f = [p \in Freqs \X Freqs |-> f[p]]
    BY <1>5
  <2>4. f = [p \in Freqs \X Freqs |-> GcdOf(f, p[1], p[2])]
    BY <2>2, <2>3
  <2> QED  BY <2>4, Zenon DEF GcdOf
<1>7. Gcd(CHOOSE h : Gcd(h))
  BY <1>6, Zenon
<1>8. PICK h : Gcd(h) /\ \A a \in Freqs, b \in Freqs : EuclideanGcd(a, b) = h[<<a, b>>]
  BY <1>7, Zenon DEF EuclideanGcd
<1>9. ASSUME NEW a \in Freqs, NEW b \in Freqs  PROVE h[<<a, b>>] = GcdOf(h, a, b)
  <2>1. h = [p \in Freqs \X Freqs |-> GcdOf(h, p[1], p[2])]
    BY <1>8, Zenon DEF GcdOf
  <2>2. <<a, b>> \in Freqs \X Freqs /\ <<a, b>>[1] = a /\ <<a, b>>[2] = b
    OBVIOUS
  <2> QED  BY <2>1, <2>2
<1> QED  BY <1>8, <1>9, Zenon

(* What the divisor is: it divides both, and is a combination of both.     *)
Divides(g, a, b) ==
  /\ g \in Nat /\ (a > 0 \/ b > 0 => g > 0) /\ g \in Freqs
  /\ \E x \in Nat, y \in Nat : a = g * x /\ b = g * y
  /\ \E u \in Int, v \in Int : g = a * u + b * v

(* One step of the algorithm: what holds of the divisor and the remainder  *)
(* holds of the dividend and the divisor.                                  *)
LEMMA DividesBack ==
  ASSUME NEW a \in Nat, NEW b \in Nat, b > 0, NEW r \in Nat, NEW q \in Nat, a = b * q + r,
         NEW g, Divides(g, b, r)
  PROVE  Divides(g, a, b)
<1>1. g \in Nat /\ g > 0 /\ g \in Freqs
  BY DEF Divides
<1>2. PICK x \in Nat, y \in Nat : b = g * x /\ r = g * y
  BY DEF Divides
<1>3. PICK u \in Int, v \in Int : g = b * u + r * v
  BY DEF Divides
<1>4. \E z \in Nat : a = g * z
  <2>1. x * q + y \in Nat
    BY <1>2
  <2>2. (g * x) * q + g * y = g * (x * q + y)
    BY <1>1, <1>2
  <2> QED  BY <1>2, <2>1, <2>2
<1>5. \E w \in Int : g = a * v + b * w
  <2>1. PICK w \in Int : w = u - q * v
    OBVIOUS
  <2>2. (b * q + r) * v + b * (u - q * v) = b * u + r * v
    OBVIOUS
  <2> QED  BY <1>3, <2>1, <2>2
<1> QED  BY <1>1, <1>2, <1>4, <1>5 DEF Divides

(* The greatest common divisor divides both frequencies and is a           *)
(* combination of them.                                                    *)
LEMMA GcdDivides ==
  ASSUME NEW a \in Freqs, NEW b \in Freqs
  PROVE  Divides(EuclideanGcd(a, b), a, b)
<1> DEFINE M == 2^FreqBits - 1
<1>1. M \in Nat /\ Freqs = 0..M
  BY FreqBitsAssumption, PowerCounts, PowerExceeds DEF Freqs
<1> HIDE DEF M
<1>2. PICK f : /\ \A c \in Freqs, d \in Freqs : EuclideanGcd(c, d) = f[<<c, d>>]
               /\ \A c \in Freqs, d \in Freqs : f[<<c, d>>] = GcdOf(f, c, d)
  BY GcdExists
<1> DEFINE T == {n \in 0..M : \A c \in Freqs, d \in 0..n : Divides(f[<<c, d>>], c, d)}
<1>3. 0 \in T
  <2>1. ASSUME NEW c \in Freqs, NEW d \in 0..0  PROVE Divides(f[<<c, d>>], c, d)
    <3>1. d = 0 /\ d \in Freqs /\ c \in Nat
      BY <1>1
    <3>2. f[<<c, d>>] = c
      BY <1>2, <3>1 DEF GcdOf
    <3>3. c = c * 1 /\ d = c * 0 /\ c = c * 1 + d * 0
      BY <3>1
    <3> QED  BY <3>1, <3>2, <3>3 DEF Divides
  <2> QED  BY <1>1, <2>1
<1>4. ASSUME NEW n \in 0..(M - 1), n \in T  PROVE n + 1 \in T
  <2>1. ASSUME NEW c \in Freqs, NEW d \in 0..(n + 1)  PROVE Divides(f[<<c, d>>], c, d)
    <3>1. CASE d \in 0..n
      BY <1>4, <3>1
    <3>2. CASE d = n + 1
      <4>1. d \in Freqs /\ d # 0 /\ c \in Nat /\ d \in Nat /\ d > 0
        BY <1>1, <3>2
      <4>2. PICK r \in Freqs : r = Udiv64Slow(c, d).rem /\ r < d
        BY <4>1, RemainderIs
      <4>3. PICK q \in Nat : c = d * q + r
        <5>1. c = d * (c \div d) + r /\ c \div d \in Int
          BY <4>1, <4>2, RemainderIs
        <5>2. c \div d >= 0
          <6>1. c \in Int /\ c >= 0
            BY <4>1
          <6> QED  BY <4>1, <6>1, Division
        <5>3. PICK q \in Int : q = c \div d
          BY <5>1
        <5>4. q \in Nat /\ c = d * q + r
          BY <5>1, <5>2, <5>3
        <5> QED  BY <5>4
      <4>4. f[<<c, d>>] = f[<<d, r>>]
        BY <1>2, <4>1, <4>2 DEF GcdOf
      <4>5. r \in 0..n /\ r \in Nat
        BY <1>1, <3>2, <4>2
      <4>6. Divides(f[<<d, r>>], d, r)
        BY <1>4, <4>1, <4>5
      <4>7. Divides(f[<<d, r>>], c, d)
        BY <4>1, <4>3, <4>5, <4>6, DividesBack
      <4> QED  BY <4>4, <4>7
    <3> QED  BY <1>1, <3>1, <3>2
  <2>2. n + 1 \in 0..M
    BY <1>1
  <2> HIDE DEF M
  <2> QED  BY <2>1, <2>2
<1>5. M \in T
  <2> HIDE DEF T
  <2>1. \A n \in 0..M : n \in T
    BY <1>1, <1>3, <1>4, Induct
  <2> QED  BY <1>1, <2>1
<1>6. b \in 0..M
  BY <1>1
<1> QED  BY <1>2, <1>5, <1>6

(* A setting is exact for a * k = b * s exactly if it is a multiple of the *)
(* quotients by the divisor.                                               *)
LEMMA Multiples ==
  ASSUME NEW g \in Nat, g > 0, NEW x \in Nat, NEW y \in Nat, x > 0,
         NEW u \in Int, NEW v \in Int, g = (g * x) * u + (g * y) * v,
         NEW k \in Nat, k > 0, NEW s \in Nat, (g * y) * k = (g * x) * s
  PROVE  k >= x /\ s >= y
<1>1. 1 = x * u + y * v
  <2>1. PICK m \in Int : m = x * u + y * v
    OBVIOUS
  <2>2. g * 1 = g * m
    BY <2>1
  <2>3. g * (m - 1) = 0
    BY <2>2
  <2>4. m = 1
    BY <2>3
  <2> QED  BY <2>1, <2>4
<1>2. y * k = x * s
  <2>1. PICK m \in Nat, n \in Nat : m = y * k /\ n = x * s
    OBVIOUS
  <2>2. g * m = g * n
    BY <2>1
  <2>3. g * (m - n) = 0
    BY <2>1, <2>2
  <2>4. m - n = 0
    BY <2>1, <2>3
  <2> QED  BY <2>1, <2>4
<1>3. PICK m \in Int : m = u * k + s * v
  OBVIOUS
<1>4. k = x * m
  <2>1. k = (x * u + y * v) * k
    BY <1>1
  <2>2. (x * u + y * v) * k = x * (u * k) + (y * k) * v
    OBVIOUS
  <2>3. (x * s) * v = x * (s * v)
    OBVIOUS
  <2>4. x * (u * k) + x * (s * v) = x * (u * k + s * v)
    OBVIOUS
  <2> QED  BY <1>2, <1>3, <2>1, <2>2, <2>3, <2>4
<1>5. m >= 1
  <2>1. CASE m <= 0
    <3>1. x * m <= 0
      BY <1>3, <2>1
    <3> QED  BY <1>4, <3>1
  <2> QED  BY <1>3, <2>1
<1>6. x * m >= x
  BY <1>3, <1>5
<1>7. s = y * m
  <2>1. x * s = x * (y * m)
    <3>1. y * (x * m) = x * (y * m)
      OBVIOUS
    <3> QED  BY <1>2, <1>4, <3>1
  <2>2. PICK n \in Int : n = y * m
    BY <1>3
  <2>3. x * (s - n) = 0
    BY <2>1, <2>2
  <2>4. s - n = 0
    BY <2>2, <2>3
  <2> QED  BY <2>2, <2>4
<1>8. y * m >= y
  BY <1>3, <1>5
<1> QED  BY <1>4, <1>6, <1>7, <1>8

(* The parameters of a pair of frequencies.                                *)
LEMMA TickExact ==
  ASSUME NEW c \in Freqs, NEW d \in Freqs
  PROVE  IsExact(c, d)
<1> DEFINE g == EuclideanGcd(c, d)
<1>1. PICK N \in Nat : N = 2^FreqBits /\ PrescaleMask < N - 2 /\ Freqs = 0..(N - 1) /\ N > 0
  BY FreqBitsAssumption, MaskAssumption, PowerCounts, PowerExceeds DEF Freqs
<1>2. PrescaleMask \in Nat /\ StepMask \in Nat /\ c \in Nat /\ d \in Nat /\ c < N /\ d < N
  BY <1>1, MaskAssumption
<1>3. Divides(g, c, d)
  BY GcdDivides
<1>4. PICK G \in Nat : G = g /\ G \in Freqs
  BY <1>3 DEF Divides
<1>5. PICK p, s : p = Udiv64Slow(c, G).quot /\ s = Udiv64Slow(d, G).quot
  OBVIOUS
<1>6. Approximate(c, d) = IF (p - 1) % N > PrescaleMask \/ s > StepMask
                          THEN [ok |-> FALSE, prescale |-> 0, step |-> 0]
                          ELSE [ok |-> TRUE, prescale |-> (p - 1) % N, step |-> s]
  BY <1>1, <1>4, <1>5 DEF Approximate
<1> HIDE DEF g
<1>7. CASE c = 0
  <2>1. (p - 1) % N > PrescaleMask
    <3>1. CASE d = 0
      <4>1. G = 0
        <5>1. PICK u \in Int, v \in Int : G = c * u + d * v
          BY <1>3, <1>4 DEF Divides
        <5> QED  BY <1>7, <3>1, <5>1
      <4>2. p = N - 1
        BY <1>1, <1>5, <4>1, LongDividesByZero
      <4>3. N - 2 \in Int /\ N - 2 = N * 0 + (N - 2) /\ N - 2 \in 0..(N - 1)
        BY <1>1, <1>2
      <4>4. (N - 2) % N = N - 2
        BY <1>1, <4>3, QuotientIs
      <4>5. p - 1 = N - 2
        BY <1>1, <4>2
      <4> QED  BY <1>1, <1>2, <4>4, <4>5
    <3>2. CASE d # 0
      <4>1. G > 0
        BY <1>2, <1>3, <1>4, <3>2 DEF Divides
      <4>2. p = 0
        <5>1. 0 \in Int /\ 0 = G * 0 + 0 /\ 0 \in 0..(G - 1)
          BY <1>4, <4>1
        <5>2. 0 \div G = 0
          BY <1>4, <4>1, <5>1, QuotientIs
        <5>3. 0 \in Freqs
          BY <1>7
        <5> QED  BY <1>4, <1>5, <1>7, <4>1, <5>2, <5>3, LongDivides
      <4>3. PICK m \in Int : m = p - 1
        BY <4>2
      <4>4. m = N * m + (N - 1) /\ N - 1 \in 0..(N - 1)
        BY <1>1, <4>2, <4>3
      <4>5. m % N = N - 1
        BY <1>1, <4>3, <4>4, QuotientIs
      <4> QED  BY <1>1, <1>2, <4>3, <4>5
    <3> QED  BY <3>1, <3>2
  <2>2. ~Approximate(c, d).ok
    BY <1>6, <2>1
  <2> QED  BY <1>7, <2>2 DEF IsExact
<1>8. CASE c # 0
  <2>1. G > 0
    BY <1>2, <1>3, <1>4, <1>8 DEF Divides
  <2>2. PICK x \in Nat, y \in Nat : c = G * x /\ d = G * y
    BY <1>3, <1>4 DEF Divides
  <2>3. PICK u \in Int, v \in Int : G = (G * x) * u + (G * y) * v
    BY <1>3, <1>4, <2>2 DEF Divides
  <2>4. x > 0
    BY <1>4, <1>8, <2>2
  <2>5. x <= c
    <3>1. G * x >= x
      BY <1>4, <2>1, <2>2
    <3> QED  BY <2>2, <3>1
  <2>6. p = x /\ s = y
    <3>1. c \in Int /\ d \in Int /\ 0 \in 0..(G - 1) /\ c = G * x + 0 /\ d = G * y + 0
      BY <1>2, <1>4, <2>1, <2>2
    <3>2. c \div G = x
      BY <1>4, <2>1, <2>2, <3>1, QuotientIs
    <3>3. d \div G = y
      BY <1>4, <2>1, <2>2, <3>1, QuotientIs
    <3> QED  BY <1>4, <1>5, <2>1, <3>2, <3>3, LongDivides
  <2>7. (p - 1) % N = x - 1
    <3>1. x - 1 \in Int /\ x - 1 = N * 0 + (x - 1) /\ x - 1 \in 0..(N - 1)
      BY <1>1, <1>2, <2>2, <2>4, <2>5
    <3>2. (x - 1) % N = x - 1
      BY <1>1, <3>1, QuotientIs
    <3> QED  BY <2>6, <3>2
  <2>8. ASSUME NEW k \in Nat, NEW t \in Nat, Exact(c, d, k, t)  PROVE k + 1 >= x /\ t >= y
    <3>1. (G * y) * (k + 1) = (G * x) * t /\ k + 1 \in Nat /\ k + 1 > 0
      BY <2>2, <2>8 DEF Exact
    <3> QED  BY <1>4, <2>1, <2>2, <2>3, <2>4, <3>1, Multiples
  <2>9. CASE x - 1 > PrescaleMask \/ y > StepMask
    <3>1. ~Approximate(c, d).ok
      BY <1>6, <2>6, <2>7, <2>9
    <3>2. ASSUME NEW k \in 0..PrescaleMask, NEW t \in 0..StepMask  PROVE ~Exact(c, d, k, t)
      <4>1. k \in Nat /\ t \in Nat /\ k <= PrescaleMask /\ t <= StepMask
        BY <1>2
      <4>2. ~(k + 1 >= x /\ t >= y)
        BY <1>2, <2>2, <2>9, <4>1
      <4> QED  BY <2>8, <4>1, <4>2
    <3> QED  BY <3>1, <3>2 DEF IsExact
  <2>10. CASE ~(x - 1 > PrescaleMask \/ y > StepMask)
    <3>1. Approximate(c, d) = [ok |-> TRUE, prescale |-> x - 1, step |-> y]
      BY <1>6, <2>6, <2>7, <2>10
    <3>2. Approximate(c, d).ok /\ Approximate(c, d).prescale = x - 1 /\ Approximate(c, d).step = y
      BY <3>1
    <3>3. Exact(c, d, x - 1, y)
      <4>1. (x - 1) + 1 = x
        BY <2>2
      <4>2. (G * y) * x = (G * x) * y
        BY <1>4, <2>2
      <4> QED  BY <2>2, <4>1, <4>2 DEF Exact
    <3>4. ASSUME NEW k \in 0..((x - 1) - 1), NEW t \in 0..StepMask  PROVE ~Exact(c, d, k, t)
      <4>1. k \in Nat /\ t \in Nat /\ ~(k + 1 >= x)
        BY <1>2, <2>2
      <4> QED  BY <2>8, <4>1
    <3> QED  BY <3>2, <3>3, <3>4 DEF IsExact
  <2> QED  BY <2>9, <2>10
<1> QED  BY <1>7, <1>8

(* Every answer of dif_rv_timer_approximate_tick_params is exact with the  *)
(* smallest prescaler, and an error means no setting is exact: for every   *)
(* pair of frequencies and every width of the registers.                   *)
THEOREM TickParamsAreExact == Spec => []TickParamsExact
<1> DEFINE Known == input.of = "tick" => input.clockFreq \in Freqs /\ input.counterFreq \in Freqs
<1>1. Init => Known
  <2>1. ASSUME input \in TickCases  PROVE input.clockFreq \in Freqs /\ input.counterFreq \in Freqs
    BY <2>1 DEF TickCases
  <2> QED  BY <2>1 DEF Init, TreeCases, MemoryCases, FifoCases, StringCases, IntegerCases
<1>2. Known => TickParamsExact
  BY TickExact DEF TickParamsExact
<1>3. Known /\ [Next]_input => Known'
  BY DEF Next
<1> QED  BY <1>1, <1>2, <1>3, PTL DEF Spec

-----------------------------------------------------------------------------
(* The SPI host's FIFOs.  The bytes are numbered: what is moved is known   *)
(* by its first and its last byte.                                         *)

(* A row of bytes has as many bytes as it spans.                           *)
LEMMA UptoIs ==
  ASSUME NEW a \in Int, NEW b \in Int, b >= a - 1
  PROVE  /\ Upto(a, b) \in Seq(Int)
         /\ Len(Upto(a, b)) = b - a + 1
         /\ \A i \in 1..(b - a + 1) : Upto(a, b)[i] = a + i - 1
<1>1. b - a + 1 \in Nat
  OBVIOUS
<1> QED  BY <1>1 DEF Upto

(* Rows that follow one another join into one.                             *)
LEMMA UptoJoined ==
  ASSUME NEW a \in Int, NEW b \in Int, NEW c \in Int, b >= a - 1, c >= b
  PROVE  Upto(a, b) \o Upto(b + 1, c) = Upto(a, c)
<1>1. /\ Upto(a, b) \in Seq(Int) /\ Len(Upto(a, b)) = b - a + 1
      /\ \A i \in 1..(b - a + 1) : Upto(a, b)[i] = a + i - 1
  BY UptoIs
<1>2. /\ Upto(b + 1, c) \in Seq(Int) /\ Len(Upto(b + 1, c)) = c - b
      /\ \A i \in 1..(c - b) : Upto(b + 1, c)[i] = b + i
  <2> DEFINE d == b + 1
  <2>1. d \in Int /\ c >= d - 1 /\ c - d + 1 = c - b /\ \A i \in Int : d + i - 1 = b + i
    OBVIOUS
  <2> HIDE DEF d
  <2>2. /\ Upto(d, c) \in Seq(Int) /\ Len(Upto(d, c)) = c - d + 1
        /\ \A i \in 1..(c - d + 1) : Upto(d, c)[i] = d + i - 1
    BY <2>1, UptoIs
  <2>3. \A i \in 1..(c - b) : Upto(d, c)[i] = b + i
    BY <2>1, <2>2
  <2> QED  BY <2>1, <2>2, <2>3 DEF d
<1>3. /\ Upto(a, c) \in Seq(Int) /\ Len(Upto(a, c)) = c - a + 1
      /\ \A i \in 1..(c - a + 1) : Upto(a, c)[i] = a + i - 1
  <2>1. c >= a - 1
    OBVIOUS
  <2> QED  BY <2>1, UptoIs
<1> DEFINE s == Upto(a, b)
           t == Upto(b + 1, c)
<1>4. /\ s \o t \in Seq(Int) /\ Len(s \o t) = Len(s) + Len(t)
      /\ \A i \in 1..(Len(s) + Len(t)) : (s \o t)[i] = IF i <= Len(s) THEN s[i] ELSE t[i - Len(s)]
  <2> HIDE DEF s, t
  <2>1. s \in Seq(Int) /\ t \in Seq(Int)
    BY <1>1, <1>2 DEF s, t
  <2> QED  BY <2>1, ConcatProperties
<1>5. Len(s \o t) = c - a + 1
  BY <1>1, <1>2, <1>4
<1>6. ASSUME NEW i \in 1..(c - a + 1)  PROVE (s \o t)[i] = a + i - 1
  <2>1. (s \o t)[i] = IF i <= b - a + 1 THEN s[i] ELSE t[i - (b - a + 1)]
    BY <1>1, <1>2, <1>4
  <2>2. CASE i <= b - a + 1
    BY <1>1, <2>1, <2>2
  <2>3. CASE ~(i <= b - a + 1)
    <3>1. PICK j \in 1..(c - b) : j = i - (b - a + 1)
      BY <2>3
    <3>2. t[j] = b + j
      BY <1>2
    <3>3. (s \o t)[i] = t[j]
      BY <2>1, <2>3, <3>1
    <3>4. b + j = a + i - 1
      BY <3>1
    <3> HIDE DEF s, t
    <3> QED  BY <3>2, <3>3, <3>4
  <2> QED  BY <2>2, <2>3
<1> HIDE DEF s, t
<1>7. s \o t = Upto(a, c)
  BY <1>3, <1>4, <1>5, <1>6, SeqEqual
<1> QED  BY <1>7 DEF s, t

(* The same for rows from the first byte on.                               *)
LEMMA UptoMore ==
  ASSUME NEW p \in Nat, NEW q \in Nat, q >= p
  PROVE  Upto(1, p) \o Upto(p + 1, q) = Upto(1, q)
<1> DEFINE a == 1
<1>1. a \in Int /\ p >= a - 1
  OBVIOUS
<1> HIDE DEF a
<1>2. Upto(a, p) \o Upto(p + 1, q) = Upto(a, q)
  BY <1>1, UptoJoined
<1> QED  BY <1>2 DEF a

(* A part of a row is a row.                                               *)
LEMMA UptoPart ==
  ASSUME NEW a \in Int, NEW b \in Int, b >= a - 1, NEW i \in Int, NEW j \in Int,
         1 <= i, i <= j + 1, j <= b - a + 1
  PROVE  SubSeq(Upto(a, b), i, j) = Upto(a + i - 1, a + j - 1)
<1>1. \A k \in 1..(b - a + 1) : Upto(a, b)[k] = a + k - 1
  BY UptoIs
<1>2. SubSeq(Upto(a, b), i, j) = [k \in 1..(1 + j - i) |-> Upto(a, b)[i + k - 1]]
  OBVIOUS
<1>3. \A k \in 1..(1 + j - i) : Upto(a, b)[i + k - 1] = (a + i - 1) + k - 1
  BY <1>1
<1>4. (a + j - 1) - (a + i - 1) + 1 = 1 + j - i
  OBVIOUS
<1> QED  BY <1>2, <1>3, <1>4 DEF Upto

(* Entries that follow one another from ends[k - 1] to ends[k] make one    *)
(* row of bytes.                                                           *)
LEMMA FlattenJoins ==
  ASSUME NEW n \in Nat, NEW ends \in [0..n -> Nat], ends[0] = 0,
         \A k \in 1..n : ends[k] >= ends[k - 1],
         NEW s, DOMAIN s = 1..n, s \in Seq(Seq(Int)), \A k \in 1..n : s[k] = Upto(ends[k - 1] + 1, ends[k])
  PROVE  FlattenSeq(s) = Upto(1, ends[n])
<1>0. Len(s) = n
  BY LenProperties
<1>1. CASE n = 0
  <2>1. s = <<>>
    BY <1>0, <1>1, EmptySeq
  <2>2. FlattenSeq(s) = s
    BY <1>0, <1>1 DEF FlattenSeq
  <2>3. Upto(1, 0) = <<>>
    BY DEF Upto
  <2> QED  BY <1>1, <2>1, <2>2, <2>3
<1>2. CASE n # 0
  <2> DEFINE Flat(f) == f = [i \in 1..n |-> IF i = 1 THEN s[i] ELSE f[i - 1] \o s[i]]
             f == [i \in 1..n |-> Upto(1, ends[i])]
  <2>1. FlattenSeq(s) = (CHOOSE g : Flat(g))[n]
    BY <1>0, <1>2 DEF FlattenSeq
  <2>2. Flat(f)
    <3>1. ASSUME NEW i \in 1..n  PROVE f[i] = IF i = 1 THEN s[i] ELSE f[i - 1] \o s[i]
      <4>1. CASE i = 1
        BY <4>1
      <4>2. CASE i # 1
        <5>1. i - 1 \in 1..n /\ i \in 0..n /\ i - 1 \in 0..n
          BY <4>2
        <5>2. ends[i - 1] \in Nat /\ ends[i] \in Nat /\ ends[i] >= ends[i - 1]
          BY <5>1
        <5>3. Upto(1, ends[i - 1]) \o Upto(ends[i - 1] + 1, ends[i]) = Upto(1, ends[i])
          <6>1. PICK p \in Nat, q \in Nat : p = ends[i - 1] /\ q = ends[i] /\ q >= p
            BY <5>2
          <6>2. Upto(1, p) \o Upto(p + 1, q) = Upto(1, q)
            BY <6>1, UptoMore
          <6> QED  BY <6>1, <6>2
        <5> QED  BY <4>2, <5>1, <5>3
      <4> QED  BY <4>1, <4>2
    <3> QED  BY <3>1
  <2> HIDE DEF f
  <2> DEFINE g == CHOOSE g : Flat(g)
  <2>3. Flat(g)
    BY <2>2, Zenon
  <2> HIDE DEF g
  <2> DEFINE T == {i \in 0..n : i # 0 => g[i] = Upto(1, ends[i])}
  <2>4. 0 \in T
    OBVIOUS
  <2>5. ASSUME NEW k \in 0..(n - 1), k \in T  PROVE k + 1 \in T
    <3>1. k + 1 \in 1..n /\ k + 1 \in 0..n
      OBVIOUS
    <3>2. g[k + 1] = IF k + 1 = 1 THEN s[k + 1] ELSE g[(k + 1) - 1] \o s[k + 1]
      BY <2>3, <3>1
    <3>3. CASE k = 0
      BY <3>1, <3>2, <3>3
    <3>4. CASE k # 0
      <4>1. g[k] = Upto(1, ends[k]) /\ (k + 1) - 1 = k /\ k + 1 # 1
        BY <2>5, <3>4
      <4>2. s[k + 1] = Upto(ends[k] + 1, ends[k + 1])
        BY <3>1, <4>1
      <4>3. ends[k] \in Nat /\ ends[k + 1] \in Nat /\ ends[k + 1] >= ends[k]
        BY <3>1, <4>1
      <4>4. Upto(1, ends[k]) \o Upto(ends[k] + 1, ends[k + 1]) = Upto(1, ends[k + 1])
        <5>1. PICK p \in Nat, q \in Nat : p = ends[k] /\ q = ends[k + 1] /\ q >= p
          BY <4>3
        <5>2. Upto(1, p) \o Upto(p + 1, q) = Upto(1, q)
          BY <5>1, UptoMore
        <5> QED  BY <5>1, <5>2
      <4> QED  BY <3>1, <3>2, <4>1, <4>2, <4>4
    <3> QED  BY <3>3, <3>4
  <2>6. n \in T
    <3> HIDE DEF T
    <3>1. \A i \in 0..n : i \in T
      BY <2>4, <2>5, Induct
    <3> QED  BY <3>1
  <2> QED  BY <1>2, <2>1, <2>6 DEF g
<1> QED  BY <1>1, <1>2

(* A transfer has h single bytes, then w words, then t single bytes.       *)
Layout(addr, len, h, w, t) ==
  /\ h = Head2Align(addr, len) /\ w = (len - h) \div FifoWord
  /\ len = h + w * FifoWord + t
  /\ w > 0 => \E m \in Nat : addr + h = FifoWord * m

(* Every transfer has this layout: the head ends where words are aligned,  *)
(* or with the transfer.                                                   *)
LEMMA LayoutIs ==
  ASSUME NEW addr \in 0..(FifoWord - 1), NEW len \in Nat
  PROVE  \E h \in Nat, w \in Nat, t \in Nat : Layout(addr, len, h, w, t)
<1>0. FifoWord \in Nat /\ FifoWord >= 2
  BY FifoWordAssumption
<1>1. PICK ahead \in 0..(FifoWord - 1), m \in Nat :
        ahead = (FifoWord - addr) % FifoWord /\ addr + ahead = FifoWord * m
  <2>1. CASE addr = 0
    <3>1. FifoWord - addr = FifoWord * 1 + 0 /\ FifoWord - addr \in Int /\ 0 \in 0..(FifoWord - 1)
      BY <1>0, <2>1
    <3>2. (FifoWord - addr) % FifoWord = 0
      BY <1>0, <3>1, QuotientIs
    <3>3. addr + 0 = FifoWord * 0
      BY <1>0, <2>1
    <3> QED  BY <3>1, <3>2, <3>3
  <2>2. CASE addr # 0
    <3>1. /\ FifoWord - addr = FifoWord * 0 + (FifoWord - addr) /\ FifoWord - addr \in Int
          /\ FifoWord - addr \in 0..(FifoWord - 1)
      BY <1>0, <2>2
    <3>2. (FifoWord - addr) % FifoWord = FifoWord - addr
      BY <1>0, <3>1, QuotientIs
    <3>3. addr + (FifoWord - addr) = FifoWord * 1
      BY <1>0
    <3> QED  BY <3>1, <3>2, <3>3
  <2> QED  BY <2>1, <2>2
<1>2. Head2Align(addr, len) = IF len < ahead THEN len ELSE ahead
  BY <1>1 DEF Head2Align
<1>3. CASE len < ahead
  <2>1. len - len \in Int /\ len - len = FifoWord * 0 + 0 /\ 0 \in 0..(FifoWord - 1)
    BY <1>0
  <2>2. (len - len) \div FifoWord = 0
    BY <1>0, <2>1, QuotientIs
  <2>3. len = len + 0 * FifoWord + 0
    BY <1>0
  <2> QED  BY <1>2, <1>3, <2>2, <2>3 DEF Layout
<1>4. CASE ~(len < ahead)
  <2>1. PICK d \in Nat : d = len - ahead
    BY <1>4
  <2>2. PICK w \in Nat, t \in Nat : w = d \div FifoWord /\ d = FifoWord * w + t
    <3>1. d \in Int /\ d >= 0
      OBVIOUS
    <3>2. d \div FifoWord \in Int /\ d % FifoWord \in 0..(FifoWord - 1)
          /\ d = FifoWord * (d \div FifoWord) + (d % FifoWord) /\ d \div FifoWord >= 0
      BY <1>0, <3>1, Division
    <3>3. d \div FifoWord \in Nat /\ d % FifoWord \in Nat
      BY <1>0, <3>2
    <3> QED  BY <3>2, <3>3
  <2>3. len = ahead + w * FifoWord + t
    BY <1>0, <2>1, <2>2
  <2>4. Head2Align(addr, len) = ahead /\ (len - ahead) \div FifoWord = w /\ ahead \in Nat
    BY <1>0, <1>2, <1>4, <2>1, <2>2
  <2> QED  BY <1>1, <2>3, <2>4 DEF Layout
<1> QED  BY <1>3, <1>4

(* The number of bytes that the first k steps move.                        *)
EndOf(word, h, w, k) ==
  IF k <= h THEN k
  ELSE IF k <= h + w THEN h + (k - h) * word ELSE h + w * word + (k - h - w)

(* The number of bytes of the k-th step.                                   *)
SizeOf(word, h, w, k) == IF h < k /\ k <= h + w THEN word ELSE 1

(* Where the steps end, with 0 for where the first begins.                 *)
Ends(word, h, w, t) == [k \in 0..(h + w + t) |-> EndOf(word, h, w, k)]

(* Each step moves on by its size, from 0 to the whole length.             *)
LEMMA EndsAre ==
  ASSUME NEW word \in Nat, word > 0, NEW h \in Nat, NEW w \in Nat, NEW t \in Nat
  PROVE  /\ Ends(word, h, w, t) \in [0..(h + w + t) -> Nat]
         /\ Ends(word, h, w, t)[0] = 0
         /\ Ends(word, h, w, t)[h + w + t] = h + w * word + t
         /\ \A k \in 1..(h + w + t) :
              /\ k - 1 \in 0..(h + w + t) /\ k \in 0..(h + w + t)
              /\ Ends(word, h, w, t)[k] = Ends(word, h, w, t)[k - 1] + SizeOf(word, h, w, k)
              /\ Ends(word, h, w, t)[k] <= h + w * word + t
<1>0. word \in Nat /\ word > 0
  OBVIOUS
<1> DEFINE n == h + w + t
<1>1. PICK m \in Nat : m = w * word
  BY <1>0
<1>2. ASSUME NEW k \in 0..n
      PROVE  EndOf(word, h, w, k) \in Nat /\ EndOf(word, h, w, k) <= h + m + t
  <2>1. CASE k <= h
    BY <1>1, <2>1 DEF EndOf
  <2>2. CASE k > h /\ k <= h + w
    <3>1. PICK j \in Nat : j = k - h /\ j <= w
      BY <2>2
    <3>2. j * word \in Nat /\ j * word <= w * word
      BY <1>0, <3>1
    <3>3. EndOf(word, h, w, k) = h + j * word
      BY <2>2, <3>1 DEF EndOf
    <3> QED  BY <1>1, <3>2, <3>3
  <2>3. CASE k > h + w
    <3>1. EndOf(word, h, w, k) = h + m + (k - h - w)
      BY <1>1, <2>3 DEF EndOf
    <3> QED  BY <1>1, <2>3, <3>1
  <2> QED  BY <2>1, <2>2, <2>3
<1>3. ASSUME NEW k \in 1..n
      PROVE  EndOf(word, h, w, k) = EndOf(word, h, w, k - 1) + SizeOf(word, h, w, k)
  <2>1. CASE k <= h
    BY <2>1 DEF EndOf, SizeOf
  <2>2. CASE k > h /\ k <= h + w
    <3>1. PICK j \in Nat : j = (k - 1) - h /\ k - h = j + 1
      BY <2>2
    <3>2. (j + 1) * word = j * word + word
      BY <1>0, <3>1
    <3>3. EndOf(word, h, w, k) = h + (j + 1) * word /\ SizeOf(word, h, w, k) = word
      BY <2>2, <3>1 DEF EndOf, SizeOf
    <3>4. EndOf(word, h, w, k - 1) = h + j * word
      <4>1. CASE k - 1 = h
        <5>1. j = 0 /\ 0 * word = 0
          BY <1>0, <3>1, <4>1
        <5> QED  BY <4>1, <5>1 DEF EndOf
      <4>2. CASE k - 1 # h
        BY <2>2, <3>1, <4>2 DEF EndOf
      <4> QED  BY <4>1, <4>2
    <3> QED  BY <1>0, <3>2, <3>3, <3>4
  <2>3. CASE k > h + w
    <3>1. EndOf(word, h, w, k) = h + m + (k - h - w) /\ SizeOf(word, h, w, k) = 1
      BY <1>1, <2>3 DEF EndOf, SizeOf
    <3>2. EndOf(word, h, w, k - 1) = h + m + (k - 1 - h - w)
      <4>1. CASE k - 1 > h + w
        BY <1>1, <4>1 DEF EndOf
      <4>2. CASE k - 1 = h + w /\ w > 0
        BY <1>1, <4>2 DEF EndOf
      <4>3. CASE k - 1 = h + w /\ w = 0
        <5>1. m = 0
          BY <1>0, <1>1, <4>3
        <5> QED  BY <4>3, <5>1 DEF EndOf
      <4> QED  BY <2>3, <4>1, <4>2, <4>3
    <3> QED  BY <1>1, <3>1, <3>2
  <2> QED  BY <2>1, <2>2, <2>3
<1>4. EndOf(word, h, w, 0) = 0
  BY DEF EndOf
<1>5. EndOf(word, h, w, n) = h + m + t
  <2>1. CASE t > 0
    BY <1>1, <2>1 DEF EndOf
  <2>2. CASE t = 0 /\ w > 0
    BY <1>1, <2>2 DEF EndOf
  <2>3. CASE t = 0 /\ w = 0
    <3>1. m = 0
      BY <1>0, <1>1, <2>3
    <3> QED  BY <2>3, <3>1 DEF EndOf
  <2> QED  BY <2>1, <2>2, <2>3
<1>6. n \in Nat /\ 0 \in 0..n /\ n \in 0..n /\ \A k \in 1..n : k - 1 \in 0..n /\ k \in 0..n
  OBVIOUS
<1>7. Ends(word, h, w, t) = [k \in 0..n |-> EndOf(word, h, w, k)]
  BY DEF Ends
<1> HIDE DEF n
<1>8. /\ Ends(word, h, w, t) \in [0..n -> Nat]
      /\ Ends(word, h, w, t)[0] = 0
      /\ Ends(word, h, w, t)[n] = h + m + t
      /\ \A k \in 1..n : /\ k - 1 \in 0..n /\ k \in 0..n
                         /\ Ends(word, h, w, t)[k] = Ends(word, h, w, t)[k - 1] + SizeOf(word, h, w, k)
                         /\ Ends(word, h, w, t)[k] <= h + m + t
  BY <1>2, <1>3, <1>4, <1>5, <1>6, <1>7
<1> QED  BY <1>1, <1>8 DEF n

(* Three rows one after the other.                                         *)
LEMMA ThreeRows ==
  ASSUME NEW S, NEW r \in Seq(S), NEW s \in Seq(S), NEW u \in Seq(S)
  PROVE  /\ (r \o s) \o u \in Seq(S)
         /\ Len((r \o s) \o u) = Len(r) + Len(s) + Len(u)
         /\ \A k \in 1..(Len(r) + Len(s) + Len(u)) :
              ((r \o s) \o u)[k] = IF k <= Len(r) THEN r[k]
                                   ELSE IF k <= Len(r) + Len(s) THEN s[k - Len(r)]
                                   ELSE u[k - Len(r) - Len(s)]
<1>1. Len(r) \in Nat /\ Len(s) \in Nat /\ Len(u) \in Nat
  BY LenProperties
<1> DEFINE v == r \o s
<1>2. /\ v \in Seq(S) /\ Len(v) = Len(r) + Len(s)
      /\ \A i \in 1..(Len(r) + Len(s)) : v[i] = IF i <= Len(r) THEN r[i] ELSE s[i - Len(r)]
  BY ConcatProperties
<1> HIDE DEF v
<1>3. /\ v \o u \in Seq(S) /\ Len(v \o u) = Len(v) + Len(u)
      /\ \A i \in 1..(Len(v) + Len(u)) : (v \o u)[i] = IF i <= Len(v) THEN v[i] ELSE u[i - Len(v)]
  <2>1. v \in Seq(S) /\ u \in Seq(S)
    BY <1>2
  <2> QED  BY <2>1, ConcatProperties
<1> DEFINE x == v \o u
<1>4. /\ x \in Seq(S) /\ Len(x) = Len(v) + Len(u)
      /\ \A i \in 1..(Len(v) + Len(u)) : x[i] = IF i <= Len(v) THEN v[i] ELSE u[i - Len(v)]
  BY <1>3
<1> HIDE DEF x
<1>5. ASSUME NEW k \in 1..(Len(r) + Len(s) + Len(u))
      PROVE  x[k] = IF k <= Len(r) THEN r[k]
                    ELSE IF k <= Len(r) + Len(s) THEN s[k - Len(r)] ELSE u[k - Len(r) - Len(s)]
  <2>1. x[k] = IF k <= Len(r) + Len(s) THEN v[k] ELSE u[k - (Len(r) + Len(s))]
    BY <1>1, <1>2, <1>4
  <2>2. k - (Len(r) + Len(s)) = k - Len(r) - Len(s)
    BY <1>1
  <2>3. k <= Len(r) + Len(s) => v[k] = IF k <= Len(r) THEN r[k] ELSE s[k - Len(r)]
    BY <1>1, <1>2
  <2>4. k <= Len(r) => k <= Len(r) + Len(s)
    BY <1>1
  <2> QED  BY <2>1, <2>2, <2>3, <2>4
<1> QED  BY <1>2, <1>4, <1>5 DEF x, v

(* The sizes a read stores at a time.                                      *)
LEMMA StepsAre ==
  ASSUME NEW addr \in 0..(FifoWord - 1), NEW len \in Nat,
         NEW h \in Nat, NEW w \in Nat, NEW t \in Nat, Layout(addr, len, h, w, t)
  PROVE  /\ StepSizes(addr, len) \in Seq(Nat)
         /\ Len(StepSizes(addr, len)) = h + w + t
         /\ \A k \in 1..(h + w + t) : StepSizes(addr, len)[k] = SizeOf(FifoWord, h, w, k)
<1>0. FifoWord \in Nat /\ FifoWord >= 2
  BY FifoWordAssumption
<1> DEFINE r == [i \in 1..h |-> 1]
           s == [i \in 1..w |-> FifoWord]
           u == [i \in 1..t |-> 1]
<1>1. StepSizes(addr, len) = (r \o s) \o u
  <2>1. PICK m \in Nat : m = w * FifoWord
    BY <1>0
  <2>2. len - h - w * FifoWord = t
    BY <2>1 DEF Layout
  <2>3. h = Head2Align(addr, len) /\ w = (len - h) \div FifoWord
    BY DEF Layout
  <2> QED  BY <2>2, <2>3 DEF StepSizes
<1>2. r \in Seq(Nat) /\ Len(r) = h /\ s \in Seq(Nat) /\ Len(s) = w /\ u \in Seq(Nat) /\ Len(u) = t
  BY <1>0
<1>3. /\ \A i \in 1..h : r[i] = 1
      /\ \A i \in 1..w : s[i] = FifoWord
      /\ \A i \in 1..t : u[i] = 1
  OBVIOUS
<1> HIDE DEF r, s, u
<1> DEFINE x == (r \o s) \o u
<1>4. /\ x \in Seq(Nat) /\ Len(x) = h + w + t
      /\ \A k \in 1..(h + w + t) : x[k] = IF k <= h THEN r[k] ELSE IF k <= h + w THEN s[k - h] ELSE u[k - h - w]
  <2>1. r \in Seq(Nat) /\ s \in Seq(Nat) /\ u \in Seq(Nat)
    BY <1>2
  <2>2. /\ x \in Seq(Nat) /\ Len(x) = Len(r) + Len(s) + Len(u)
        /\ \A k \in 1..(Len(r) + Len(s) + Len(u)) :
             x[k] = IF k <= Len(r) THEN r[k]
                    ELSE IF k <= Len(r) + Len(s) THEN s[k - Len(r)] ELSE u[k - Len(r) - Len(s)]
    BY <2>1, ThreeRows
  <2>3. Len(r) = h /\ Len(s) = w /\ Len(u) = t
    BY <1>2
  <2> HIDE DEF x
  <2> QED  BY <2>2, <2>3
<1> HIDE DEF x
<1>5. ASSUME NEW k \in 1..(h + w + t)  PROVE x[k] = SizeOf(FifoWord, h, w, k)
  <2>1. CASE k <= h
    <3>1. k \in 1..h
      BY <2>1
    <3>2. x[k] = r[k]
      BY <1>4, <2>1
    <3> QED  BY <1>3, <2>1, <3>1, <3>2 DEF SizeOf
  <2>2. CASE k > h /\ k <= h + w
    <3>1. PICK j \in 1..w : j = k - h
      BY <2>2
    <3>2. x[k] = s[j]
      BY <1>4, <2>2, <3>1
    <3> QED  BY <1>3, <2>2, <3>2 DEF SizeOf
  <2>3. CASE k > h + w
    <3>1. PICK j \in 1..t : j = k - h - w
      BY <2>3
    <3>2. x[k] = u[j]
      BY <1>4, <2>3, <3>1
    <3> QED  BY <1>3, <2>3, <3>2 DEF SizeOf
  <2> QED  BY <2>1, <2>2, <2>3
<1> QED  BY <1>1, <1>4, <1>5 DEF x

(* The entries a write makes.                                              *)
LEMMA EntriesAre ==
  ASSUME NEW addr \in 0..(FifoWord - 1), NEW len \in Nat,
         NEW h \in Nat, NEW w \in Nat, NEW t \in Nat, Layout(addr, len, h, w, t),
         NEW ends, ends = Ends(FifoWord, h, w, t), NEW out, out = FifoWrite(addr, Upto(1, len))
  PROVE  /\ out \in Seq(Seq(Int))
         /\ Len(out) = h + w + t
         /\ \A k \in 1..(h + w + t) : out[k] = Upto(ends[k - 1] + 1, ends[k])
<1>0. FifoWord \in Nat /\ FifoWord >= 2
  BY FifoWordAssumption
<1>12. /\ Ends(FifoWord, h, w, t) \in [0..(h + w + t) -> Nat]
       /\ Ends(FifoWord, h, w, t)[0] = 0
       /\ Ends(FifoWord, h, w, t)[h + w + t] = h + w * FifoWord + t
       /\ \A k \in 1..(h + w + t) :
            /\ k - 1 \in 0..(h + w + t) /\ k \in 0..(h + w + t)
            /\ Ends(FifoWord, h, w, t)[k] = Ends(FifoWord, h, w, t)[k - 1] + SizeOf(FifoWord, h, w, k)
            /\ Ends(FifoWord, h, w, t)[k] <= h + w * FifoWord + t
  <2>1. FifoWord \in Nat /\ FifoWord > 0
    BY <1>0
  <2> QED  BY <2>1, EndsAre
<1>1. PICK m \in Nat : m = w * FifoWord /\ len = h + m + t
  BY <1>0 DEF Layout
<1> DEFINE src == Upto(1, len)
<1>2. src \in Seq(Int) /\ Len(src) = len /\ \A i \in 1..len : src[i] = i
  BY DEF Upto
<1> DEFINE r == [i \in 1..h |-> <<src[i]>>]
           s == [i \in 1..w |-> SubSeq(src, h + (i - 1) * FifoWord + 1, h + i * FifoWord)]
           u == [i \in 1..t |-> <<src[(h + m) + i]>>]
<1>3. out = (r \o s) \o u
  <2>1. Len(src) - (h + w * FifoWord) = t
    BY <1>1, <1>2
  <2>2. h = Head2Align(addr, Len(src)) /\ w = (Len(src) - h) \div FifoWord
    BY <1>2 DEF Layout
  <2> HIDE DEF src
  <2> QED  BY <1>1, <2>1, <2>2 DEF FifoWrite, src
<1> HIDE DEF src
<1>4. \A i \in 1..h : r[i] = <<i>>
  <2>1. \A i \in 1..h : i \in 1..len
    BY <1>1
  <2> QED  BY <1>2, <2>1
<1>5. ASSUME NEW i \in 1..w  PROVE s[i] = Upto(h + (i - 1) * FifoWord + 1, h + i * FifoWord)
  <2>1. PICK a \in Nat, b \in Nat : a = (i - 1) * FifoWord /\ b = i * FifoWord /\ b = a + FifoWord /\ b <= m
    <3>1. (i - 1) * FifoWord \in Nat /\ i * FifoWord \in Nat /\ i * FifoWord = (i - 1) * FifoWord + FifoWord
      BY <1>0
    <3>2. i * FifoWord <= w * FifoWord
      BY <1>0
    <3> QED  BY <1>1, <3>1, <3>2
  <2>2. SubSeq(src, h + a + 1, h + b) = [k \in 1..(1 + (h + b) - (h + a + 1)) |-> src[(h + a + 1) + k - 1]]
    OBVIOUS
  <2>3. 1 + (h + b) - (h + a + 1) = FifoWord /\ (h + b) - (h + a + 1) + 1 = FifoWord
    BY <1>0, <2>1
  <2>4. \A k \in 1..FifoWord : (h + a + 1) + k - 1 \in 1..len
    BY <1>0, <1>1, <2>1
  <2>5. \A k \in 1..FifoWord : src[(h + a + 1) + k - 1] = (h + a + 1) + k - 1
    BY <1>2, <2>4
  <2>6. Upto(h + a + 1, h + b) = [k \in 1..FifoWord |-> (h + a + 1) + k - 1]
    BY <2>3 DEF Upto
  <2> QED  BY <2>1, <2>2, <2>3, <2>5, <2>6
<1>6. \A i \in 1..t : u[i] = <<h + m + i>>
  <2>1. \A i \in 1..t : h + m + i \in 1..len
    BY <1>1
  <2> QED  BY <1>2, <2>1
<1>7. r \in Seq(Seq(Int)) /\ Len(r) = h
  <2>1. \A i \in 1..h : r[i] \in Seq(Int)
    <3>1. \A i \in 1..h : <<i>> \in Seq(Int)
      OBVIOUS
    <3> QED  BY <1>4, <3>1
  <2> QED  BY <2>1
<1>8. s \in Seq(Seq(Int)) /\ Len(s) = w
  <2>1. \A i \in 1..w : s[i] \in Seq(Int)
    <3>1. ASSUME NEW i \in 1..w  PROVE Upto(h + (i - 1) * FifoWord + 1, h + i * FifoWord) \in Seq(Int)
      <4>1. PICK a \in Nat : a = (i - 1) * FifoWord /\ i * FifoWord = a + FifoWord
        BY <1>0
      <4>2. h + a + 1 \in Int /\ h + (a + FifoWord) \in Int /\ h + (a + FifoWord) >= (h + a + 1) - 1
        BY <1>0
      <4>3. Upto(h + a + 1, h + (a + FifoWord)) \in Seq(Int)
        BY <4>2, UptoIs
      <4> QED  BY <4>1, <4>3
    <3> QED  BY <1>5, <3>1
  <2> QED  BY <2>1
<1>9. u \in Seq(Seq(Int)) /\ Len(u) = t
  <2>1. \A i \in 1..t : u[i] \in Seq(Int)
    <3>1. \A i \in 1..t : <<h + m + i>> \in Seq(Int)
      OBVIOUS
    <3> QED  BY <1>6, <3>1
  <2> QED  BY <2>1
<1> HIDE DEF r, s, u
<1> DEFINE x == (r \o s) \o u
<1>10. /\ x \in Seq(Seq(Int)) /\ Len(x) = h + w + t
       /\ \A k \in 1..(h + w + t) : x[k] = IF k <= h THEN r[k] ELSE IF k <= h + w THEN s[k - h] ELSE u[k - h - w]
  <2>1. r \in Seq(Seq(Int)) /\ s \in Seq(Seq(Int)) /\ u \in Seq(Seq(Int))
    BY <1>7, <1>8, <1>9
  <2>2. /\ x \in Seq(Seq(Int)) /\ Len(x) = Len(r) + Len(s) + Len(u)
        /\ \A k \in 1..(Len(r) + Len(s) + Len(u)) :
             x[k] = IF k <= Len(r) THEN r[k]
                    ELSE IF k <= Len(r) + Len(s) THEN s[k - Len(r)] ELSE u[k - Len(r) - Len(s)]
    BY <2>1, ThreeRows
  <2>3. Len(r) = h /\ Len(s) = w /\ Len(u) = t
    BY <1>7, <1>8, <1>9
  <2> HIDE DEF x
  <2> QED  BY <2>2, <2>3
<1> HIDE DEF x
<1>11. ASSUME NEW k \in 1..(h + w + t)  PROVE x[k] = Upto(ends[k - 1] + 1, ends[k])
  <2>1. /\ ends \in [0..(h + w + t) -> Nat] /\ k - 1 \in 0..(h + w + t) /\ k \in 0..(h + w + t)
        /\ ends[k] = ends[k - 1] + SizeOf(FifoWord, h, w, k)
    BY <1>12
  <2>2. ends[k] = EndOf(FifoWord, h, w, k) /\ ends[k - 1] \in Nat
    BY <2>1 DEF Ends
  <2>3. PICK e \in Nat : e = ends[k]
    BY <2>1
  <2>4. Upto(e, e) = <<e>>
    BY DEF Upto
  <2>5. CASE k <= h
    <3>1. x[k] = <<k>>
      <4>1. x[k] = r[k] /\ k \in 1..h
        BY <1>10, <2>5
      <4> QED  BY <1>4, <4>1
    <3>2. e = k /\ ends[k - 1] + 1 = e
      BY <2>1, <2>2, <2>3, <2>5 DEF EndOf, SizeOf
    <3> QED  BY <2>3, <2>4, <3>1, <3>2
  <2>6. CASE k > h /\ k <= h + w
    <3>1. PICK j \in 1..w : j = k - h
      BY <2>6
    <3>2. x[k] = Upto(h + (j - 1) * FifoWord + 1, h + j * FifoWord)
      <4>1. x[k] = s[j]
        BY <1>10, <2>6, <3>1
      <4> QED  BY <1>5, <4>1
    <3>3. PICK a \in Nat : a = (j - 1) * FifoWord /\ j * FifoWord = a + FifoWord
      BY <1>0
    <3>4. e = h + (a + FifoWord) /\ SizeOf(FifoWord, h, w, k) = FifoWord
      BY <2>2, <2>3, <2>6, <3>1, <3>3 DEF EndOf, SizeOf
    <3>5. ends[k - 1] = h + a
      <4>1. PICK p \in Nat : p = ends[k - 1]
        BY <2>2
      <4>2. e = p + FifoWord
        BY <2>1, <2>3, <3>4, <4>1
      <4> QED  BY <1>0, <3>4, <4>1, <4>2
    <3> QED  BY <2>3, <3>2, <3>3, <3>4, <3>5
  <2>7. CASE k > h + w
    <3>1. k - h - w \in 1..t
      BY <2>7
    <3>2. x[k] = <<h + m + (k - h - w)>>
      <4>1. ~(k <= h) /\ ~(k <= h + w)
        BY <2>7
      <4>2. x[k] = u[k - h - w]
        BY <1>10, <4>1, Zenon
      <4> QED  BY <1>6, <3>1, <4>2
    <3>3. e = h + m + (k - h - w) /\ SizeOf(FifoWord, h, w, k) = 1
      BY <1>1, <2>2, <2>3, <2>7 DEF EndOf, SizeOf
    <3>4. ends[k - 1] + 1 = e
      BY <2>1, <2>2, <2>3, <3>3
    <3> QED  BY <2>3, <2>4, <3>2, <3>3, <3>4
  <2> QED  BY <2>5, <2>6, <2>7
<1> QED  BY <1>3, <1>10, <1>11 DEF x

(* A row is folded from its last element down.                             *)
LEMMA MaxOf ==
  ASSUME NEW n \in Nat, NEW S \in SUBSET (1..n), S # {}
  PROVE  Max(S) \in S /\ \A y \in S : Max(S) >= y
<1> DEFINE T == {x \in Nat : \A y \in S : y <= x}
<1>1. n \in T
  OBVIOUS
<1>2. PICK x \in T : \A y \in T : x <= y
  <2>1. T \in SUBSET Nat /\ T # {}
    BY <1>1
  <2> HIDE DEF T
  <2> QED  BY <2>1, LeastOf
<1>3. x \in S
  <2> SUFFICES ASSUME x \notin S  PROVE FALSE
    OBVIOUS
  <2>1. \A y \in S : y \in Nat /\ y <= x /\ y # x /\ y >= 1
    BY <1>2
  <2>2. \A y \in S : y <= x - 1
    BY <2>1, <1>2
  <2>3. x - 1 \in Nat
    <3>1. PICK y \in S : TRUE
      OBVIOUS
    <3> QED  BY <1>2, <2>1, <3>1
  <2> QED  BY <1>2, <2>2, <2>3
<1>4. \A y \in S : x >= y
  BY <1>2
<1>5. \E z \in S : \A y \in S : z >= y
  BY <1>3, <1>4
<1>6. Max(S) = CHOOSE z \in S : \A y \in S : z >= y
  BY DEF Max
<1> QED  BY <1>5, <1>6, Zenon

(* What the definition gives to the steps numbered by S.                   *)
ReadOf(base, sizes, f, S) == IF S = {} THEN base ELSE Store(sizes[Max(S)], f[S \ {Max(S)}])

(* The fold of FifoRead.                                                   *)
StoreAll(base, sizes) == FoldLeft(LAMBDA at, size : Store(size, at), base, sizes)

(* The function that folds a row exists: it is built one step at a time.   *)
LEMMA FoldExists ==
  ASSUME NEW n \in Nat, NEW base, NEW sizes, DOMAIN sizes = 1..n
  PROVE  \E f : /\ StoreAll(base, sizes) = f[1..n]
                /\ \A S \in SUBSET (1..n) : f[S] = ReadOf(base, sizes, f, S)
<1> DEFINE Known(f, k) == /\ f = [S \in SUBSET (1..n) |-> f[S]]
                          /\ \A S \in SUBSET (1..k) : f[S] = ReadOf(base, sizes, f, S)
           T == {k \in 0..n : \E f : Known(f, k)}
<1>1. 0 \in T
  <2> DEFINE f == [S \in SUBSET (1..n) |-> base]
  <2>1. f = [S \in SUBSET (1..n) |-> f[S]]
    OBVIOUS
  <2>2. ASSUME NEW S \in SUBSET (1..0)  PROVE f[S] = ReadOf(base, sizes, f, S)
    <3>1. S = {} /\ S \in SUBSET (1..n)
      OBVIOUS
    <3>2. ReadOf(base, sizes, f, S) = base
      <4> HIDE DEF f
      <4> QED  BY <3>1, Zenon DEF ReadOf
    <3> QED  BY <3>1, <3>2
  <2> HIDE DEF f
  <2>3. Known(f, 0)
    BY <2>1, <2>2
  <2> HIDE DEF Known
  <2> QED  BY <2>3
<1>2. ASSUME NEW k \in 0..(n - 1), k \in T  PROVE k + 1 \in T
  <2>1. PICK f : Known(f, k)
    BY <1>2
  <2> DEFINE g == [S \in SUBSET (1..n) |-> IF k + 1 \in S THEN ReadOf(base, sizes, f, S) ELSE f[S]]
  <2>2. g = [S \in SUBSET (1..n) |-> g[S]]
    OBVIOUS
  <2>3. ASSUME NEW S \in SUBSET (1..(k + 1))  PROVE g[S] = ReadOf(base, sizes, g, S)
    <3>1. S \in SUBSET (1..n) /\ k + 1 \in Nat
      OBVIOUS
    <3>2. S # {} => g[S \ {Max(S)}] = f[S \ {Max(S)}]
      <4> SUFFICES ASSUME S # {}  PROVE g[S \ {Max(S)}] = f[S \ {Max(S)}]
        OBVIOUS
      <4>1. Max(S) \in S /\ \A y \in S : Max(S) >= y
        BY <3>1, MaxOf
      <4>2. k + 1 \notin S \ {Max(S)}
        <5>1. CASE k + 1 \in S
          <6>1. Max(S) >= k + 1 /\ Max(S) \in 1..(k + 1)
            BY <4>1, <5>1
          <6>2. Max(S) = k + 1
            BY <6>1
          <6> QED  BY <6>2
        <5>2. CASE k + 1 \notin S
          BY <5>2
        <5> QED  BY <5>1, <5>2
      <4>3. S \ {Max(S)} \in SUBSET (1..n)
        BY <3>1
      <4> QED  BY <4>2, <4>3
    <3>3. ReadOf(base, sizes, g, S) = ReadOf(base, sizes, f, S)
      <4> HIDE DEF g
      <4> QED  BY <3>2, Zenon DEF ReadOf
    <3>4. CASE k + 1 \in S
      <4>1. g[S] = ReadOf(base, sizes, f, S)
        BY <3>1, <3>4
      <4> QED  BY <3>3, <4>1
    <3>5. CASE k + 1 \notin S
      <4>1. S \in SUBSET (1..k)
        <5>1. \A y \in S : y \in 1..(k + 1) /\ y # k + 1
          BY <3>5
        <5> QED  BY <5>1
      <4>2. g[S] = f[S]
        BY <3>1, <3>5
      <4>3. f[S] = ReadOf(base, sizes, f, S)
        BY <2>1, <4>1
      <4> QED  BY <3>3, <4>2, <4>3
    <3> QED  BY <3>4, <3>5
  <2> HIDE DEF g
  <2>4. Known(g, k + 1)
    BY <2>2, <2>3
  <2> HIDE DEF Known
  <2>5. k + 1 \in 0..n
    OBVIOUS
  <2> QED  BY <2>4, <2>5
<1>3. n \in T
  <2> HIDE DEF T
  <2>1. \A k \in 0..n : k \in T
    BY <1>1, <1>2, Induct
  <2> QED  BY <2>1
<1>4. PICK f : Known(f, n)
  BY <1>3
<1> DEFINE Folds(g) == g = [S \in SUBSET (1..n) |->
                              IF S = {} THEN base
                              ELSE LET x == Max(S) IN Store(sizes[x], g[S \ {x}])]
<1>5. \A g : Folds(g) <=> g = [S \in SUBSET (1..n) |-> ReadOf(base, sizes, g, S)]
  BY Zenon DEF ReadOf
<1>6. Folds(f)
  <2>1. f = [S \in SUBSET (1..n) |-> ReadOf(base, sizes, f, S)]
    BY <1>4
  <2> HIDE DEF Folds
  <2> QED  BY <1>5, <2>1
<1> DEFINE g == CHOOSE g : Folds(g)
<1>7. Folds(g)
  BY <1>6, Zenon
<1>8. StoreAll(base, sizes) = g[1..n]
  BY DEF StoreAll, FoldLeft, MapThenFoldSet
<1> HIDE DEF g
<1>9. \A S \in SUBSET (1..n) : g[S] = ReadOf(base, sizes, g, S)
  <2> HIDE DEF Folds
  <2>1. g = [S \in SUBSET (1..n) |-> ReadOf(base, sizes, g, S)]
    BY <1>5, <1>7
  <2> QED  BY <2>1, Zenon
<1> QED  BY <1>8, <1>9

(* Step by step: what is stored after the first k steps.                   *)
LEMMA StoredStepwise ==
  ASSUME NEW n \in Nat, NEW base, NEW sizes, DOMAIN sizes = 1..n
  PROVE  \E a : /\ StoreAll(base, sizes) = a[n]
                /\ a[0] = base
                /\ \A k \in 1..n : a[k] = Store(sizes[k], a[k - 1])
<1>1. PICK f : /\ StoreAll(base, sizes) = f[1..n]
               /\ \A S \in SUBSET (1..n) : f[S] = ReadOf(base, sizes, f, S)
  BY FoldExists
<1> DEFINE a == [k \in 0..n |-> f[1..k]]
<1>2. a[n] = f[1..n] /\ a[0] = f[1..0] /\ 1..0 = {}
  OBVIOUS
<1>3. f[{}] = base
  <2>1. {} \in SUBSET (1..n)
    OBVIOUS
  <2> QED  BY <1>1, <2>1 DEF ReadOf
<1>4. ASSUME NEW k \in 1..n  PROVE a[k] = Store(sizes[k], a[k - 1])
  <2>1. 1..k \in SUBSET (1..n) /\ 1..k # {} /\ k \in Nat /\ k \in 1..k
    OBVIOUS
  <2>2. Max(1..k) \in 1..k /\ \A y \in 1..k : Max(1..k) >= y
    <3>1. 1..k \in SUBSET (1..k)
      OBVIOUS
    <3> QED  BY <2>1, <3>1, MaxOf
  <2>3. Max(1..k) = k
    BY <2>1, <2>2
  <2>4. (1..k) \ {k} = 1..(k - 1)
    OBVIOUS
  <2>5. f[1..k] = Store(sizes[k], f[1..(k - 1)])
    <3>1. f[1..k] = ReadOf(base, sizes, f, 1..k)
      BY <1>1, <2>1
    <3>2. ReadOf(base, sizes, f, 1..k) = Store(sizes[Max(1..k)], f[(1..k) \ {Max(1..k)}])
      BY <2>1, Zenon DEF ReadOf
    <3> QED  BY <2>3, <2>4, <3>1, <3>2
  <2>6. a[k] = f[1..k] /\ a[k - 1] = f[1..(k - 1)]
    OBVIOUS
  <2> QED  BY <2>5, <2>6
<1> HIDE DEF a
<1> QED  BY <1>1, <1>2, <1>3, <1>4

(* The words first to last of the FIFO.                                    *)
Words(first, last) == [w \in 1..(last - first + 1) |-> Upto((first + w - 2) * FifoWord + 1, (first + w - 1) * FifoWord)]

(* What has been taken of the FIFO, what is in the queue, what is stored.  *)
Stored(at, done, taken, last) ==
  /\ done \in Nat /\ taken \in Nat
  /\ done <= taken * FifoWord /\ taken * FifoWord < done + FifoWord
  /\ at.rx = Words(taken + 1, last)
  /\ at.queue = Upto(done + 1, taken * FifoWord)
  /\ at.dst = Upto(1, done)
  /\ at.longest \in Nat /\ at.longest <= 2 * FifoWord

(* A word of the FIFO is at its front, and the rest behind it.             *)
LEMMA WordTaken ==
  ASSUME NEW i \in Nat, NEW last \in Nat, i < last
  PROVE  /\ Head(Words(i + 1, last)) = Upto(i * FifoWord + 1, (i + 1) * FifoWord)
         /\ Tail(Words(i + 1, last)) = Words(i + 2, last)
<1>1. last - (i + 1) + 1 = last - i /\ last - (i + 2) + 1 = last - i - 1
  OBVIOUS
<1>2. Words(i + 1, last) = [w \in 1..(last - i) |-> Upto((i + w - 1) * FifoWord + 1, (i + w) * FifoWord)]
  <2>1. \A w \in 1..(last - i) : i + 1 + w - 2 = i + w - 1 /\ i + 1 + w - 1 = i + w
    OBVIOUS
  <2> QED  BY <1>1, <2>1 DEF Words
<1>3. Words(i + 2, last) = [w \in 1..(last - i - 1) |-> Upto((i + w) * FifoWord + 1, (i + w + 1) * FifoWord)]
  <2>1. \A w \in 1..(last - i - 1) : i + 2 + w - 2 = i + w /\ i + 2 + w - 1 = i + w + 1
    OBVIOUS
  <2> QED  BY <1>1, <2>1 DEF Words
<1> DEFINE s == Words(i + 1, last)
<1>4. Len(s) = last - i /\ 1 \in 1..(last - i)
  BY <1>2
<1>5. Head(s) = s[1] /\ Tail(s) = [w \in 1..(Len(s) - 1) |-> s[w + 1]]
  OBVIOUS
<1>6. s[1] = Upto(i * FifoWord + 1, (i + 1) * FifoWord)
  <2>1. i + 1 - 1 = i
    OBVIOUS
  <2> QED  BY <1>2, <1>4, <2>1
<1>7. \A w \in 1..(last - i - 1) : s[w + 1] = Upto((i + w) * FifoWord + 1, (i + w + 1) * FifoWord)
  <2>1. \A w \in 1..(last - i - 1) : w + 1 \in 1..(last - i) /\ i + (w + 1) - 1 = i + w /\ i + (w + 1) = i + w + 1
    OBVIOUS
  <2> QED  BY <1>2, <2>1
<1> HIDE DEF s
<1>8. Tail(s) = Words(i + 2, last)
  BY <1>3, <1>4, <1>5, <1>7
<1> QED  BY <1>5, <1>6, <1>8 DEF s

(* A step stores the next bytes, whether or not it fetches a word.         *)
LEMMA StepStores ==
  ASSUME NEW at, NEW done, NEW taken, NEW last \in Nat, Stored(at, done, taken, last),
         NEW size \in {1, FifoWord}, done + size <= last * FifoWord
  PROVE  \E more \in Nat : Stored(Store(size, at), done + size, more, last)
<1>0. FifoWord \in Nat /\ FifoWord >= 2 /\ size \in Nat /\ size >= 1 /\ size <= FifoWord
  BY FifoWordAssumption
<1>1. done \in Nat /\ taken \in Nat
  BY DEF Stored
<1>2. PICK e \in Nat : e = taken * FifoWord /\ done <= e /\ e < done + FifoWord
  BY <1>0 DEF Stored
<1>3. at.rx = Words(taken + 1, last) /\ at.queue = Upto(done + 1, e) /\ at.dst = Upto(1, done)
      /\ at.longest \in Nat /\ at.longest <= 2 * FifoWord
  BY <1>2 DEF Stored
<1>4. Len(at.queue) = e - done
  <2>1. done + 1 \in Int /\ e \in Int /\ e >= (done + 1) - 1 /\ e - (done + 1) + 1 = e - done
    BY <1>1, <1>2
  <2>2. Len(Upto(done + 1, e)) = e - (done + 1) + 1
    BY <2>1, UptoIs
  <2> QED  BY <1>3, <2>1, <2>2
<1>5. ASSUME NEW queue, NEW x \in Nat, queue = Upto(done + 1, x), x >= done + size
      PROVE  /\ SubSeq(queue, size + 1, Len(queue)) = Upto(done + size + 1, x)
             /\ at.dst \o SubSeq(queue, 1, size) = Upto(1, done + size)
             /\ Len(queue) = x - done
  <2> DEFINE a == done + 1
  <2>1. a \in Int /\ x \in Int /\ x >= a - 1 /\ x - a + 1 = x - done
    BY <1>0, <1>1, <1>5
  <2> HIDE DEF a
  <2>2. Len(Upto(a, x)) = x - a + 1
    BY <2>1, UptoIs
  <2>3. queue = Upto(a, x) /\ Len(queue) = x - done
    BY <1>5, <2>1, <2>2 DEF a
  <2>4. SubSeq(Upto(a, x), size + 1, x - done) = Upto(a + (size + 1) - 1, a + (x - done) - 1)
    <3>1. PICK i \in Int, j \in Int : i = size + 1 /\ j = x - done /\ 1 <= i /\ i <= j + 1 /\ j <= x - a + 1
      BY <1>0, <1>1, <1>5, <2>1
    <3>2. 1 <= i /\ i <= j + 1 /\ j <= x - a + 1 /\ a \in Int /\ x \in Int /\ x >= a - 1
      BY <2>1, <3>1
    <3>3. SubSeq(Upto(a, x), i, j) = Upto(a + i - 1, a + j - 1)
      BY <3>2, UptoPart
    <3> QED  BY <3>1, <3>3
  <2>5. SubSeq(Upto(a, x), 1, size) = Upto(a, a + size - 1)
    <3>1. PICK i \in Int : i = 1 /\ 1 <= i /\ i <= size + 1 /\ size <= x - a + 1 /\ size \in Int /\ a + i - 1 = a
      BY <1>0, <1>1, <1>5, <2>1
    <3>2. 1 <= i /\ i <= size + 1 /\ size <= x - a + 1 /\ size \in Int /\ a \in Int /\ x \in Int /\ x >= a - 1
      BY <2>1, <3>1
    <3>3. SubSeq(Upto(a, x), i, size) = Upto(a + i - 1, a + size - 1)
      BY <3>2, UptoPart
    <3> QED  BY <3>1, <3>3
  <2>6. a + (size + 1) - 1 = done + size + 1 /\ a + (x - done) - 1 = x /\ a + size - 1 = done + size
    BY <1>0, <1>1 DEF a
  <2>7. Upto(1, done) \o Upto(done + 1, done + size) = Upto(1, done + size)
    <3>1. PICK y \in Nat : y = done + size /\ y >= done
      BY <1>0, <1>1
    <3>2. Upto(1, done) \o Upto(done + 1, y) = Upto(1, y)
      BY <1>1, <3>1, UptoMore
    <3> QED  BY <3>1, <3>2
  <2> QED  BY <1>3, <2>3, <2>4, <2>5, <2>6, <2>7 DEF a
<1> DEFINE new == Store(size, at)
<1>6. CASE e - done < size
  <2>1. taken < last
    <3>1. e < last * FifoWord
      BY <1>0, <1>1, <1>2, <1>6
    <3>2. CASE taken >= last
      <4>1. taken * FifoWord >= last * FifoWord
        BY <1>0, <1>1, <3>2
      <4>2. PICK m \in Nat : m = last * FifoWord
        BY <1>0
      <4> QED  BY <1>2, <3>1, <4>1, <4>2
    <3> QED  BY <1>1, <3>2
  <2>2. (taken + 1) * FifoWord = e + FifoWord
    BY <1>0, <1>1, <1>2
  <2>3. Head(at.rx) = Upto(e + 1, e + FifoWord) /\ Tail(at.rx) = Words((taken + 1) + 1, last)
    <3>1. /\ Head(Words(taken + 1, last)) = Upto(taken * FifoWord + 1, (taken + 1) * FifoWord)
          /\ Tail(Words(taken + 1, last)) = Words(taken + 2, last)
      BY <1>1, <2>1, WordTaken
    <3>2. taken + 2 = (taken + 1) + 1
      BY <1>1
    <3> QED  BY <1>2, <1>3, <2>2, <3>1, <3>2
  <2>4. at.queue \o Head(at.rx) = Upto(done + 1, e + FifoWord)
    <3>1. PICK a \in Int, c \in Int : a = done + 1 /\ c = e + FifoWord /\ e \in Int /\ e >= a - 1 /\ c >= e
      BY <1>0, <1>1, <1>2
    <3>2. Upto(a, e) \o Upto(e + 1, c) = Upto(a, c)
      BY <3>1, UptoJoined
    <3> QED  BY <1>3, <2>3, <3>1, <3>2
  <2> DEFINE queue == at.queue \o Head(at.rx)
             x == e + FifoWord
  <2>5. x \in Nat /\ x >= done + size
    BY <1>0, <1>1, <1>2, <1>6
  <2>6. new = [rx      |-> Tail(at.rx),
               queue   |-> SubSeq(queue, size + 1, Len(queue)),
               dst     |-> at.dst \o SubSeq(queue, 1, size),
               longest |-> IF Len(queue) > at.longest THEN Len(queue) ELSE at.longest]
    BY <1>4, <1>6 DEF Store
  <2>7. queue = Upto(done + 1, x)
    BY <2>4
  <2> HIDE DEF queue, new
  <2>8. /\ SubSeq(queue, size + 1, Len(queue)) = Upto(done + size + 1, x)
        /\ at.dst \o SubSeq(queue, 1, size) = Upto(1, done + size)
        /\ Len(queue) = x - done
    <3> HIDE DEF x
    <3> QED  BY <1>5, <2>5, <2>7
  <2>9. x - done \in Nat /\ x - done <= 2 * FifoWord
    BY <1>0, <1>1, <1>2
  <2>10. /\ new.rx = Words((taken + 1) + 1, last) /\ new.queue = Upto(done + size + 1, x)
         /\ new.dst = Upto(1, done + size)
         /\ new.longest \in Nat /\ new.longest <= 2 * FifoWord
    <3> HIDE DEF x
    <3>1. /\ new.rx = Tail(at.rx) /\ new.queue = SubSeq(queue, size + 1, Len(queue))
          /\ new.dst = at.dst \o SubSeq(queue, 1, size)
          /\ new.longest = IF Len(queue) > at.longest THEN Len(queue) ELSE at.longest
      BY <2>6
    <3> QED  BY <1>3, <2>3, <2>8, <2>9, <3>1
  <2>11. /\ done + size \in Nat /\ taken + 1 \in Nat
         /\ done + size <= x /\ x < (done + size) + FifoWord /\ x = (taken + 1) * FifoWord
    BY <1>0, <1>1, <1>2, <1>6, <2>2
  <2>12. Stored(new, done + size, taken + 1, last)
    <3> HIDE DEF x
    <3> QED  BY <2>10, <2>11 DEF Stored
  <2> QED  BY <2>11, <2>12 DEF new
<1>7. CASE ~(e - done < size)
  <2>1. size = 1
    BY <1>0, <1>1, <1>2, <1>7
  <2> DEFINE queue == at.queue
  <2>2. e >= done + size
    BY <1>0, <1>1, <1>2, <1>7
  <2>3. new = [rx      |-> at.rx,
               queue   |-> SubSeq(queue, size + 1, Len(queue)),
               dst     |-> at.dst \o SubSeq(queue, 1, size),
               longest |-> IF Len(queue) > at.longest THEN Len(queue) ELSE at.longest]
    BY <1>4, <1>7 DEF Store
  <2>4. queue = Upto(done + 1, e)
    BY <1>3
  <2> HIDE DEF queue, new
  <2>5. /\ SubSeq(queue, size + 1, Len(queue)) = Upto(done + size + 1, e)
        /\ at.dst \o SubSeq(queue, 1, size) = Upto(1, done + size)
        /\ Len(queue) = e - done
    BY <1>5, <2>2, <2>4
  <2>6. e - done \in Nat /\ e - done <= 2 * FifoWord
    BY <1>0, <1>1, <1>2
  <2>7. /\ new.rx = at.rx /\ new.queue = Upto(done + size + 1, e)
        /\ new.dst = Upto(1, done + size)
        /\ new.longest \in Nat /\ new.longest <= 2 * FifoWord
    <3>1. /\ new.rx = at.rx /\ new.queue = SubSeq(queue, size + 1, Len(queue))
          /\ new.dst = at.dst \o SubSeq(queue, 1, size)
          /\ new.longest = IF Len(queue) > at.longest THEN Len(queue) ELSE at.longest
      BY <2>3
    <3> QED  BY <1>3, <2>5, <2>6, <3>1
  <2>8. done + size \in Nat /\ done + size <= e /\ e < (done + size) + FifoWord
    BY <1>0, <1>1, <1>2, <2>2
  <2>9. Stored(new, done + size, taken, last)
    BY <1>1, <1>2, <1>3, <2>7, <2>8 DEF Stored
  <2> QED  BY <1>1, <2>9 DEF new
<1> QED  BY <1>6, <1>7

(* A transfer of any length from and to any address.                       *)
LEMMA FifoKeeps ==
  ASSUME NEW addr \in 0..(FifoWord - 1), NEW len \in Nat
  PROVE  KeepsBytes(addr, Upto(1, len),
                    [w \in 1..(WordsFor(len) + 2) |-> Upto((w - 1) * FifoWord + 1, w * FifoWord)])
<1>0. FifoWord \in Nat /\ FifoWord >= 2
  BY FifoWordAssumption
<1>1. PICK h \in Nat, w \in Nat, t \in Nat : Layout(addr, len, h, w, t)
  BY LayoutIs
<1> DEFINE n == h + w + t
<1>2. PICK ends : ends = Ends(FifoWord, h, w, t)
  OBVIOUS
<1>3. PICK m \in Nat : m = w * FifoWord /\ len = h + m + t
  BY <1>0, <1>1 DEF Layout
<1>4. /\ n \in Nat /\ ends \in [0..n -> Nat] /\ ends[0] = 0 /\ ends[n] = len
      /\ \A k \in 1..n : /\ k - 1 \in 0..n /\ k \in 0..n
                         /\ ends[k] = ends[k - 1] + SizeOf(FifoWord, h, w, k) /\ ends[k] <= len
                         /\ ends[k - 1] \in Nat /\ ends[k] >= ends[k - 1]
  <2>1. /\ Ends(FifoWord, h, w, t) \in [0..(h + w + t) -> Nat]
        /\ Ends(FifoWord, h, w, t)[0] = 0
        /\ Ends(FifoWord, h, w, t)[h + w + t] = h + w * FifoWord + t
        /\ \A k \in 1..(h + w + t) :
             /\ k - 1 \in 0..(h + w + t) /\ k \in 0..(h + w + t)
             /\ Ends(FifoWord, h, w, t)[k] = Ends(FifoWord, h, w, t)[k - 1] + SizeOf(FifoWord, h, w, k)
             /\ Ends(FifoWord, h, w, t)[k] <= h + w * FifoWord + t
    <3>1. FifoWord \in Nat /\ FifoWord > 0
      BY <1>0
    <3> QED  BY <3>1, EndsAre
  <2>2. \A k \in 1..n : SizeOf(FifoWord, h, w, k) \in Nat
    BY <1>0 DEF SizeOf
  <2>3. \A k \in 1..n : k - 1 \in 0..n /\ ends[k - 1] \in Nat /\ ends[k] = ends[k - 1] + SizeOf(FifoWord, h, w, k)
    BY <1>2, <2>1
  <2>4. \A k \in 1..n : ends[k] >= ends[k - 1]
    BY <2>2, <2>3
  <2>5. n \in Nat
    OBVIOUS
  <2> QED  BY <1>2, <1>3, <2>1, <2>3, <2>4, <2>5
<1> DEFINE src == Upto(1, len)
           out == FifoWrite(addr, src)
<1>5. out \in Seq(Seq(Int)) /\ Len(out) = n /\ \A k \in 1..n : out[k] = Upto(ends[k - 1] + 1, ends[k])
  <2> HIDE DEF n
  <2>2. /\ FifoWrite(addr, Upto(1, len)) \in Seq(Seq(Int)) /\ Len(FifoWrite(addr, Upto(1, len))) = h + w + t
        /\ \A k \in 1..(h + w + t) :
             FifoWrite(addr, Upto(1, len))[k] = Upto(Ends(FifoWord, h, w, t)[k - 1] + 1, Ends(FifoWord, h, w, t)[k])
    BY <1>1, EntriesAre
  <2> QED  BY <1>2, <2>2 DEF n
<1>6. src \in Seq(Int) /\ Len(src) = len
  BY DEF Upto
<1> HIDE DEF out, src
(* The first k entries hold the bytes up to ends[k].                       *)
<1>7. ASSUME NEW k \in 0..n  PROVE FlattenSeq(SubSeq(out, 1, k)) = Upto(1, ends[k])
  <2> HIDE DEF n
  <2> DEFINE s == SubSeq(out, 1, k)
             e == [i \in 0..k |-> ends[i]]
  <2>1. k \in Nat /\ 0 \in 0..k /\ k \in 0..k /\ \A i \in 1..k : i \in 1..n /\ i - 1 \in 0..k /\ i \in 0..k
    BY <1>4
  <2>2. s = [i \in 1..k |-> out[i]]
    <3>1. s = [i \in 1..(1 + k - 1) |-> out[1 + i - 1]]
      OBVIOUS
    <3>2. 1 + k - 1 = k /\ \A i \in 1..k : 1 + i - 1 = i
      BY <2>1
    <3> QED  BY <3>1, <3>2
  <2>3. s \in Seq(Seq(Int)) /\ DOMAIN s = 1..k
    <3>1. \A i \in 1..k : out[i] \in Seq(Int)
      BY <1>5, <2>1
    <3> HIDE DEF s
    <3> QED  BY <2>1, <2>2, <3>1
  <2> HIDE DEF s
  <2>4. e \in [0..k -> Nat] /\ e[0] = 0 /\ e[k] = ends[k]
    <3>1. \A i \in 0..k : i \in 0..n
      BY <1>4
    <3> QED  BY <1>4, <2>1, <3>1
  <2>5. \A i \in 1..k : e[i] >= e[i - 1] /\ s[i] = Upto(e[i - 1] + 1, e[i])
    <3> SUFFICES ASSUME NEW i \in 1..k  PROVE e[i] >= e[i - 1] /\ s[i] = Upto(e[i - 1] + 1, e[i])
      OBVIOUS
    <3>1. e[i] = ends[i] /\ e[i - 1] = ends[i - 1] /\ s[i] = out[i] /\ i \in 1..n
      BY <2>1, <2>2
    <3> QED  BY <1>4, <1>5, <3>1
  <2> HIDE DEF e
  <2>6. FlattenSeq(s) = Upto(1, e[k])
    BY <2>1, <2>3, <2>4, <2>5, FlattenJoins
  <2> QED  BY <2>4, <2>6 DEF s
<1>8. FlattenSeq(out) = src
  <2>1. SubSeq(out, 1, n) = out
    <3>1. SubSeq(out, 1, Len(out)) = out
      BY <1>5, SubSeqFull
    <3> QED  BY <1>5, <3>1
  <2>2. n \in 0..n
    BY <1>4
  <2>3. FlattenSeq(SubSeq(out, 1, n)) = Upto(1, ends[n])
    BY <1>7, <2>2
  <2> QED  BY <1>4, <2>1, <2>3 DEF src
<1>9. ASSUME NEW k \in DOMAIN out, Len(out[k]) > 1
      PROVE  (addr + Len(FlattenSeq(SubSeq(out, 1, k - 1)))) % FifoWord = 0
  <2>1. k \in 1..n
    <3>1. DOMAIN out = 1..Len(out)
      BY <1>5, LenProperties
    <3> QED  BY <1>5, <1>9, <3>1
  <2>2. PICK p \in Nat : p = ends[k - 1] /\ ends[k] = p + SizeOf(FifoWord, h, w, k)
    BY <1>4, <2>1
  <2>3. SizeOf(FifoWord, h, w, k) \in Nat /\ Len(out[k]) = SizeOf(FifoWord, h, w, k)
    <3>1. SizeOf(FifoWord, h, w, k) \in Nat
      BY <1>0 DEF SizeOf
    <3>2. PICK z \in Nat : z = SizeOf(FifoWord, h, w, k)
      BY <3>1
    <3>3. out[k] = Upto(p + 1, p + z)
      BY <1>5, <2>1, <2>2, <3>2
    <3>4. Len(Upto(p + 1, p + z)) = z
      <4>1. (p + z) - (p + 1) + 1 = z
        OBVIOUS
      <4> QED  BY <4>1 DEF Upto
    <3> QED  BY <3>1, <3>2, <3>3, <3>4
  <2>4. h < k /\ k <= h + w
    BY <1>9, <2>3 DEF SizeOf
  <2>5. k - 1 \in 0..n
    BY <1>4, <2>1
  <2>6. FlattenSeq(SubSeq(out, 1, k - 1)) = Upto(1, p)
    <3>1. FlattenSeq(SubSeq(out, 1, k - 1)) = Upto(1, ends[k - 1])
      BY <1>7, <2>5
    <3> QED  BY <2>2, <3>1
  <2>7. Len(Upto(1, p)) = p
    BY DEF Upto
  <2>8. PICK j \in Nat : j = (k - 1) - h
    BY <2>1, <2>4
  <2>9. p = h + j * FifoWord
    <3>1. p = EndOf(FifoWord, h, w, k - 1)
      BY <1>2, <2>2, <2>5 DEF Ends
    <3>2. CASE k - 1 = h
      <4>1. j = 0 /\ 0 * FifoWord = 0
        BY <1>0, <2>8, <3>2
      <4> QED  BY <3>1, <3>2, <4>1 DEF EndOf
    <3>3. CASE k - 1 # h
      BY <2>1, <2>4, <2>8, <3>1, <3>3 DEF EndOf
    <3> QED  BY <3>2, <3>3
  <2>10. PICK a \in Nat : addr + h = FifoWord * a
    <3>1. w > 0
      BY <2>1, <2>4
    <3> QED  BY <1>1, <3>1 DEF Layout
  <2>11. PICK x \in Int : x = addr + p
    BY <1>0
  <2>12. x = FifoWord * (a + j) + 0 /\ a + j \in Int /\ 0 \in 0..(FifoWord - 1)
    <3>1. FifoWord * (a + j) = FifoWord * a + j * FifoWord
      BY <1>0
    <3>2. PICK y \in Nat, z \in Nat : y = FifoWord * a /\ z = j * FifoWord
      BY <1>0
    <3> QED  BY <1>0, <2>9, <2>10, <2>11, <3>1, <3>2
  <2>13. x % FifoWord = 0
    BY <1>0, <2>12, QuotientIs
  <2> QED  BY <2>6, <2>7, <2>11, <2>13
<1> DEFINE last == WordsFor(len) + 2
           rx == [i \in 1..last |-> Upto((i - 1) * FifoWord + 1, i * FifoWord)]
<1>10. PICK words \in Nat : words = WordsFor(len) /\ words * FifoWord >= len /\ words * FifoWord < len + FifoWord
  <2>1. PICK d \in Int : d = len + FifoWord - 1 /\ d >= 0
    BY <1>0
  <2>2. d \div FifoWord \in Int /\ d % FifoWord \in 0..(FifoWord - 1)
        /\ d = FifoWord * (d \div FifoWord) + (d % FifoWord) /\ d \div FifoWord >= 0
    BY <1>0, <2>1, Division
  <2>3. PICK q \in Nat, r \in 0..(FifoWord - 1) : q = d \div FifoWord /\ d = FifoWord * q + r
    BY <2>2
  <2>4. PICK y \in Nat : y = q * FifoWord /\ y = FifoWord * q
    BY <1>0
  <2>5. y >= len /\ y < len + FifoWord
    BY <1>0, <2>1, <2>3, <2>4
  <2> QED  BY <2>1, <2>3, <2>4, <2>5 DEF WordsFor
<1>11. last \in Nat /\ last = words + 2 /\ last * FifoWord = words * FifoWord + 2 * FifoWord
  BY <1>0, <1>10
<1> HIDE DEF last
<1>12. rx = Words(1, last)
  <2>1. last - 1 + 1 = last
    BY <1>11
  <2>2. \A i \in 1..last : 1 + i - 2 = i - 1 /\ 1 + i - 1 = i
    BY <1>11
  <2> QED  BY <2>1, <2>2 DEF Words
<1> DEFINE base == [rx |-> rx, queue |-> <<>>, dst |-> <<>>, longest |-> 0]
<1>13. Stored(base, 0, 0, last)
  <2>1. 0 * FifoWord = 0 /\ 0 + 1 = 1
    BY <1>0
  <2>2. Upto(1, 0) = <<>>
    BY DEF Upto
  <2>3. base.rx = rx /\ base.queue = <<>> /\ base.dst = <<>> /\ base.longest = 0
    OBVIOUS
  <2> HIDE DEF base, rx
  <2> QED  BY <1>0, <1>12, <2>1, <2>2, <2>3 DEF Stored
<1> DEFINE sizes == StepSizes(addr, len)
<1>14. DOMAIN sizes = 1..n /\ \A k \in 1..n : sizes[k] = SizeOf(FifoWord, h, w, k)
  <2>1. /\ StepSizes(addr, len) \in Seq(Nat) /\ Len(StepSizes(addr, len)) = h + w + t
        /\ \A k \in 1..(h + w + t) : StepSizes(addr, len)[k] = SizeOf(FifoWord, h, w, k)
    BY <1>1, StepsAre
  <2>2. DOMAIN StepSizes(addr, len) = 1..(h + w + t)
    BY <2>1, LenProperties
  <2> QED  BY <2>1, <2>2
<1> HIDE DEF sizes, base, rx
<1>15. PICK a : /\ StoreAll(base, sizes) = a[n]
                /\ a[0] = base
                /\ \A k \in 1..n : a[k] = Store(sizes[k], a[k - 1])
  <2>1. n \in Nat /\ DOMAIN sizes = 1..n
    BY <1>4, <1>14
  <2> HIDE DEF n
  <2> QED  BY <2>1, StoredStepwise
<1> DEFINE T == {k \in 0..n : \E taken \in Nat : Stored(a[k], ends[k], taken, last)}
<1>16. 0 \in T
  <2>1. 0 \in 0..n /\ ends[0] = 0 /\ a[0] = base
    <3> HIDE DEF n
    <3> QED  BY <1>4, <1>15
  <2>2. Stored(a[0], ends[0], 0, last) /\ 0 \in Nat
    BY <1>13, <2>1
  <2> HIDE DEF n
  <2> QED  BY <2>1, <2>2, Zenon
<1>17. ASSUME NEW k \in 0..(n - 1), k \in T  PROVE k + 1 \in T
  <2>1. PICK taken \in Nat : Stored(a[k], ends[k], taken, last)
    BY <1>17
  <2>2. k + 1 \in 1..n /\ (k + 1) - 1 = k /\ k + 1 \in 0..n
    BY <1>4
  <2>3. ends[k + 1] = ends[k] + SizeOf(FifoWord, h, w, k + 1) /\ ends[k + 1] <= len
    BY <1>4, <2>2
  <2>4. a[k + 1] = Store(SizeOf(FifoWord, h, w, k + 1), a[k])
    BY <1>14, <1>15, <2>2
  <2>5. PICK z \in {1, FifoWord} : z = SizeOf(FifoWord, h, w, k + 1)
    BY DEF SizeOf
  <2>6. PICK d \in Nat : d = ends[k]
    BY <1>4, <2>2
  <2>7. d + z <= last * FifoWord
    <3>1. d + z <= len
      BY <2>3, <2>5, <2>6
    <3>2. PICK x \in Nat, y \in Nat : x = words * FifoWord /\ y = last * FifoWord /\ y = x + 2 * FifoWord /\ x >= len
      BY <1>0, <1>10, <1>11
    <3> QED  BY <1>0, <2>5, <3>1, <3>2
  <2>8. \E more \in Nat : Stored(Store(z, a[k]), d + z, more, last)
    <3>1. Stored(a[k], d, taken, last)
      BY <2>1, <2>6
    <3> QED  BY <1>11, <2>7, <3>1, StepStores
  <2>9. Store(z, a[k]) = a[k + 1] /\ d + z = ends[k + 1]
    BY <2>3, <2>4, <2>5, <2>6
  <2> QED  BY <2>2, <2>8, <2>9
<1>18. PICK taken \in Nat : Stored(a[n], len, taken, last)
  <2>1. n \in T
    <3> HIDE DEF T, n
    <3>1. \A k \in 0..n : k \in T
      BY <1>4, <1>16, <1>17, Induct
    <3> QED  BY <1>4, <3>1
  <2> QED  BY <1>4, <2>1
<1> DEFINE result == FifoRead(addr, len, rx)
<1>19. result = a[n]
  <2>1. FifoRead(addr, len, rx) = StoreAll([rx |-> rx, queue |-> <<>>, dst |-> <<>>, longest |-> 0], StepSizes(addr, len))
    BY DEF FifoRead, StoreAll
  <2> QED  BY <1>15, <2>1 DEF base, sizes
<1>20. taken = words
  <2>1. taken * FifoWord >= len /\ taken * FifoWord < len + FifoWord
    BY <1>18 DEF Stored
  <2>2. CASE taken < words
    <3>1. (words - taken) * FifoWord >= FifoWord
      <4>1. words - taken >= 1 /\ words - taken \in Nat
        BY <2>2
      <4> QED  BY <1>0, <4>1
    <3>2. (words - taken) * FifoWord = words * FifoWord - taken * FifoWord
      BY <1>0
    <3>3. PICK x \in Nat, y \in Nat : x = words * FifoWord /\ y = taken * FifoWord
      BY <1>0
    <3> QED  BY <1>0, <1>10, <2>1, <3>1, <3>2, <3>3
  <2>3. CASE taken > words
    <3>1. (taken - words) * FifoWord >= FifoWord
      <4>1. taken - words >= 1 /\ taken - words \in Nat
        BY <2>3
      <4> QED  BY <1>0, <4>1
    <3>2. (taken - words) * FifoWord = taken * FifoWord - words * FifoWord
      BY <1>0
    <3>3. PICK x \in Nat, y \in Nat : x = words * FifoWord /\ y = taken * FifoWord
      BY <1>0
    <3> QED  BY <1>0, <1>10, <2>1, <3>1, <3>2, <3>3
  <2> QED  BY <2>2, <2>3
<1>21. result.dst = Upto(1, len) /\ result.longest <= 2 * FifoWord
  BY <1>18, <1>19 DEF Stored
<1>22. Len(result.rx) = Len(rx) - words
  <2>1. result.rx = Words(words + 1, last)
    BY <1>18, <1>19, <1>20 DEF Stored
  <2>2. last - (words + 1) + 1 = 2 /\ Len(Words(words + 1, last)) = 2
    <3>1. last - (words + 1) + 1 = 2
      BY <1>11
    <3> QED  BY <3>1 DEF Words
  <2>3. Len(rx) = last
    BY <1>11 DEF rx
  <2> QED  BY <1>11, <2>1, <2>2, <2>3
<1>23. FlattenSeq(rx) = Upto(1, last * FifoWord)
  <2> DEFINE e == [i \in 0..last |-> i * FifoWord]
  <2>1. e \in [0..last -> Nat] /\ e[0] = 0 /\ e[last] = last * FifoWord
    <3>1. \A i \in 0..last : i * FifoWord \in Nat
      BY <1>0, <1>11
    <3>2. 0 * FifoWord = 0
      BY <1>0
    <3> QED  BY <1>11, <3>1, <3>2
  <2>2. ASSUME NEW i \in 1..last
        PROVE  e[i] >= e[i - 1] /\ rx[i] = Upto(e[i - 1] + 1, e[i])
    <3>1. i \in 0..last /\ i - 1 \in 0..last
      BY <1>11
    <3>2. e[i] = i * FifoWord /\ e[i - 1] = (i - 1) * FifoWord
      BY <3>1
    <3>3. i * FifoWord >= (i - 1) * FifoWord
      BY <1>0, <1>11
    <3>4. rx[i] = Upto((i - 1) * FifoWord + 1, i * FifoWord)
      BY DEF rx
    <3> QED  BY <3>2, <3>3, <3>4
  <2>3. rx \in Seq(Seq(Int)) /\ DOMAIN rx = 1..last
    <3>1. ASSUME NEW i \in 1..last  PROVE Upto((i - 1) * FifoWord + 1, i * FifoWord) \in Seq(Int)
      <4>1. PICK x \in Int, y \in Int : x = (i - 1) * FifoWord + 1 /\ y = i * FifoWord /\ y >= x - 1
        BY <1>0, <1>11
      <4>2. Upto(x, y) \in Seq(Int)
        BY <4>1, UptoIs
      <4> QED  BY <4>1, <4>2
    <3> QED  BY <1>11, <3>1 DEF rx
  <2> HIDE DEF e
  <2>4. FlattenSeq(rx) = Upto(1, e[last])
    BY <1>11, <2>1, <2>2, <2>3, FlattenJoins
  <2> QED  BY <2>1, <2>4
<1>24. SubSeq(FlattenSeq(rx), 1, len) = Upto(1, len)
  <2>1. PICK x \in Nat : x = last * FifoWord /\ x >= len
    <3>1. PICK x \in Nat, y \in Nat : x = words * FifoWord /\ y = last * FifoWord /\ y = x + 2 * FifoWord /\ x >= len
      BY <1>0, <1>10, <1>11
    <3> QED  BY <1>0, <3>1
  <2> DEFINE i == 1
  <2>2. /\ i \in Int /\ x >= i - 1 /\ 1 <= i /\ i <= len + 1 /\ len <= x - i + 1
        /\ i + i - 1 = i /\ i + len - 1 = len
    BY <2>1
  <2> HIDE DEF i
  <2>3. SubSeq(Upto(i, x), i, len) = Upto(i + i - 1, i + len - 1)
    <3>1. i \in Int /\ x \in Int /\ len \in Int /\ x >= i - 1 /\ 1 <= i /\ i <= len + 1 /\ len <= x - i + 1
      BY <2>2 DEF i
    <3> QED  BY <3>1, UptoPart
  <2>4. SubSeq(Upto(i, x), i, len) = Upto(i, len)
    BY <2>2, <2>3
  <2> QED  BY <1>23, <2>1, <2>4 DEF i
<1>25. KeepsBytes(addr, src, rx)
  <2>1. /\ FlattenSeq(FifoWrite(addr, src)) = src
        /\ \A k \in DOMAIN FifoWrite(addr, src) :
             Len(FifoWrite(addr, src)[k]) > 1 =>
               (addr + Len(FlattenSeq(SubSeq(FifoWrite(addr, src), 1, k - 1)))) % FifoWord = 0
    BY <1>8, <1>9 DEF out
  <2>2. FifoRead(addr, Len(src), rx) = result
    BY <1>6
  <2>3. result.dst = SubSeq(FlattenSeq(rx), 1, Len(src))
    BY <1>6, <1>21, <1>24
  <2>4. Len(result.rx) = Len(rx) - WordsFor(Len(src))
    BY <1>6, <1>10, <1>22
  <2> HIDE DEF result
  <2> QED  BY <1>21, <2>1, <2>2, <2>3, <2>4 DEF KeepsBytes
<1> QED  BY <1>25 DEF src, rx, last

(* FifoKeepsBytes: dif_spi_host.c keeps every byte and its place, whatever *)
(* the address of the buffer, its length and the width of the FIFOs.       *)
THEOREM FifoTransfersAreExact == Spec => []FifoKeepsBytes
<1> DEFINE Known == input.of = "fifo" => input.addr \in 0..(FifoWord - 1) /\ input.len \in Nat
<1>1. Init => Known
  <2>1. ASSUME input \in FifoCases  PROVE input.addr \in 0..(FifoWord - 1) /\ input.len \in Nat
    BY <2>1, FifoWordAssumption DEF FifoCases
  <2> QED  BY <2>1 DEF Init, TreeCases, TickCases, MemoryCases, StringCases, IntegerCases
<1>2. Known => FifoKeepsBytes
  BY FifoKeeps DEF FifoKeepsBytes
<1>3. Known /\ [Next]_input => Known'
  BY DEF Next
<1> QED  BY <1>1, <1>2, <1>3, PTL DEF Spec

-----------------------------------------------------------------------------
(* The memory functions.                                                   *)

(* n accesses follow one another from ends[k - 1] to ends[k], and read     *)
(* words at aligned addresses only.                                        *)
Cut(addrs, len, chunks, n, ends) ==
  /\ n \in Nat /\ ends \in [0..n -> Nat] /\ ends[0] = 0 /\ ends[n] = len
  /\ DOMAIN chunks = 1..n
  /\ \A k \in 1..n :
       /\ k - 1 \in 0..n /\ k \in 0..n /\ ends[k - 1] < ends[k]
       /\ chunks[k] = [first |-> ends[k - 1] + 1, last |-> ends[k]]
       /\ ends[k] > ends[k - 1] + 1 => \A addr \in addrs : (addr + ends[k - 1]) % WordBytes = 0

(* The head of a transfer, and where the words begin.                      *)
LEMMA BodyIs ==
  ASSUME NEW addrs \in SUBSET (0..(WordBytes - 1)), addrs # {}, IsFiniteSet(addrs), NEW len \in Nat
  PROVE  \E h \in Nat, w \in Nat, t \in Nat :
           /\ h = NumLeadingBytes(addrs, len) /\ w = (len - h) \div WordBytes
           /\ len = h + w * WordBytes + t
           /\ w > 0 => \A addr \in addrs : \E m \in Nat : addr + h = WordBytes * m
<1>0. WordBytes \in Nat /\ WordBytes > 0
  BY WordBytesAssumption
<1>1. CASE len >= WordBytes /\ Cardinality(addrs) = 1
  <2>1. PICK addr : addrs = {addr}
    <3>1. PICK addr \in addrs : TRUE
      OBVIOUS
    <3>2. IsFiniteSet(addrs \ {addr}) /\ Cardinality(addrs \ {addr}) = Cardinality(addrs) - 1
      BY FS_RemoveElement
    <3>3. Cardinality(addrs \ {addr}) = 0
      BY <1>1, <3>2
    <3>4. addrs \ {addr} = {}
      BY <3>2, <3>3, FS_EmptySet
    <3> QED  BY <3>4
  <2>2. addr \in 0..(WordBytes - 1)
    BY <2>1
  <2>3. Min(addrs) = addr
    <3>1. \A x : x \in addrs <=> x = addr
      BY <2>1
    <3>2. addr <= addr
      BY <2>2
    <3>3. \E x \in addrs : \A y \in addrs : x =< y
      <4>1. addr \in addrs /\ \A y \in addrs : addr =< y
        BY <2>1, <2>2
      <4> QED  BY <4>1, Zenon
    <3>4. Min(addrs) \in addrs
      BY <3>3, Zenon DEF Min
    <3> QED  BY <3>1, <3>4
  <2>4. PICK h \in 0..(WordBytes - 1), m \in Nat :
          h = (WordBytes - addr) % WordBytes /\ addr + h = WordBytes * m
    <3>1. CASE addr = 0
      <4>1. WordBytes - addr = WordBytes * 1 + 0 /\ WordBytes - addr \in Int /\ 0 \in 0..(WordBytes - 1)
        BY <1>0, <3>1
      <4>2. (WordBytes - addr) % WordBytes = 0
        BY <1>0, <4>1, QuotientIs
      <4>3. addr + 0 = WordBytes * 0
        BY <1>0, <3>1
      <4> QED  BY <4>1, <4>2, <4>3
    <3>2. CASE addr # 0
      <4>1. /\ WordBytes - addr = WordBytes * 0 + (WordBytes - addr) /\ WordBytes - addr \in Int
            /\ WordBytes - addr \in 0..(WordBytes - 1)
        BY <1>0, <2>2, <3>2
      <4>2. (WordBytes - addr) % WordBytes = WordBytes - addr
        BY <1>0, <4>1, QuotientIs
      <4>3. addr + (WordBytes - addr) = WordBytes * 1
        BY <1>0, <2>2
      <4> QED  BY <4>1, <4>2, <4>3
    <3> QED  BY <3>1, <3>2
  <2>5. NumLeadingBytes(addrs, len) = h
    BY <1>1, <2>3, <2>4 DEF NumLeadingBytes
  <2>6. PICK d \in Nat : d = len - h
    BY <1>0, <1>1, <2>4
  <2>7. PICK w \in Nat, t \in Nat : w = d \div WordBytes /\ d = WordBytes * w + t
    <3>1. d \in Int /\ d >= 0
      OBVIOUS
    <3>2. d \div WordBytes \in Int /\ d % WordBytes \in 0..(WordBytes - 1)
          /\ d = WordBytes * (d \div WordBytes) + (d % WordBytes) /\ d \div WordBytes >= 0
      BY <1>0, <3>1, Division
    <3>3. d \div WordBytes \in Nat /\ d % WordBytes \in Nat
      BY <1>0, <3>2
    <3> QED  BY <3>2, <3>3
  <2>8. len = h + w * WordBytes + t /\ (len - h) \div WordBytes = w /\ h \in Nat
    BY <1>0, <2>4, <2>6, <2>7
  <2> QED  BY <2>1, <2>4, <2>5, <2>8
<1>2. CASE ~(len >= WordBytes /\ Cardinality(addrs) = 1)
  <2>1. NumLeadingBytes(addrs, len) = len
    BY <1>2 DEF NumLeadingBytes
  <2>2. len - len \in Int /\ len - len = WordBytes * 0 + 0 /\ 0 \in 0..(WordBytes - 1)
    BY <1>0
  <2>3. (len - len) \div WordBytes = 0
    BY <1>0, <2>2, QuotientIs
  <2>4. len = len + 0 * WordBytes + 0
    BY <1>0
  <2> QED  BY <2>1, <2>3, <2>4
<1> QED  BY <1>1, <1>2

(* compute_alignment cuts a buffer of any length so, whatever the          *)
(* addresses.                                                              *)
LEMMA ChunksAre ==
  ASSUME NEW addrs \in SUBSET (0..(WordBytes - 1)), addrs # {}, IsFiniteSet(addrs), NEW len \in Nat
  PROVE  \E n, ends : Cut(addrs, len, Chunks(addrs, len), n, ends)
<1>0. WordBytes \in Nat /\ WordBytes > 0
  BY WordBytesAssumption
<1>1. PICK h \in Nat, w \in Nat, t \in Nat :
        /\ h = NumLeadingBytes(addrs, len) /\ w = (len - h) \div WordBytes
        /\ len = h + w * WordBytes + t
        /\ w > 0 => \A addr \in addrs : \E m \in Nat : addr + h = WordBytes * m
  BY BodyIs
<1>2. PICK e \in Nat, q \in Nat : e = w * WordBytes /\ q = h + e /\ len = q + t
  BY <1>0, <1>1
<1> DEFINE n == h + w + t
           ends == Ends(WordBytes, h, w, t)
           chunks == Chunks(addrs, len)
           Ranges == [first : Int, last : Int]
           r == [i \in 1..h |-> [first |-> i, last |-> i]]
           s == [i \in 1..w |-> [first |-> h + (i - 1) * WordBytes + 1, last |-> h + i * WordBytes]]
           u == [i \in 1..t |-> [first |-> q + i, last |-> q + i]]
<1>3. chunks = (r \o s) \o u
  <2>1. len - (h + w * WordBytes) = t
    BY <1>2
  <2> QED  BY <1>1, <1>2, <2>1 DEF Chunks
<1>4. r \in Seq(Ranges) /\ Len(r) = h /\ s \in Seq(Ranges) /\ Len(s) = w /\ u \in Seq(Ranges) /\ Len(u) = t
  <2>1. \A i \in 1..h : [first |-> i, last |-> i] \in Ranges
    OBVIOUS
  <2>2. \A i \in 1..w : [first |-> h + (i - 1) * WordBytes + 1, last |-> h + i * WordBytes] \in Ranges
    <3>1. \A i \in 1..w : (i - 1) * WordBytes \in Int /\ i * WordBytes \in Int
      BY <1>0
    <3> QED  BY <3>1
  <2>3. \A i \in 1..t : [first |-> q + i, last |-> q + i] \in Ranges
    OBVIOUS
  <2>4. /\ \A i \in 1..h : r[i] \in Ranges
        /\ \A i \in 1..w : s[i] \in Ranges
        /\ \A i \in 1..t : u[i] \in Ranges
    BY <2>1, <2>2, <2>3
  <2> HIDE DEF Ranges
  <2>5. r \in Seq(Ranges) /\ Len(r) = h
    BY <2>4
  <2>6. s \in Seq(Ranges) /\ Len(s) = w
    BY <2>4
  <2>7. u \in Seq(Ranges) /\ Len(u) = t
    BY <2>4
  <2> QED  BY <2>5, <2>6, <2>7
<1>5. /\ \A i \in 1..h : r[i] = [first |-> i, last |-> i]
      /\ \A i \in 1..w : s[i] = [first |-> h + (i - 1) * WordBytes + 1, last |-> h + i * WordBytes]
      /\ \A i \in 1..t : u[i] = [first |-> q + i, last |-> q + i]
  OBVIOUS
<1> HIDE DEF r, s, u, chunks, ends, Ranges
<1> DEFINE x == (r \o s) \o u
<1>6. /\ x \in Seq(Ranges) /\ Len(x) = h + w + t
      /\ \A k \in 1..(h + w + t) : x[k] = IF k <= h THEN r[k] ELSE IF k <= h + w THEN s[k - h] ELSE u[k - h - w]
  <2>1. r \in Seq(Ranges) /\ s \in Seq(Ranges) /\ u \in Seq(Ranges)
    BY <1>4
  <2>2. /\ x \in Seq(Ranges) /\ Len(x) = Len(r) + Len(s) + Len(u)
        /\ \A k \in 1..(Len(r) + Len(s) + Len(u)) :
             x[k] = IF k <= Len(r) THEN r[k]
                    ELSE IF k <= Len(r) + Len(s) THEN s[k - Len(r)] ELSE u[k - Len(r) - Len(s)]
    BY <2>1, ThreeRows
  <2>3. Len(r) = h /\ Len(s) = w /\ Len(u) = t
    BY <1>4
  <2> HIDE DEF x
  <2> QED  BY <2>2, <2>3
<1> HIDE DEF x
<1>7. /\ ends \in [0..n -> Nat] /\ ends[0] = 0 /\ ends[n] = len
      /\ \A k \in 1..n : k - 1 \in 0..n /\ k \in 0..n /\ ends[k] = ends[k - 1] + SizeOf(WordBytes, h, w, k)
  <2>1. /\ Ends(WordBytes, h, w, t) \in [0..(h + w + t) -> Nat]
        /\ Ends(WordBytes, h, w, t)[0] = 0
        /\ Ends(WordBytes, h, w, t)[h + w + t] = h + w * WordBytes + t
        /\ \A k \in 1..(h + w + t) :
             /\ k - 1 \in 0..(h + w + t) /\ k \in 0..(h + w + t)
             /\ Ends(WordBytes, h, w, t)[k] = Ends(WordBytes, h, w, t)[k - 1] + SizeOf(WordBytes, h, w, k)
             /\ Ends(WordBytes, h, w, t)[k] <= h + w * WordBytes + t
    BY <1>0, EndsAre
  <2> QED  BY <1>1, <2>1 DEF ends
<1>8. ASSUME NEW k \in 1..n  PROVE SizeOf(WordBytes, h, w, k) \in Nat /\ SizeOf(WordBytes, h, w, k) >= 1
  BY <1>0 DEF SizeOf
<1>9. ASSUME NEW k \in 1..n
      PROVE  x[k] = [first |-> ends[k - 1] + 1, last |-> ends[k]]
  <2>1. ends[k] = EndOf(WordBytes, h, w, k) /\ ends[k - 1] \in Nat /\ ends[k] \in Nat
    BY <1>7 DEF Ends, ends
  <2>2. PICK b \in Nat, a \in Nat : b = ends[k] /\ a = ends[k - 1] /\ b = a + SizeOf(WordBytes, h, w, k)
    BY <1>7, <2>1
  <2>3. CASE k <= h
    <3>1. k \in 1..h
      BY <2>3
    <3>2. x[k] = r[k]
      BY <1>6, <2>3
    <3>3. b = k /\ a + 1 = k
      BY <2>1, <2>2, <2>3 DEF EndOf, SizeOf
    <3> QED  BY <1>5, <2>2, <3>1, <3>2, <3>3
  <2>4. CASE k > h /\ k <= h + w
    <3>1. PICK j \in 1..w : j = k - h
      BY <2>4
    <3>2. x[k] = s[j]
      BY <1>6, <2>4, <3>1
    <3>3. PICK p \in Nat : p = (j - 1) * WordBytes /\ j * WordBytes = p + WordBytes
      BY <1>0
    <3>4. b = h + (p + WordBytes) /\ SizeOf(WordBytes, h, w, k) = WordBytes
      BY <2>1, <2>2, <2>4, <3>1, <3>3 DEF EndOf, SizeOf
    <3>5. a = h + p
      BY <1>0, <2>2, <3>4
    <3> QED  BY <1>5, <2>2, <3>2, <3>3, <3>4, <3>5
  <2>5. CASE k > h + w
    <3>1. PICK j \in 1..t : j = k - h - w
      BY <2>5
    <3>2. x[k] = u[j]
      <4>1. ~(k <= h) /\ ~(k <= h + w)
        BY <2>5
      <4>2. x[k] = u[k - h - w]
        BY <1>6, <4>1, Zenon
      <4> QED  BY <3>1, <4>2
    <3>3. b = q + j /\ SizeOf(WordBytes, h, w, k) = 1
      BY <1>2, <2>1, <2>2, <2>5, <3>1 DEF EndOf, SizeOf
    <3>4. a + 1 = b
      BY <2>2, <3>3
    <3> QED  BY <1>5, <2>2, <3>2, <3>3, <3>4
  <2> QED  BY <2>3, <2>4, <2>5
<1>10. ASSUME NEW k \in 1..n, ends[k] > ends[k - 1] + 1, NEW addr \in addrs
       PROVE  (addr + ends[k - 1]) % WordBytes = 0
  <2>1. ends[k] = EndOf(WordBytes, h, w, k) /\ ends[k - 1] \in Nat /\ ends[k] \in Nat
    BY <1>7 DEF Ends, ends
  <2>2. PICK b \in Nat, a \in Nat : b = ends[k] /\ a = ends[k - 1] /\ b = a + SizeOf(WordBytes, h, w, k)
    BY <1>7, <2>1
  <2>3. k > h /\ k <= h + w
    BY <1>10, <2>2 DEF SizeOf
  <2>4. PICK j \in 0..(w - 1) : j = k - h - 1
    BY <2>3
  <2>5. PICK p \in Nat : p = j * WordBytes /\ (j + 1) * WordBytes = p + WordBytes
    BY <1>0
  <2>6. b = h + (p + WordBytes) /\ SizeOf(WordBytes, h, w, k) = WordBytes
    <3>1. k - h = j + 1
      BY <2>4
    <3> QED  BY <2>1, <2>2, <2>3, <2>5, <3>1 DEF EndOf, SizeOf
  <2>7. a = h + p
    BY <1>0, <2>2, <2>6
  <2>8. PICK m \in Nat : addr + h = WordBytes * m
    BY <1>1, <2>3
  <2>9. addr \in Nat
    BY <1>0
  <2>10. /\ addr + a \in Int /\ m + j \in Int /\ 0 \in 0..(WordBytes - 1)
         /\ addr + a = WordBytes * (m + j) + 0
    <3>1. WordBytes * (m + j) = WordBytes * m + j * WordBytes
      BY <1>0
    <3>2. WordBytes * m \in Nat
      BY <1>0
    <3>3. addr + a = WordBytes * m + p
      BY <2>7, <2>8, <2>9, <3>2
    <3> QED  BY <1>0, <2>5, <2>9, <3>1, <3>2, <3>3
  <2>11. (addr + a) % WordBytes = 0
    BY <1>0, <2>10, QuotientIs
  <2> QED  BY <2>2, <2>11
<1>11. DOMAIN x = 1..n
  <2>1. DOMAIN x = 1..Len(x)
    BY <1>6
  <2> QED  BY <1>6, <2>1
<1>12. \A k \in 1..n : ends[k - 1] < ends[k]
  BY <1>7, <1>8
<1>13. n \in Nat
  OBVIOUS
<1> HIDE DEF n
<1>14. chunks = x
  BY <1>3 DEF x
<1>15. Cut(addrs, len, chunks, n, ends)
  <2>1. \A k \in 1..n : chunks[k] = [first |-> ends[k - 1] + 1, last |-> ends[k]]
    BY <1>9, <1>14
  <2>2. DOMAIN chunks = 1..n
    BY <1>11, <1>14
  <2> QED  BY <1>7, <1>10, <1>12, <1>13, <2>1, <2>2 DEF Cut
<1> QED  BY <1>15 DEF chunks

(* The least of a set of numbers.                                          *)
LEMMA MinOf ==
  ASSUME NEW S \in SUBSET Nat, S # {}
  PROVE  Min(S) \in S /\ \A y \in S : Min(S) <= y
<1>1. \E x \in S : \A y \in S : x <= y
  BY LeastOf
<1>2. \E x \in S : \A y \in S : x =< y
  BY <1>1
<1>3. Min(S) = CHOOSE x \in S : \A y \in S : x =< y
  BY DEF Min
<1> QED  BY <1>2, <1>3, Zenon

(* Nothing else is the least.                                              *)
LEMMA MinIs ==
  ASSUME NEW S \in SUBSET Nat, NEW x \in S, \A y \in S : x <= y
  PROVE  Min(S) = x
<1>1. S # {}
  OBVIOUS
<1>2. PICK z \in S : z = Min(S) /\ \A y \in S : z <= y
  BY <1>1, MinOf
<1>3. z \in Nat /\ x \in Nat /\ z <= x /\ x <= z
  BY <1>2
<1> QED  BY <1>2, <1>3

(* The same for the greatest.                                              *)
LEMMA MaxIs ==
  ASSUME NEW n \in Nat, NEW S \in SUBSET (1..n), NEW x \in S, \A y \in S : y <= x
  PROVE  Max(S) = x
<1>1. S # {}
  OBVIOUS
<1>2. PICK z \in S : z = Max(S) /\ \A y \in S : z >= y
  BY <1>1, MaxOf
<1>3. z \in Nat /\ x \in Nat /\ z <= x /\ x <= z
  BY <1>2
<1> QED  BY <1>2, <1>3

(* Later accesses are of later bytes.                                      *)
LEMMA Grows ==
  ASSUME NEW n \in Nat, NEW ends \in [0..n -> Nat], \A k \in 1..n : ends[k - 1] < ends[k],
         NEW j \in 0..n, NEW k \in j..n
  PROVE  ends[j] <= ends[k]
<1> DEFINE T == {i \in 0..(n - j) : ends[j] <= ends[j + i]}
<1>1. 0 \in T
  OBVIOUS
<1>2. ASSUME NEW i \in 0..((n - j) - 1), i \in T  PROVE i + 1 \in T
  <2>1. j + (i + 1) \in 1..n /\ (j + (i + 1)) - 1 = j + i /\ j + i \in 0..n /\ j + (i + 1) \in 0..n
    OBVIOUS
  <2>2. ends[j + i] < ends[j + (i + 1)]
    BY <2>1
  <2>3. ends[j] \in Nat /\ ends[j + i] \in Nat /\ ends[j + (i + 1)] \in Nat
    BY <2>1
  <2>4. ends[j] <= ends[j + i]
    BY <1>2
  <2>5. ends[j] <= ends[j + (i + 1)]
    BY <2>2, <2>3, <2>4
  <2> QED  BY <2>5
<1> DEFINE N == n - j
<1>3. N \in Nat /\ \A i \in 0..(N - 1) : i \in T => i + 1 \in T
  BY <1>2
<1> HIDE DEF N, T
<1>4. \A i \in 0..N : i \in T
  BY <1>1, <1>3, Induct
<1>5. k - j \in 0..N /\ j + (k - j) = k
  BY DEF N
<1> QED  BY <1>4, <1>5 DEF T

(* The accesses that have a byte of D.                                     *)
With(D, chunks) == {k \in DOMAIN chunks : \E i \in chunks[k].first..chunks[k].last : i \in D}

(* Every byte is in one access.                                            *)
LEMMA ByteHasAccess ==
  ASSUME NEW addrs, NEW len \in Nat, NEW chunks, NEW n, NEW ends, Cut(addrs, len, chunks, n, ends), NEW i \in 1..len
  PROVE  \E k \in 1..n : /\ chunks[k].first <= i /\ i <= chunks[k].last /\ i \in chunks[k].first..chunks[k].last
                         /\ \A j \in 1..n : i \in chunks[j].first..chunks[j].last => j = k
<1>1. /\ n \in Nat /\ ends \in [0..n -> Nat] /\ ends[0] = 0 /\ ends[n] = len
      /\ \A k \in 1..n : ends[k - 1] < ends[k]
      /\ \A k \in 1..n : /\ k - 1 \in 0..n /\ k \in 0..n
                         /\ chunks[k].first = ends[k - 1] + 1 /\ chunks[k].last = ends[k]
  BY DEF Cut
<1> DEFINE T == {k \in 0..n : i <= ends[k]}
<1>2. PICK k \in T : \A y \in T : k <= y
  <2>1. T \in SUBSET Nat /\ n \in T
    BY <1>1
  <2> HIDE DEF T
  <2> QED  BY <2>1, LeastOf
<1>3. k \in 1..n
  BY <1>1, <1>2
<1>4. ~(i <= ends[k - 1])
  <2>1. k - 1 \in 0..n /\ ~(k <= k - 1)
    BY <1>3, <1>1
  <2> QED  BY <1>2, <2>1
<1>5. /\ chunks[k].first = ends[k - 1] + 1 /\ chunks[k].last = ends[k] /\ ends[k - 1] \in Nat /\ ends[k] \in Nat
      /\ i <= ends[k]
  BY <1>1, <1>2, <1>3
<1>6. chunks[k].first <= i /\ i <= chunks[k].last /\ i \in chunks[k].first..chunks[k].last
  BY <1>4, <1>5
<1>7. ASSUME NEW j \in 1..n, i \in chunks[j].first..chunks[j].last  PROVE j = k
  <2>1. j \in 0..n /\ j - 1 \in 0..n /\ ends[j - 1] \in Nat /\ ends[j] \in Nat
        /\ ends[j - 1] + 1 <= i /\ i <= ends[j]
    <3>1. j \in 0..n /\ j - 1 \in 0..n /\ chunks[j].first = ends[j - 1] + 1 /\ chunks[j].last = ends[j]
      BY <1>1
    <3>2. ends[j - 1] \in Nat /\ ends[j] \in Nat
      BY <1>1, <3>1
    <3>3. i \in (ends[j - 1] + 1)..ends[j]
      BY <1>7, <3>1
    <3> QED  BY <3>1, <3>2, <3>3
  <2>2. k <= j
    BY <1>2, <2>1
  <2>3. ~(k < j)
    <3> SUFFICES ASSUME k < j  PROVE FALSE
      OBVIOUS
    <3>1. k \in 0..n /\ j - 1 \in k..n
      BY <1>1, <1>3
    <3>2. ends[k] <= ends[j - 1]
      BY <1>1, <3>1, Grows
    <3> QED  BY <1>5, <2>1, <3>2
  <2> QED  BY <2>2, <2>3, <1>3
<1> QED  BY <1>3, <1>6, <1>7

(* The first byte of D is in the first access that has one, and is its     *)
(* first byte of D.                                                        *)
LEMMA FirstWith ==
  ASSUME NEW addrs, NEW len \in Nat, NEW chunks, NEW n, NEW ends, Cut(addrs, len, chunks, n, ends),
         NEW D \in SUBSET (1..len), D # {}
  PROVE  LET c == chunks[Min(With(D, chunks))] IN
         /\ With(D, chunks) # {} /\ Min(With(D, chunks)) \in 1..n
         /\ Min(D) \in c.first..c.last /\ Min(D) \in D
         /\ \A i \in c.first..c.last : i \in D => Min(D) <= i
<1>0. DOMAIN chunks = 1..n
  BY DEF Cut
<1>1. /\ n \in Nat /\ ends \in [0..n -> Nat] /\ ends[0] = 0 /\ ends[n] = len
      /\ \A k \in 1..n : ends[k - 1] < ends[k]
      /\ \A k \in 1..n : /\ k - 1 \in 0..n /\ k \in 0..n
                         /\ chunks[k].first = ends[k - 1] + 1 /\ chunks[k].last = ends[k]
  BY DEF Cut
<1>2. PICK m : m = Min(D) /\ m \in D /\ m \in 1..len /\ \A y \in D : m <= y
  <2>1. D \in SUBSET Nat
    OBVIOUS
  <2>2. Min(D) \in D /\ \A y \in D : Min(D) <= y
    BY <2>1, MinOf
  <2> QED  BY <2>2
<1>3. PICK k \in 1..n : m \in chunks[k].first..chunks[k].last
  BY <1>2, ByteHasAccess
<1>4. With(D, chunks) \in SUBSET (1..n) /\ k \in With(D, chunks)
  BY <1>0, <1>2, <1>3 DEF With
<1>5. ASSUME NEW j \in With(D, chunks)  PROVE k <= j
  <2>1. PICK i \in D : j \in 1..n /\ i \in chunks[j].first..chunks[j].last
    BY <1>0 DEF With
  <2>2. m <= i /\ i \in Nat
    BY <1>2
  <2>3. j \in 0..n /\ j - 1 \in 0..n /\ ends[j] \in Nat /\ i <= ends[j]
    BY <1>1, <2>1
  <2>4. k - 1 \in 0..n /\ ends[k - 1] \in Nat /\ ends[k - 1] + 1 <= m
    BY <1>1, <1>3
  <2>5. ~(j <= k - 1)
    <3> SUFFICES ASSUME j <= k - 1  PROVE FALSE
      OBVIOUS
    <3>1. j \in 0..n /\ k - 1 \in j..n
      BY <2>3, <2>4
    <3>2. ends[j] <= ends[k - 1]
      BY <1>1, <3>1, Grows
    <3> QED  BY <1>2, <2>2, <2>3, <2>4, <3>2
  <2> QED  BY <1>3, <2>1, <2>5
<1>6. Min(With(D, chunks)) = k
  <2>1. With(D, chunks) \in SUBSET Nat /\ k \in With(D, chunks) /\ \A j \in With(D, chunks) : k <= j
    BY <1>4, <1>5
  <2> QED  BY <2>1, MinIs
<1> QED  BY <1>2, <1>3, <1>4, <1>6

(* The same from the other end.                                            *)
LEMMA LastWith ==
  ASSUME NEW addrs, NEW len \in Nat, NEW chunks, NEW n, NEW ends, Cut(addrs, len, chunks, n, ends),
         NEW D \in SUBSET (1..len), D # {}
  PROVE  LET c == chunks[Max(With(D, chunks))] IN
         /\ With(D, chunks) # {} /\ Max(With(D, chunks)) \in 1..n
         /\ Max(D) \in c.first..c.last /\ Max(D) \in D
         /\ \A i \in c.first..c.last : i \in D => i <= Max(D)
<1>0. DOMAIN chunks = 1..n
  BY DEF Cut
<1>1. /\ n \in Nat /\ ends \in [0..n -> Nat] /\ ends[0] = 0 /\ ends[n] = len
      /\ \A k \in 1..n : ends[k - 1] < ends[k]
      /\ \A k \in 1..n : /\ k - 1 \in 0..n /\ k \in 0..n
                         /\ chunks[k].first = ends[k - 1] + 1 /\ chunks[k].last = ends[k]
  BY DEF Cut
<1>2. PICK m : m = Max(D) /\ m \in D /\ m \in 1..len /\ \A y \in D : y <= m
  <2>1. Max(D) \in D /\ \A y \in D : Max(D) >= y
    BY MaxOf
  <2> QED  BY <2>1
<1>3. PICK k \in 1..n : m \in chunks[k].first..chunks[k].last
  BY <1>2, ByteHasAccess
<1>4. With(D, chunks) \in SUBSET (1..n) /\ k \in With(D, chunks)
  BY <1>0, <1>2, <1>3 DEF With
<1>5. ASSUME NEW j \in With(D, chunks)  PROVE j <= k
  <2>1. PICK i \in D : j \in 1..n /\ i \in chunks[j].first..chunks[j].last
    BY <1>0 DEF With
  <2>2. i <= m /\ i \in Nat
    BY <1>2
  <2>3. j \in 0..n /\ j - 1 \in 0..n /\ ends[j - 1] \in Nat /\ ends[j - 1] + 1 <= i
    BY <1>1, <2>1
  <2>4. k \in 0..n /\ ends[k] \in Nat /\ m <= ends[k]
    BY <1>1, <1>3
  <2>5. ~(k <= j - 1)
    <3> SUFFICES ASSUME k <= j - 1  PROVE FALSE
      OBVIOUS
    <3>1. k \in 0..n /\ j - 1 \in k..n
      BY <2>3, <2>4
    <3>2. ends[k] <= ends[j - 1]
      BY <1>1, <3>1, Grows
    <3> QED  BY <1>2, <2>2, <2>3, <2>4, <3>2
  <2> QED  BY <1>3, <2>1, <2>5
<1>6. Max(With(D, chunks)) = k
  <2>1. /\ n \in Nat /\ With(D, chunks) \in SUBSET (1..n) /\ k \in With(D, chunks)
        /\ \A j \in With(D, chunks) : j <= k
    BY <1>1, <1>4, <1>5
  <2> QED  BY <2>1, MaxIs
<1> QED  BY <1>2, <1>3, <1>4, <1>6

(* n digits.                                                               *)
Numeral(a, n) == Len(a) = n /\ a \in [1..n -> Bytes]

(* The digits before the i-th are the same, and the i-th are not.          *)
DifferAt(a, b, i) == a[i] # b[i] /\ \A j \in 1..(i - 1) : a[j] = b[j]

(* What the definition of Number gives to the first k digits.              *)
NumberOf(digits, v, k) == IF k = 0 THEN 0 ELSE ByteValues * v[k - 1] + digits[k]

(* Digit by digit: the number of the first k digits.                       *)
LEMMA NumberStepwise ==
  ASSUME NEW n \in Nat, NEW digits, Numeral(digits, n)
  PROVE  \E v : /\ Number(digits) = v[n] /\ v[0] = 0
                /\ \A k \in 0..n : v[k] \in Nat
                /\ \A k \in 1..n : v[k] = ByteValues * v[k - 1] + digits[k]
<1>0. Len(digits) = n /\ digits \in [1..n -> Bytes]
  BY DEF Numeral
<1> DEFINE Known(f, k) == /\ f = [i \in 0..n |-> f[i]]
                          /\ \A i \in 0..k : f[i] = NumberOf(digits, f, i)
           T == {k \in 0..n : \E f : Known(f, k)}
<1>1. 0 \in T
  <2> DEFINE f == [i \in 0..n |-> 0]
  <2>1. f = [i \in 0..n |-> f[i]]
    OBVIOUS
  <2>2. \A i \in 0..0 : f[i] = NumberOf(digits, f, i)
    BY DEF NumberOf
  <2> HIDE DEF f
  <2>3. Known(f, 0)
    BY <2>1, <2>2
  <2> HIDE DEF Known
  <2> QED  BY <2>3
<1>2. ASSUME NEW k \in 0..(n - 1), k \in T  PROVE k + 1 \in T
  <2>1. PICK f : Known(f, k)
    BY <1>2
  <2> DEFINE g == [i \in 0..n |-> IF i = k + 1 THEN NumberOf(digits, f, i) ELSE f[i]]
  <2>2. g = [i \in 0..n |-> g[i]]
    OBVIOUS
  <2>3. ASSUME NEW i \in 0..(k + 1)  PROVE g[i] = NumberOf(digits, g, i)
    <3>1. i \in 0..n
      OBVIOUS
    <3>2. i # 0 => g[i - 1] = f[i - 1]
      OBVIOUS
    <3>3. NumberOf(digits, g, i) = NumberOf(digits, f, i)
      <4> HIDE DEF g
      <4> QED  BY <3>2, Zenon DEF NumberOf
    <3>4. i # k + 1 => f[i] = NumberOf(digits, f, i)
      <4>1. i # k + 1 => i \in 0..k
        OBVIOUS
      <4> QED  BY <2>1, <4>1
    <3>5. g[i] = IF i = k + 1 THEN NumberOf(digits, f, i) ELSE f[i]
      BY <3>1
    <3> HIDE DEF g
    <3> QED  BY <3>3, <3>4, <3>5
  <2> HIDE DEF g
  <2>4. Known(g, k + 1)
    BY <2>2, <2>3
  <2> HIDE DEF Known
  <2>5. k + 1 \in 0..n
    OBVIOUS
  <2> QED  BY <2>4, <2>5
<1>3. n \in T
  <2> HIDE DEF T
  <2>1. \A k \in 0..n : k \in T
    BY <1>1, <1>2, Induct
  <2> QED  BY <2>1
<1>4. PICK f : Known(f, n)
  BY <1>3
<1> DEFINE Counts(g) == g = [k \in 0..Len(digits) |-> IF k = 0 THEN 0 ELSE ByteValues * g[k - 1] + digits[k]]
<1>5. \A g : Counts(g) <=> g = [k \in 0..n |-> NumberOf(digits, g, k)]
  BY <1>0, Zenon DEF NumberOf
<1>6. Counts(f)
  <2>1. f = [k \in 0..n |-> NumberOf(digits, f, k)]
    BY <1>4
  <2> HIDE DEF Counts
  <2> QED  BY <1>5, <2>1
<1> DEFINE v == CHOOSE g : Counts(g)
<1>7. Counts(v)
  BY <1>6, Zenon
<1>8. Number(digits) = v[n]
  BY <1>0 DEF Number
<1> HIDE DEF v
<1>9. \A k \in 0..n : v[k] = NumberOf(digits, v, k)
  <2> HIDE DEF Counts
  <2>1. v = [k \in 0..n |-> NumberOf(digits, v, k)]
    BY <1>5, <1>7
  <2> QED  BY <2>1, Zenon
<1>10. v[0] = 0
  <2>1. v[0] = NumberOf(digits, v, 0)
    BY <1>9
  <2> QED  BY <2>1 DEF NumberOf
<1>11. \A k \in 1..n : v[k] = ByteValues * v[k - 1] + digits[k]
  <2>1. \A k \in 1..n : v[k] = NumberOf(digits, v, k) /\ k # 0
    BY <1>9
  <2> QED  BY <2>1, Zenon DEF NumberOf
<1>12. \A k \in 0..n : v[k] \in Nat
  <2> DEFINE P == {k \in 0..n : v[k] \in Nat}
  <2>1. 0 \in P
    BY <1>10
  <2>2. ASSUME NEW k \in 0..(n - 1), k \in P  PROVE k + 1 \in P
    <3>1. k + 1 \in 1..n /\ (k + 1) - 1 = k
      OBVIOUS
    <3>2. PICK p \in Nat, d \in Nat : p = v[k] /\ d = digits[k + 1]
      <4>1. digits[k + 1] \in Nat
        BY <1>0, <3>1, ByteValuesAssumption DEF Bytes
      <4> QED  BY <2>2, <4>1
    <3>3. v[k + 1] = ByteValues * p + d
      BY <1>11, <3>1, <3>2
    <3>4. ByteValues * p + d \in Nat
      BY ByteValuesAssumption
    <3> QED  BY <3>1, <3>3, <3>4
  <2> HIDE DEF P
  <2>3. \A k \in 0..n : k \in P
    BY <2>1, <2>2, Induct
  <2> QED  BY <2>3 DEF P
<1> QED  BY <1>8, <1>10, <1>11, <1>12

(* The first digit that differs decides which number is less.              *)
LEMMA FirstDigitDecides ==
  ASSUME NEW n \in Nat, NEW a, NEW b, Numeral(a, n), Numeral(b, n),
         NEW i \in 1..n, DifferAt(a, b, i), a[i] < b[i]
  PROVE  Number(a) \in Nat /\ Number(b) \in Nat /\ Number(a) < Number(b)
<1>0. ByteValues \in Nat /\ ByteValues >= 1
  BY ByteValuesAssumption
<1>1. PICK v : /\ Number(a) = v[n] /\ v[0] = 0
               /\ \A k \in 0..n : v[k] \in Nat
               /\ \A k \in 1..n : v[k] = ByteValues * v[k - 1] + a[k]
  BY NumberStepwise
<1>2. PICK w : /\ Number(b) = w[n] /\ w[0] = 0
               /\ \A k \in 0..n : w[k] \in Nat
               /\ \A k \in 1..n : w[k] = ByteValues * w[k - 1] + b[k]
  BY NumberStepwise
<1> DEFINE T == {k \in 0..n : IF k < i THEN v[k] = w[k] ELSE v[k] < w[k]}
<1>3. 0 \in T
  BY <1>1, <1>2
<1>4. ASSUME NEW k \in 0..(n - 1), k \in T  PROVE k + 1 \in T
  <2>1. k + 1 \in 1..n /\ k + 1 \in 0..n /\ (k + 1) - 1 = k /\ k \in 0..n
    OBVIOUS
  <2>2. PICK x \in Nat, y \in Nat : x = v[k] /\ y = w[k]
    BY <1>1, <1>2, <2>1
  <2>3. PICK p \in 0..(ByteValues - 1), q \in 0..(ByteValues - 1) : p = a[k + 1] /\ q = b[k + 1]
    BY <2>1 DEF Bytes, Numeral
  <2>4. v[k + 1] = ByteValues * x + p /\ w[k + 1] = ByteValues * y + q
    BY <1>1, <1>2, <2>1, <2>2, <2>3
  <2>5. CASE k + 1 < i
    <3>1. x = y /\ p = q
      <4>1. k + 1 \in 1..(i - 1) /\ k < i
        BY <2>1, <2>5
      <4> QED  BY <1>4, <2>2, <2>3, <4>1 DEF DifferAt
    <3> QED  BY <2>1, <2>4, <2>5, <3>1
  <2>6. CASE k + 1 = i
    <3>1. x = y /\ p < q
      BY <1>4, <2>2, <2>3, <2>6
    <3>2. PICK z \in Nat : z = ByteValues * x
      BY <1>0
    <3>3. z + p < z + q
      BY <1>0, <3>1
    <3>4. v[k + 1] < w[k + 1]
      BY <2>4, <3>1, <3>2, <3>3
    <3>5. ~(k + 1 < i)
      BY <2>6
    <3> QED  BY <2>1, <3>4, <3>5
  <2>7. CASE k + 1 > i
    <3>1. x + 1 <= y
      BY <1>4, <2>2, <2>7
    <3>2. ByteValues * (x + 1) <= ByteValues * y
      BY <1>0, <3>1
    <3>3. ByteValues * (x + 1) = ByteValues * x + ByteValues
      BY <1>0
    <3>4. PICK z \in Nat, u \in Nat : z = ByteValues * x /\ u = ByteValues * y /\ z + ByteValues <= u
      BY <1>0, <3>2, <3>3
    <3>5. z + p < u + q
      BY <1>0, <3>4
    <3>6. v[k + 1] < w[k + 1]
      BY <2>4, <3>4, <3>5
    <3>7. ~(k + 1 < i)
      BY <2>7
    <3> QED  BY <2>1, <3>6, <3>7
  <2> QED  BY <2>5, <2>6, <2>7
<1> HIDE DEF T
<1>5. \A k \in 0..n : k \in T
  BY <1>3, <1>4, Induct
<1>6. n \in T /\ ~(n < i)
  BY <1>5
<1>7. v[n] < w[n]
  BY <1>6 DEF T
<1> QED  BY <1>1, <1>2, <1>7

(* So numbers are in the order of their first digits that differ.          *)
LEMMA OrderOfNumbers ==
  ASSUME NEW n \in Nat, NEW a, NEW b, Numeral(a, n), Numeral(b, n), NEW i \in 1..n, DifferAt(a, b, i)
  PROVE  Number(a) # Number(b) /\ Order(Number(a), Number(b)) = Order(a[i], b[i])
<1>1. a[i] \in Int /\ b[i] \in Int
  BY ByteValuesAssumption DEF Bytes, Numeral
<1>2. CASE a[i] < b[i]
  <2>1. Number(a) \in Nat /\ Number(b) \in Nat /\ Number(a) < Number(b)
    BY <1>2, FirstDigitDecides
  <2> QED  BY <1>2, <2>1 DEF Order
<1>3. CASE b[i] < a[i]
  <2>1. DifferAt(b, a, i)
    BY DEF DifferAt
  <2>2. Number(a) \in Nat /\ Number(b) \in Nat /\ Number(b) < Number(a)
    BY <1>3, <2>1, FirstDigitDecides
  <2>3. ~(a[i] < b[i]) /\ ~(Number(a) < Number(b)) /\ a[i] > b[i] /\ Number(a) > Number(b)
    BY <1>1, <1>3, <2>2
  <2> QED  BY <2>2, <2>3 DEF Order
<1>4. a[i] # b[i]
  BY DEF DifferAt
<1> QED  BY <1>1, <1>2, <1>3, <1>4

(* The n bytes behind the first p as digits, from either end.              *)
Upward(data, p, n)   == SubSeq(data, p + 1, p + n)
Downward(data, p, n) == Reverse(SubSeq(data, p + 1, p + n))

(* They are bytes of the buffer, counted from its place p on or back to    *)
(* it.                                                                     *)
LEMMA DigitsAre ==
  ASSUME NEW len \in Nat, NEW data \in [1..len -> Bytes], NEW p \in Nat, NEW n \in Nat, p + n <= len
  PROVE  /\ Numeral(Upward(data, p, n), n)
         /\ \A k \in 1..n : Upward(data, p, n)[k] = data[p + k]
         /\ Numeral(Downward(data, p, n), n)
         /\ \A k \in 1..n : Downward(data, p, n)[k] = data[p + (n - k + 1)]
<1>1. SubSeq(data, p + 1, p + n) = [k \in 1..n |-> data[p + k]]
  <2>1. SubSeq(data, p + 1, p + n) = [k \in 1..(1 + (p + n) - (p + 1)) |-> data[(p + 1) + k - 1]]
    OBVIOUS
  <2>2. 1 + (p + n) - (p + 1) = n /\ \A k \in 1..n : (p + 1) + k - 1 = p + k
    OBVIOUS
  <2> QED  BY <2>1, <2>2
<1>2. PICK s : s = SubSeq(data, p + 1, p + n) /\ s = [k \in 1..n |-> data[p + k]]
  BY <1>1
<1>3. \A k \in 1..n : s[k] = data[p + k] /\ data[p + k] \in Bytes
  <2>1. \A k \in 1..n : p + k \in 1..len
    OBVIOUS
  <2> QED  BY <1>2, <2>1
<1>4. s \in [1..n -> Bytes] /\ s \in Seq(Bytes)
  <2>1. s \in [1..n -> Bytes]
    BY <1>2, <1>3
  <2> QED  BY <2>1
<1>5. Len(s) = n
  BY <1>4
<1>6. Reverse(s) = [k \in 1..n |-> s[(n - k) + 1]]
  BY <1>5 DEF Reverse
<1>7. PICK t : t = Reverse(s) /\ t = [k \in 1..n |-> s[(n - k) + 1]]
  BY <1>6
<1>8. \A k \in 1..n : t[k] = data[p + (n - k + 1)] /\ t[k] \in Bytes
  <2> TAKE k \in 1..n
  <2>1. n - k + 1 \in 1..n /\ (n - k) + 1 = n - k + 1
    OBVIOUS
  <2>2. s[n - k + 1] = data[p + (n - k + 1)] /\ s[n - k + 1] \in Bytes
    BY <1>3, <2>1
  <2> QED  BY <1>7, <2>1, <2>2
<1>9. t \in [1..n -> Bytes] /\ t \in Seq(Bytes)
  <2>1. t \in [1..n -> Bytes]
    BY <1>7, <1>8
  <2> QED  BY <2>1
<1>10. Len(t) = n
  BY <1>9
<1> QED  BY <1>2, <1>3, <1>4, <1>5, <1>7, <1>8, <1>9, <1>10 DEF Upward, Downward, Numeral

(* The access of n bytes behind the first p.                               *)
Access(p, n) == [first |-> p + 1, last |-> p + n]

(* The buffers agree in the n bytes behind the first p.                    *)
SameBytes(l, r, p, n) == \A k \in 1..n : l[p + k] = r[p + k]

(* Accesses of the same bytes are the same numbers.                        *)
LEMMA SameNumbers ==
  ASSUME NEW l, NEW r, NEW p \in Nat, NEW n \in Nat, SameBytes(l, r, p, n)
  PROVE  /\ BigEndian(l, Access(p, n)) = BigEndian(r, Access(p, n))
         /\ LittleEndian(l, Access(p, n)) = LittleEndian(r, Access(p, n))
<1>1. SubSeq(l, p + 1, p + n) = SubSeq(r, p + 1, p + n)
  <2>1. /\ SubSeq(l, p + 1, p + n) = [k \in 1..(1 + (p + n) - (p + 1)) |-> l[(p + 1) + k - 1]]
        /\ SubSeq(r, p + 1, p + n) = [k \in 1..(1 + (p + n) - (p + 1)) |-> r[(p + 1) + k - 1]]
    OBVIOUS
  <2>2. 1 + (p + n) - (p + 1) = n /\ \A k \in 1..n : (p + 1) + k - 1 = p + k
    OBVIOUS
  <2>3. \A k \in 1..n : l[(p + 1) + k - 1] = r[(p + 1) + k - 1]
    BY <2>2 DEF SameBytes
  <2> QED  BY <2>1, <2>2, <2>3
<1> QED  BY <1>1 DEF BigEndian, LittleEndian, Access

(* Swapped, the first byte that differs decides.                           *)
BigEndianOrders(l, r, p, n) ==
  \A m \in 1..n :
    l[p + m] # r[p + m] /\ (\A j \in 1..(m - 1) : l[p + j] = r[p + j]) =>
      /\ BigEndian(l, Access(p, n)) # BigEndian(r, Access(p, n))
      /\ Order(BigEndian(l, Access(p, n)), BigEndian(r, Access(p, n))) = Order(l[p + m], r[p + m])

(* So it is in every access of a buffer.                                   *)
LEMMA BigEndianOrder ==
  ASSUME NEW len \in Nat, NEW l \in [1..len -> Bytes], NEW r \in [1..len -> Bytes],
         NEW p \in Nat, NEW n \in Nat, p + n <= len
  PROVE  BigEndianOrders(l, r, p, n)
<1> DEFINE a == Upward(l, p, n)
           b == Upward(r, p, n)
<1>1. Numeral(a, n) /\ \A k \in 1..n : a[k] = l[p + k]
  BY DigitsAre
<1>2. Numeral(b, n) /\ \A k \in 1..n : b[k] = r[p + k]
  BY DigitsAre
<1>3. BigEndian(l, Access(p, n)) = Number(a) /\ BigEndian(r, Access(p, n)) = Number(b)
  BY DEF BigEndian, Access, Upward
<1> HIDE DEF a, b
<1> SUFFICES ASSUME NEW m \in 1..n, l[p + m] # r[p + m], \A j \in 1..(m - 1) : l[p + j] = r[p + j]
             PROVE  /\ BigEndian(l, Access(p, n)) # BigEndian(r, Access(p, n))
                    /\ Order(BigEndian(l, Access(p, n)), BigEndian(r, Access(p, n))) = Order(l[p + m], r[p + m])
  BY DEF BigEndianOrders
<1>4. a[m] = l[p + m] /\ b[m] = r[p + m]
  BY <1>1, <1>2
<1>5. DifferAt(a, b, m)
  <2>1. \A j \in 1..(m - 1) : j \in 1..n
    OBVIOUS
  <2> QED  BY <1>1, <1>2, <1>4, <2>1 DEF DifferAt
<1>6. Number(a) # Number(b) /\ Order(Number(a), Number(b)) = Order(a[m], b[m])
  <2>1. Numeral(a, n) /\ Numeral(b, n) /\ DifferAt(a, b, m)
    BY <1>1, <1>2, <1>5
  <2> QED  BY <2>1, OrderOfNumbers
<1> QED  BY <1>3, <1>4, <1>6

(* As they are read, the last one does.                                    *)
LittleEndianOrders(l, r, p, n) ==
  \A m \in 1..n :
    l[p + m] # r[p + m] /\ (\A j \in (m + 1)..n : l[p + j] = r[p + j]) =>
      /\ LittleEndian(l, Access(p, n)) # LittleEndian(r, Access(p, n))
      /\ Order(LittleEndian(l, Access(p, n)), LittleEndian(r, Access(p, n))) = Order(l[p + m], r[p + m])

(* So it is in every access of a buffer.                                   *)
LEMMA LittleEndianOrder ==
  ASSUME NEW len \in Nat, NEW l \in [1..len -> Bytes], NEW r \in [1..len -> Bytes],
         NEW p \in Nat, NEW n \in Nat, p + n <= len
  PROVE  LittleEndianOrders(l, r, p, n)
<1> DEFINE a == Downward(l, p, n)
           b == Downward(r, p, n)
<1>1. Numeral(a, n) /\ \A k \in 1..n : a[k] = l[p + (n - k + 1)]
  BY DigitsAre
<1>2. Numeral(b, n) /\ \A k \in 1..n : b[k] = r[p + (n - k + 1)]
  BY DigitsAre
<1>3. LittleEndian(l, Access(p, n)) = Number(a) /\ LittleEndian(r, Access(p, n)) = Number(b)
  BY DEF LittleEndian, Access, Downward
<1> HIDE DEF a, b
<1> SUFFICES ASSUME NEW m \in 1..n, l[p + m] # r[p + m], \A j \in (m + 1)..n : l[p + j] = r[p + j]
             PROVE  /\ LittleEndian(l, Access(p, n)) # LittleEndian(r, Access(p, n))
                    /\ Order(LittleEndian(l, Access(p, n)), LittleEndian(r, Access(p, n))) = Order(l[p + m], r[p + m])
  BY DEF LittleEndianOrders
<1> DEFINE i == n - m + 1
<1>4. i \in 1..n /\ n - i + 1 = m /\ \A j \in 1..(i - 1) : j \in 1..n /\ n - j + 1 \in (m + 1)..n
  OBVIOUS
<1> HIDE DEF i
<1>5. a[i] = l[p + m] /\ b[i] = r[p + m]
  BY <1>1, <1>2, <1>4
<1>6. DifferAt(a, b, i)
  BY <1>1, <1>2, <1>4, <1>5 DEF DifferAt
<1>7. Number(a) # Number(b) /\ Order(Number(a), Number(b)) = Order(a[i], b[i])
  <2>1. Numeral(a, n) /\ Numeral(b, n) /\ i \in 1..n /\ DifferAt(a, b, i)
    BY <1>1, <1>2, <1>4, <1>6
  <2> QED  BY <2>1, OrderOfNumbers
<1> QED  BY <1>3, <1>5, <1>7

(* One access: it copies its bytes of from.                                *)
Copied(from, c, data) == [i \in DOMAIN data |-> IF i \in c.first..c.last THEN from[i] ELSE data[i]]

(* What the definition of Written gives to the accesses numbered by S.     *)
CopiedBy(to, from, chunks, f, S) ==
  IF S = {} THEN to ELSE Copied(from, chunks[Max(S)], f[S \ {Max(S)}])

(* It copies the bytes of those accesses, and no others.                   *)
After(to, from, chunks, len, S) ==
  [i \in 1..len |-> IF \E k \in S : i \in chunks[k].first..chunks[k].last THEN from[i] ELSE to[i]]

(* One access more copies its own bytes.                                   *)
LEMMA OneMore ==
  ASSUME NEW to, NEW from, NEW chunks, NEW len, NEW S, NEW k \in S
  PROVE  After(to, from, chunks, len, S) = Copied(from, chunks[k], After(to, from, chunks, len, S \ {k}))
<1> DEFINE Has(i, j) == i \in chunks[j].first..chunks[j].last
           a == After(to, from, chunks, len, S \ {k})
<1>1. DOMAIN a = 1..len
  BY DEF After
<1>2. ASSUME NEW i \in 1..len
      PROVE  (IF \E j \in S : Has(i, j) THEN from[i] ELSE to[i]) = (IF Has(i, k) THEN from[i] ELSE a[i])
  <2>1. a[i] = IF \E j \in S \ {k} : Has(i, j) THEN from[i] ELSE to[i]
    BY DEF After
  <2> HIDE DEF a, Has
  <2> QED  BY <2>1
<1> HIDE DEF a
<1>3. After(to, from, chunks, len, S) = [i \in 1..len |-> IF Has(i, k) THEN from[i] ELSE a[i]]
  BY <1>2 DEF After
<1>4. Copied(from, chunks[k], a) = [i \in 1..len |-> IF Has(i, k) THEN from[i] ELSE a[i]]
  BY <1>1 DEF Copied
<1> QED  BY <1>3, <1>4 DEF a

(* Accesses that follow one another copy everything.                       *)
LEMMA WrittenIs ==
  ASSUME NEW addrs, NEW len \in Nat, NEW chunks, NEW n, NEW ends, Cut(addrs, len, chunks, n, ends),
         NEW to \in [1..len -> Bytes], NEW from
  PROVE  Written(to, from, chunks) = [i \in 1..len |-> from[i]]
<1>0. n \in Nat /\ DOMAIN chunks = 1..n
  BY DEF Cut
<1> DEFINE all(S) == After(to, from, chunks, len, S)
           f == [S \in SUBSET (1..n) |-> all(S)]
           Fold(g) == g = [S \in SUBSET (1..n) |->
                             IF S = {} THEN to
                             ELSE LET x == Max(S) IN
                                  [i \in DOMAIN (g[S \ {x}]) |->
                                     IF i \in (chunks[x].first)..(chunks[x].last) THEN from[i] ELSE (g[S \ {x}])[i]]]
<1>1. \A g : Fold(g) <=> g = [S \in SUBSET (1..n) |-> CopiedBy(to, from, chunks, g, S)]
  BY Zenon DEF CopiedBy, Copied
<1>2. all({}) = to
  <2>1. all({}) = [i \in 1..len |-> to[i]]
    BY DEF After
  <2> QED  BY <2>1
<1>3. Fold(f)
  <2>1. ASSUME NEW S \in SUBSET (1..n)  PROVE all(S) = CopiedBy(to, from, chunks, f, S)
    <3>1. CASE S = {}
      <4> HIDE DEF f, all
      <4>1. CopiedBy(to, from, chunks, f, S) = to
        BY <3>1, Zenon DEF CopiedBy
      <4> QED  BY <1>2, <3>1, <4>1
    <3>2. CASE S # {}
      <4>1. Max(S) \in S
        BY <1>0, <3>2, MaxOf
      <4>2. f[S \ {Max(S)}] = all(S \ {Max(S)})
        <5>1. S \ {Max(S)} \in SUBSET (1..n)
          OBVIOUS
        <5> HIDE DEF all
        <5> QED  BY <5>1
      <4>3. all(S) = Copied(from, chunks[Max(S)], all(S \ {Max(S)}))
        BY <4>1, OneMore
      <4> HIDE DEF f, all
      <4>4. CopiedBy(to, from, chunks, f, S) = Copied(from, chunks[Max(S)], f[S \ {Max(S)}])
        BY <3>2, Zenon DEF CopiedBy
      <4> QED  BY <4>2, <4>3, <4>4
    <3> QED  BY <3>1, <3>2
  <2>2. f = [S \in SUBSET (1..n) |-> CopiedBy(to, from, chunks, f, S)]
    <3> DEFINE h == f
    <3>1. h = [S \in SUBSET (1..n) |-> all(S)] /\ \A S \in SUBSET (1..n) : all(S) = CopiedBy(to, from, chunks, h, S)
      BY <2>1
    <3> HIDE DEF h, all
    <3>2. h = [S \in SUBSET (1..n) |-> CopiedBy(to, from, chunks, h, S)]
      BY <3>1, Zenon
    <3> QED  BY <3>2 DEF h
  <2> HIDE DEF Fold, f
  <2> QED  BY <1>1, <2>2
<1> DEFINE g == CHOOSE g : Fold(g)
<1>4. Fold(g)
  <2> HIDE DEF f
  <2> QED  BY <1>3, Zenon
<1>5. Written(to, from, chunks) = g[1..n]
  BY <1>0 DEF Written, FoldLeft, MapThenFoldSet
<1> HIDE DEF g
<1>6. \A S \in SUBSET (1..n) : g[S] = CopiedBy(to, from, chunks, g, S)
  <2> HIDE DEF Fold
  <2>1. g = [S \in SUBSET (1..n) |-> CopiedBy(to, from, chunks, g, S)]
    BY <1>1, <1>4
  <2> QED  BY <2>1, Zenon
<1> HIDE DEF f, Fold, all
<1> DEFINE T == {k \in 0..n : g[1..k] = all(1..k)}
<1>7. 0 \in T
  <2>1. 1..0 = {} /\ {} \in SUBSET (1..n)
    OBVIOUS
  <2>2. g[{}] = CopiedBy(to, from, chunks, g, {})
    BY <1>6, <2>1
  <2>3. CopiedBy(to, from, chunks, g, {}) = to
    BY Zenon DEF CopiedBy
  <2>4. 0 \in 0..n
    BY <1>0
  <2> QED  BY <1>2, <2>1, <2>2, <2>3, <2>4
<1>8. ASSUME NEW k \in 0..(n - 1), k \in T  PROVE k + 1 \in T
  <2>1. k + 1 \in 1..n /\ k + 1 \in 0..n /\ k + 1 \in Nat /\ k \in Nat
    BY <1>0
  <2> DEFINE m == k + 1
             S == 1..m
  <2>2. S \in SUBSET (1..n) /\ S # {} /\ m \in S /\ \A y \in S : y <= m
    <3>1. m \in 1..n
      BY <2>1
    <3> HIDE DEF m
    <3>2. S \in SUBSET (1..n)
      BY <1>0, <3>1
    <3> QED  BY <3>1, <3>2
  <2>3. Max(S) = m
    <3> HIDE DEF S, m
    <3> QED  BY <1>0, <2>2, MaxIs
  <2>4. S \ {m} = 1..k
    BY <2>1
  <2> HIDE DEF S, m
  <2>5. g[S] = CopiedBy(to, from, chunks, g, S)
    BY <1>6, <2>2
  <2>6. CopiedBy(to, from, chunks, g, S) = Copied(from, chunks[m], g[1..k])
    <3>1. CopiedBy(to, from, chunks, g, S) = Copied(from, chunks[Max(S)], g[S \ {Max(S)}])
      BY <2>2, Zenon DEF CopiedBy
    <3> QED  BY <2>3, <2>4, <3>1
  <2>7. all(S) = Copied(from, chunks[m], all(S \ {m}))
    <3>1. m \in S
      BY <2>2
    <3>2. After(to, from, chunks, len, S) = Copied(from, chunks[m], After(to, from, chunks, len, S \ {m}))
      BY <3>1, OneMore
    <3> QED  BY <3>2 DEF all
  <2>8. g[1..k] = all(1..k)
    BY <1>8
  <2>9. g[S] = all(S)
    BY <2>4, <2>5, <2>6, <2>7, <2>8
  <2> QED  BY <2>1, <2>9 DEF S, m
<1> HIDE DEF T
<1>9. \A k \in 0..n : k \in T
  BY <1>0, <1>7, <1>8, Induct
<1>10. g[1..n] = all(1..n)
  BY <1>0, <1>9 DEF T
<1>11. all(1..n) = [i \in 1..len |-> from[i]]
  <2>1. ASSUME NEW i \in 1..len  PROVE \E k \in 1..n : i \in chunks[k].first..chunks[k].last
    <3>1. \A p \in 1..len : \E k \in 1..n : p \in chunks[k].first..chunks[k].last
      BY ByteHasAccess
    <3> QED  BY <3>1
  <2> QED  BY <2>1 DEF all, After
<1> QED  BY <1>5, <1>10, <1>11

(* The positions at which two buffers differ, or which hold a value.       *)
Different(l, r, len) == {i \in 1..len : l[i] # r[i]}
Places(data, value, len) == {i \in 1..len : data[i] = value}

(* Each access is of some bytes behind some others.                        *)
Ranges(chunks, n, len) ==
  \A k \in 1..n : \E p \in Nat, m \in Nat :
    p + m <= len /\ chunks[k] = Access(p, m) /\ chunks[k].first = p + 1 /\ chunks[k].last = p + m

(* A cut consists of such accesses, none of them behind the end.           *)
LEMMA AccessesAre ==
  ASSUME NEW addrs, NEW len \in Nat, NEW chunks, NEW n, NEW ends, Cut(addrs, len, chunks, n, ends)
  PROVE  Ranges(chunks, n, len)
<1>1. ASSUME NEW k \in 1..n
      PROVE  \E p \in Nat, m \in Nat :
               p + m <= len /\ chunks[k] = Access(p, m) /\ chunks[k].first = p + 1 /\ chunks[k].last = p + m
  <2>1. /\ n \in Nat /\ ends \in [0..n -> Nat] /\ ends[n] = len /\ k - 1 \in 0..n /\ k \in 0..n
        /\ \A j \in 1..n : ends[j - 1] < ends[j]
        /\ ends[k - 1] < ends[k] /\ chunks[k] = [first |-> ends[k - 1] + 1, last |-> ends[k]]
    BY DEF Cut
  <2>2. ends[k] <= ends[n]
    <3>1. n \in k..n
      BY <2>1
    <3> QED  BY <2>1, <3>1, Grows
  <2>3. PICK p \in Nat, q \in Nat : p = ends[k - 1] /\ q = ends[k] /\ p < q /\ q <= len
    BY <2>1, <2>2
  <2>4. PICK m \in Nat : m = q - p /\ p + m = q
    BY <2>3
  <2>5. chunks[k] = Access(p, m)
    BY <2>1, <2>3, <2>4 DEF Access
  <2>6. chunks[k].first = p + 1 /\ chunks[k].last = p + m
    BY <2>5 DEF Access
  <2> QED  BY <2>3, <2>4, <2>5, <2>6
<1> QED  BY <1>1 DEF Ranges

(* The accesses whose numbers differ are those of bytes that differ.       *)
LEMMA DifferingAccesses ==
  ASSUME NEW addrs, NEW len \in Nat, NEW chunks, NEW n, NEW ends, Cut(addrs, len, chunks, n, ends),
         NEW l \in [1..len -> Bytes], NEW r \in [1..len -> Bytes]
  PROVE  /\ {k \in DOMAIN chunks : BigEndian(l, chunks[k]) # BigEndian(r, chunks[k])}
              = With(Different(l, r, len), chunks)
         /\ {k \in DOMAIN chunks : LittleEndian(l, chunks[k]) # LittleEndian(r, chunks[k])}
              = With(Different(l, r, len), chunks)
<1> DEFINE D == Different(l, r, len)
<1>0. DOMAIN chunks = 1..n
  BY DEF Cut
<1>1. \A k \in 1..n : \E p \in Nat, m \in Nat :
        p + m <= len /\ chunks[k] = Access(p, m) /\ chunks[k].first = p + 1 /\ chunks[k].last = p + m
  <2>1. Ranges(chunks, n, len)
    BY AccessesAre
  <2> QED  BY <2>1 DEF Ranges
<1>2. ASSUME NEW k \in 1..n
      PROVE  /\ (BigEndian(l, chunks[k]) # BigEndian(r, chunks[k])) <=> (k \in With(D, chunks))
             /\ (LittleEndian(l, chunks[k]) # LittleEndian(r, chunks[k])) <=> (k \in With(D, chunks))
  <2>1. PICK p \in Nat, m \in Nat : p + m <= len /\ chunks[k] = Access(p, m)
    BY <1>1
  <2>2. PICK p2 \in Nat, m2 \in Nat : p2 = p /\ m2 = m /\ chunks[k].first = p2 + 1 /\ chunks[k].last = p2 + m2
    BY <2>1 DEF Access
  <2> DEFINE Q == {i \in 1..m : l[p + i] # r[p + i]}
  <2>3. k \in With(D, chunks) <=> Q # {}
    <3>1. k \in With(D, chunks) <=> \E i \in (p + 1)..(p + m) : i \in D
      BY <1>0, <2>2 DEF With
    <3>2. ASSUME NEW i \in (p + 1)..(p + m), i \in D  PROVE i - p \in Q
      <4>1. i - p \in 1..m /\ p + (i - p) = i
        OBVIOUS
      <4>2. l[i] # r[i]
        BY <3>2 DEF Different
      <4> QED  BY <4>1, <4>2
    <3>3. ASSUME NEW i \in Q  PROVE p + i \in (p + 1)..(p + m) /\ p + i \in D
      <4>1. p + i \in (p + 1)..(p + m) /\ p + i \in 1..len
        BY <2>1
      <4> QED  BY <4>1 DEF Different
    <3> HIDE DEF Q, D
    <3> QED  BY <3>1, <3>2, <3>3
  <2>4. CASE Q = {}
    <3>1. \A i \in 1..m : l[p + i] = r[p + i]
      BY <2>4
    <3>2. /\ BigEndian(l, Access(p, m)) = BigEndian(r, Access(p, m))
          /\ LittleEndian(l, Access(p, m)) = LittleEndian(r, Access(p, m))
      <4> HIDE DEF Q
      <4>1. SameBytes(l, r, p, m)
        BY <3>1 DEF SameBytes
      <4> QED  BY <4>1, SameNumbers
    <3> HIDE DEF Q
    <3> QED  BY <2>1, <2>3, <2>4, <3>2
  <2>5. CASE Q # {}
    <3>1. PICK i \in Q : \A j \in Q : i <= j
      <4>1. Q \in SUBSET Nat
        OBVIOUS
      <4> HIDE DEF Q
      <4> QED  BY <2>5, <4>1, LeastOf
    <3>2. i \in 1..m /\ l[p + i] # r[p + i] /\ \A j \in 1..(i - 1) : l[p + j] = r[p + j]
      BY <3>1
    <3>3. PICK h \in Q : \A j \in Q : j <= h
      <4>1. Q \in SUBSET (1..m)
        OBVIOUS
      <4> HIDE DEF Q
      <4>2. Max(Q) \in Q /\ \A y \in Q : Max(Q) >= y
        BY <2>5, <4>1, MaxOf
      <4>3. \A y \in Q : y <= Max(Q)
        BY <4>1, <4>2
      <4> QED  BY <4>2, <4>3
    <3>4. h \in 1..m /\ l[p + h] # r[p + h] /\ \A j \in (h + 1)..m : l[p + j] = r[p + j]
      <4>1. h \in 1..m /\ l[p + h] # r[p + h]
        OBVIOUS
      <4>2. \A j \in (h + 1)..m : j \in 1..m /\ ~(j <= h)
        BY <4>1
      <4> QED  BY <3>3, <4>1, <4>2
    <3>5. BigEndian(l, Access(p, m)) # BigEndian(r, Access(p, m))
      BY <2>1, <3>2, BigEndianOrder DEF BigEndianOrders
    <3>6. LittleEndian(l, Access(p, m)) # LittleEndian(r, Access(p, m))
      BY <2>1, <3>4, LittleEndianOrder DEF LittleEndianOrders
    <3> HIDE DEF Q
    <3> QED  BY <2>1, <2>3, <2>5, <3>5, <3>6
  <2> QED  BY <2>4, <2>5
<1>3. With(D, chunks) \subseteq 1..n
  BY <1>0 DEF With
<1> HIDE DEF D
<1>4. /\ {k \in DOMAIN chunks : BigEndian(l, chunks[k]) # BigEndian(r, chunks[k])} = With(D, chunks)
      /\ {k \in DOMAIN chunks : LittleEndian(l, chunks[k]) # LittleEndian(r, chunks[k])} = With(D, chunks)
  BY <1>0, <1>2, <1>3
<1> QED  BY <1>4 DEF D

(* A buffer of len bytes.                                                  *)
Buffer(b, len) == b.data \in [1..len -> Bytes] /\ Len(b.data) = len

(* The byte that decides is that of the access that decides.               *)
LEMMA ByteDecides ==
  ASSUME NEW addrs, NEW len \in Nat, NEW chunks, NEW n, NEW ends, Cut(addrs, len, chunks, n, ends),
         NEW a \in [1..len -> Bytes], NEW b \in [1..len -> Bytes],
         Different(a, b, len) # {}
  PROVE  LET D == Different(a, b, len)
             W == With(D, chunks)
         IN
         /\ Order(BigEndian(a, chunks[Min(W)]), BigEndian(b, chunks[Min(W)])) = Order(a[Min(D)], b[Min(D)])
         /\ Order(LittleEndian(a, chunks[Max(W)]), LittleEndian(b, chunks[Max(W)])) = Order(a[Max(D)], b[Max(D)])
<1> DEFINE D == Different(a, b, len)
           W == With(D, chunks)
<1>0. D \in SUBSET (1..len) /\ \A i \in 1..len : i \in D <=> a[i] # b[i]
  BY DEF Different
<1> HIDE DEF D
<1>1. PICK k, i : /\ k = Min(W) /\ i = Min(D) /\ k \in 1..n /\ i \in D
                  /\ i \in chunks[k].first..chunks[k].last
                  /\ \A j \in chunks[k].first..chunks[k].last : j \in D => i <= j
  <2>1. D # {}
    BY DEF D
  <2> QED  BY <1>0, <2>1, FirstWith
<1>2. PICK h, m : /\ h = Max(W) /\ m = Max(D) /\ h \in 1..n /\ m \in D
                  /\ m \in chunks[h].first..chunks[h].last
                  /\ \A j \in chunks[h].first..chunks[h].last : j \in D => j <= m
  <2>1. D # {}
    BY DEF D
  <2> QED  BY <1>0, <2>1, LastWith
<1>3. \A g \in 1..n : \E p \in Nat, q \in Nat :
        p + q <= len /\ chunks[g] = Access(p, q) /\ chunks[g].first = p + 1 /\ chunks[g].last = p + q
  <2>1. Ranges(chunks, n, len)
    BY AccessesAre
  <2> QED  BY <2>1 DEF Ranges
<1>4. Order(BigEndian(a, chunks[k]), BigEndian(b, chunks[k])) = Order(a[i], b[i])
  <2>1. PICK p \in Nat, q \in Nat :
          p + q <= len /\ chunks[k] = Access(p, q) /\ chunks[k].first = p + 1 /\ chunks[k].last = p + q
    BY <1>3, <1>1
  <2>2. PICK x \in 1..q : p + x = i
    <3>1. i \in (p + 1)..(p + q)
      BY <1>1, <2>1
    <3>2. i - p \in 1..q /\ p + (i - p) = i
      BY <3>1
    <3> QED  BY <3>2
  <2>3. a[p + x] # b[p + x]
    BY <1>0, <1>1, <2>2
  <2>4. \A j \in 1..(x - 1) : a[p + j] = b[p + j]
    <3> TAKE j \in 1..(x - 1)
    <3>1. p + j \in (p + 1)..(p + q) /\ p + j \in 1..len /\ ~(i <= p + j)
      BY <2>1, <2>2
    <3>2. p + j \notin D
      BY <1>1, <2>1, <3>1
    <3> QED  BY <1>0, <3>1, <3>2
  <2>5. Order(BigEndian(a, Access(p, q)), BigEndian(b, Access(p, q))) = Order(a[p + x], b[p + x])
    <3>1. \A z \in 1..q :
            a[p + z] # b[p + z] /\ (\A j \in 1..(z - 1) : a[p + j] = b[p + j]) =>
              /\ BigEndian(a, Access(p, q)) # BigEndian(b, Access(p, q))
              /\ Order(BigEndian(a, Access(p, q)), BigEndian(b, Access(p, q))) = Order(a[p + z], b[p + z])
      <4>1. p + q <= len
        BY <2>1
      <4>2. BigEndianOrders(a, b, p, q)
        BY <4>1, BigEndianOrder
      <4> QED  BY <4>2 DEF BigEndianOrders
    <3> QED  BY <2>3, <2>4, <3>1
  <2> QED  BY <2>1, <2>2, <2>5
<1>5. Order(LittleEndian(a, chunks[h]), LittleEndian(b, chunks[h])) = Order(a[m], b[m])
  <2>1. PICK p \in Nat, q \in Nat :
          p + q <= len /\ chunks[h] = Access(p, q) /\ chunks[h].first = p + 1 /\ chunks[h].last = p + q
    BY <1>3, <1>2
  <2>2. PICK x \in 1..q : p + x = m
    <3>1. m \in (p + 1)..(p + q)
      BY <1>2, <2>1
    <3>2. m - p \in 1..q /\ p + (m - p) = m
      BY <3>1
    <3> QED  BY <3>2
  <2>3. a[p + x] # b[p + x]
    BY <1>0, <1>2, <2>2
  <2>4. \A j \in (x + 1)..q : a[p + j] = b[p + j]
    <3> TAKE j \in (x + 1)..q
    <3>1. p + j \in (p + 1)..(p + q) /\ p + j \in 1..len /\ ~(p + j <= m)
      BY <2>1, <2>2
    <3>2. p + j \notin D
      BY <1>2, <2>1, <3>1
    <3> QED  BY <1>0, <3>1, <3>2
  <2>5. Order(LittleEndian(a, Access(p, q)), LittleEndian(b, Access(p, q))) = Order(a[p + x], b[p + x])
    <3>1. \A z \in 1..q :
            a[p + z] # b[p + z] /\ (\A j \in (z + 1)..q : a[p + j] = b[p + j]) =>
              /\ LittleEndian(a, Access(p, q)) # LittleEndian(b, Access(p, q))
              /\ Order(LittleEndian(a, Access(p, q)), LittleEndian(b, Access(p, q))) = Order(a[p + z], b[p + z])
      <4>1. p + q <= len
        BY <2>1
      <4>2. LittleEndianOrders(a, b, p, q)
        BY <4>1, LittleEndianOrder
      <4> QED  BY <4>2 DEF LittleEndianOrders
    <3> QED  BY <2>3, <2>4, <3>1
  <2> QED  BY <2>1, <2>2, <2>5
<1> QED  BY <1>1, <1>2, <1>4, <1>5 DEF D

(* memcmp and memrcmp.                                                     *)
LEMMA MemcmpIs ==
  ASSUME NEW addrs, NEW len \in Nat, NEW l, NEW r, Buffer(l, len), Buffer(r, len),
         NEW n, NEW ends, Cut(addrs, len, Chunks({l.addr, r.addr}, len), n, ends)
  PROVE  LET D == Different(l.data, r.data, len) IN
         /\ Memcmp(l, r) = IF D = {} THEN 0 ELSE Order(l.data[Min(D)], r.data[Min(D)])
         /\ Memrcmp(l, r) = IF D = {} THEN 0 ELSE Order(l.data[Max(D)], r.data[Max(D)])
<1>1. PICK chunks : chunks = Chunks({l.addr, r.addr}, Len(l.data)) /\ Cut(addrs, len, chunks, n, ends)
  BY DEF Buffer
<1>2. PICK a \in [1..len -> Bytes], b \in [1..len -> Bytes] : a = l.data /\ b = r.data
  BY DEF Buffer
<1>3. PICK D \in SUBSET (1..len) : D = Different(a, b, len)
  BY DEF Different
<1>4. PICK W : W = With(D, chunks)
  OBVIOUS
<1>5. /\ {k \in DOMAIN chunks : BigEndian(a, chunks[k]) # BigEndian(b, chunks[k])} = With(Different(a, b, len), chunks)
      /\ {k \in DOMAIN chunks : LittleEndian(a, chunks[k]) # LittleEndian(b, chunks[k])} = With(Different(a, b, len), chunks)
  <2>1. Cut(addrs, len, chunks, n, ends)
    BY <1>1
  <2> QED  BY <2>1, DifferingAccesses
<1>6. Memcmp(l, r) = IF W = {} THEN 0 ELSE Order(BigEndian(a, chunks[Min(W)]), BigEndian(b, chunks[Min(W)]))
  <2>1. {k \in DOMAIN chunks : BigEndian(l.data, chunks[k]) # BigEndian(r.data, chunks[k])} = W
    BY <1>2, <1>3, <1>4, <1>5
  <2> QED  BY <1>1, <1>2, <2>1, Zenon DEF Memcmp
<1>7. Memrcmp(l, r) = IF W = {} THEN 0 ELSE Order(LittleEndian(a, chunks[Max(W)]), LittleEndian(b, chunks[Max(W)]))
  <2>1. {k \in DOMAIN chunks : LittleEndian(l.data, chunks[k]) # LittleEndian(r.data, chunks[k])} = W
    BY <1>2, <1>3, <1>4, <1>5
  <2> QED  BY <1>1, <1>2, <2>1, Zenon DEF Memrcmp
<1>8. CASE D = {}
  <2>1. W = {}
    BY <1>4, <1>8 DEF With
  <2> QED  BY <1>2, <1>3, <1>6, <1>7, <1>8, <2>1, Zenon
<1>9. CASE D # {}
  <2>1. With(D, chunks) # {}
    <3>1. Cut(addrs, len, chunks, n, ends) /\ D # {}
      BY <1>1, <1>9
    <3> QED  BY <3>1, FirstWith
  <2>2. /\ Order(BigEndian(a, chunks[Min(With(D, chunks))]), BigEndian(b, chunks[Min(With(D, chunks))])) = Order(a[Min(D)], b[Min(D)])
        /\ Order(LittleEndian(a, chunks[Max(With(D, chunks))]), LittleEndian(b, chunks[Max(With(D, chunks))])) = Order(a[Max(D)], b[Max(D)])
    <3>1. Cut(addrs, len, chunks, n, ends) /\ Different(a, b, len) # {}
      BY <1>1, <1>3, <1>9
    <3>2. LET d == Different(a, b, len) w == With(d, chunks) IN
          /\ Order(BigEndian(a, chunks[Min(w)]), BigEndian(b, chunks[Min(w)])) = Order(a[Min(d)], b[Min(d)])
          /\ Order(LittleEndian(a, chunks[Max(w)]), LittleEndian(b, chunks[Max(w)])) = Order(a[Max(d)], b[Max(d)])
      BY <3>1, ByteDecides
    <3> QED  BY <1>3, <3>2
  <2>3. W # {} /\ Memcmp(l, r) = Order(a[Min(D)], b[Min(D)]) /\ Memrcmp(l, r) = Order(a[Max(D)], b[Max(D)])
    BY <1>4, <1>6, <1>7, <2>1, <2>2
  <2> QED  BY <1>2, <1>3, <1>9, <2>3
<1> QED  BY <1>8, <1>9

(* The first place of a value is in the first access that has it, the last *)
(* place in the last one.                                                  *)
FoundIn(D, chunks) ==
  LET W == With(D, chunks)
      In(k) == {i \in chunks[k].first..chunks[k].last : i \in D}
  IN  Min(In(Min(W))) = Min(D) /\ Max(In(Max(W))) = Max(D)

(* They are found there, for any set of places.                            *)
LEMMA PlaceDecides ==
  ASSUME NEW addrs, NEW len \in Nat, NEW chunks, NEW n, NEW ends, Cut(addrs, len, chunks, n, ends),
         NEW D, D \in SUBSET (1..len), D # {}
  PROVE  FoundIn(D, chunks)
<1> DEFINE W == With(D, chunks)
           In(k) == {i \in chunks[k].first..chunks[k].last : i \in D}
<1>1. PICK k, i : /\ k = Min(W) /\ i = Min(D) /\ k \in 1..n /\ i \in D
                  /\ i \in chunks[k].first..chunks[k].last
                  /\ \A j \in chunks[k].first..chunks[k].last : j \in D => i <= j
  BY FirstWith
<1>2. PICK h, m : /\ h = Max(W) /\ m = Max(D) /\ h \in 1..n /\ m \in D
                  /\ m \in chunks[h].first..chunks[h].last
                  /\ \A j \in chunks[h].first..chunks[h].last : j \in D => j <= m
  BY LastWith
<1>3. \A g : In(g) \in SUBSET (1..len) /\ In(g) \in SUBSET Nat
  OBVIOUS
<1>4. i \in In(k) /\ \A j \in In(k) : i <= j
  BY <1>1
<1>5. m \in In(h) /\ \A j \in In(h) : j <= m
  BY <1>2
<1> HIDE DEF In, W
<1>6. Min(In(k)) = i
  BY <1>3, <1>4, MinIs
<1>7. Max(In(h)) = m
  BY <1>3, <1>5, MaxIs
<1> QED  BY <1>1, <1>2, <1>6, <1>7 DEF In, W, FoundIn

(* What a search through some accesses finds, the first or the last.       *)
SearchFirst(l, value, chunks) ==
  LET found == Holding(l, value, chunks)
  IN  IF found = {} THEN 0
      ELSE LET c == chunks[Min(found)] IN Min({i \in c.first..c.last : l.data[i] = value})

SearchLast(l, value, chunks) ==
  LET found == Holding(l, value, chunks)
  IN  IF found = {} THEN 0
      ELSE LET c == chunks[Max(found)] IN Max({i \in c.first..c.last : l.data[i] = value})

(* memchr and memrchr.                                                     *)
LEMMA SearchIs ==
  ASSUME NEW addrs, NEW len \in Nat, NEW l, Buffer(l, len), NEW value, NEW all,
         NEW n, NEW ends, Cut(addrs, len, all, n, ends)
  PROVE  LET D == Places(l.data, value, len) IN
         /\ SearchFirst(l, value, all) = IF D = {} THEN 0 ELSE Min(D)
         /\ SearchLast(l, value, all) = IF D = {} THEN 0 ELSE Max(D)
<1>1. PICK chunks : chunks = all /\ Cut(addrs, len, chunks, n, ends)
  OBVIOUS
<1>2. PICK D \in SUBSET (1..len) : D = Places(l.data, value, len)
  BY DEF Places
<1>3. PICK W : W = With(D, chunks)
  OBVIOUS
<1>4. DOMAIN chunks = 1..n
  BY <1>1 DEF Cut
<1>5. \A k \in 1..n : \A i \in chunks[k].first..chunks[k].last : i \in D <=> l.data[i] = value
  <2>1. \A k \in 1..n : \E p \in Nat, q \in Nat :
          p + q <= len /\ chunks[k] = Access(p, q) /\ chunks[k].first = p + 1 /\ chunks[k].last = p + q
    <3>1. Cut(addrs, len, chunks, n, ends)
      BY <1>1
    <3>2. Ranges(chunks, n, len)
      BY <3>1, AccessesAre
    <3> QED  BY <3>2 DEF Ranges
  <2>2. ASSUME NEW k \in 1..n, NEW i \in chunks[k].first..chunks[k].last  PROVE i \in 1..len
    <3>1. PICK p \in Nat, q \in Nat : p + q <= len /\ chunks[k].first = p + 1 /\ chunks[k].last = p + q
      BY <2>1
    <3>2. i \in (p + 1)..(p + q)
      BY <3>1
    <3> QED  BY <3>1, <3>2
  <2> QED  BY <1>2, <2>2 DEF Places
<1> DEFINE In(k)    == {i \in chunks[k].first..chunks[k].last : i \in D}
           Match(k) == {i \in chunks[k].first..chunks[k].last : l.data[i] = value}
<1>6. \A k \in 1..n : Match(k) = In(k)
  BY <1>5
<1>7. Holding(l, value, chunks) = W
  BY <1>3, <1>4, <1>5 DEF Holding, With
<1>8. SearchFirst(l, value, all) = IF W = {} THEN 0 ELSE Min(Match(Min(W)))
  BY <1>1, <1>7, Zenon DEF SearchFirst
<1>9. SearchLast(l, value, all) = IF W = {} THEN 0 ELSE Max(Match(Max(W)))
  BY <1>1, <1>7, Zenon DEF SearchLast
<1> HIDE DEF In, Match
<1>10. CASE D = {}
  <2>1. W = {}
    BY <1>3, <1>10 DEF With
  <2> QED  BY <1>2, <1>8, <1>9, <1>10, <2>1, Zenon
<1>11. CASE D # {}
  <2>1. /\ With(D, chunks) # {} /\ Min(With(D, chunks)) \in 1..n
    <3>1. Cut(addrs, len, chunks, n, ends) /\ D # {}
      BY <1>1, <1>11
    <3> QED  BY <3>1, FirstWith
  <2>2. Max(With(D, chunks)) \in 1..n
    <3>1. Cut(addrs, len, chunks, n, ends) /\ D # {}
      BY <1>1, <1>11
    <3> QED  BY <3>1, LastWith
  <2>3. Min(In(Min(With(D, chunks)))) = Min(D) /\ Max(In(Max(With(D, chunks)))) = Max(D)
    <3>1. Cut(addrs, len, chunks, n, ends) /\ D # {}
      BY <1>1, <1>11
    <3>2. FoundIn(D, chunks)
      BY <3>1, PlaceDecides
    <3> QED  BY <3>2 DEF FoundIn, In
  <2>4. Match(Min(W)) = In(Min(W)) /\ Match(Max(W)) = In(Max(W)) /\ W # {}
    BY <1>3, <1>6, <2>1, <2>2
  <2>5. SearchFirst(l, value, all) = Min(D) /\ SearchLast(l, value, all) = Max(D)
    BY <1>3, <1>8, <1>9, <2>3, <2>4
  <2> QED  BY <1>2, <1>11, <2>5
<1> QED  BY <1>10, <1>11

(* The accesses of memchr are a cut as well.                               *)
LEMMA TraversalIs ==
  ASSUME NEW addr \in 0..(WordBytes - 1), NEW len \in Nat
  PROVE  \E addrs, n, ends : Cut(addrs, len, Traversal(addr, len), n, ends)
<1>1. CASE len >= PtrdiffMax
  <2> DEFINE singles == [i \in 1..len |-> [first |-> i, last |-> i]]
             ends    == [k \in 0..len |-> k]
  <2>1. /\ ends \in [0..len -> Nat] /\ ends[0] = 0 /\ ends[len] = len
        /\ \A k \in 1..len : k - 1 \in 0..len /\ k \in 0..len /\ ends[k - 1] = k - 1 /\ ends[k] = k
    OBVIOUS
  <2>2. \A k \in 1..len : singles[k] = [first |-> k, last |-> k]
    OBVIOUS
  <2>3. DOMAIN singles = 1..len
    OBVIOUS
  <2>4. Traversal(addr, len) = singles
    BY <1>1, Zenon DEF Traversal
  <2> HIDE DEF singles, ends
  <2>5. ASSUME NEW k \in 1..len
        PROVE  /\ ends[k - 1] < ends[k]
               /\ singles[k] = [first |-> ends[k - 1] + 1, last |-> ends[k]]
               /\ ~(ends[k] > ends[k - 1] + 1)
    <3>1. PICK a \in Nat : a = k - 1 /\ k = a + 1
      OBVIOUS
    <3>2. ends[k - 1] = a /\ ends[k] = a + 1
      BY <2>1, <3>1
    <3> QED  BY <2>2, <3>1, <3>2
  <2>6. Cut({}, len, singles, len, ends)
    BY <2>1, <2>3, <2>5 DEF Cut
  <2> QED  BY <2>4, <2>6
<1>2. CASE ~(len >= PtrdiffMax)
  <2> DEFINE one == {addr}
  <2>1. one \in SUBSET (0..(WordBytes - 1)) /\ one # {} /\ IsFiniteSet(one)
    BY FS_Singleton
  <2> HIDE DEF one
  <2>2. PICK n, ends : Cut(one, len, Chunks(one, len), n, ends)
    BY <2>1, ChunksAre
  <2>3. Traversal(addr, len) = Chunks(one, len)
    BY <1>2, Zenon DEF Traversal, one
  <2> QED  BY <2>2, <2>3
<1> QED  BY <1>1, <1>2

LEMMA MemchrIs ==
  ASSUME NEW len \in Nat, NEW l, Buffer(l, len), l.addr \in 0..(WordBytes - 1), NEW value
  PROVE  LET D == Places(l.data, value, len) IN
         Memchr(l, value) = IF D = {} THEN 0 ELSE Min(D)
<1>1. PICK all : all = Traversal(l.addr, Len(l.data))
  OBVIOUS
<1>2. PICK addrs, n, ends : Cut(addrs, len, all, n, ends)
  BY <1>1, TraversalIs DEF Buffer
<1>3. Memchr(l, value) = SearchFirst(l, value, all)
  BY <1>1, Zenon DEF Memchr, SearchFirst
<1>4. Buffer(l, len) /\ Cut(addrs, len, all, n, ends)
  BY <1>2
<1> QED  BY <1>3, <1>4, SearchIs

LEMMA MemrchrIs ==
  ASSUME NEW addrs, NEW len \in Nat, NEW l, Buffer(l, len), NEW value,
         NEW n, NEW ends, Cut(addrs, len, Chunks({l.addr}, len), n, ends)
  PROVE  LET D == Places(l.data, value, len) IN
         Memrchr(l, value) = IF D = {} THEN 0 ELSE Max(D)
<1>1. PICK all : all = Chunks({l.addr}, Len(l.data)) /\ Cut(addrs, len, all, n, ends)
  BY DEF Buffer
<1>2. Memrchr(l, value) = SearchLast(l, value, all)
  BY <1>1, Zenon DEF Memrchr, SearchLast
<1>3. Buffer(l, len) /\ Cut(addrs, len, all, n, ends)
  BY <1>1
<1> QED  BY <1>2, <1>3, SearchIs

(* memchr without a bound reads no byte behind the one it finds.           *)
LEMMA MemchrStops ==
  ASSUME NEW len \in Nat, NEW l, Buffer(l, len), NEW value
  PROVE  StopsThere(l, value)
<1>1. PICK chunks : chunks = Traversal(l.addr, Len(l.data))
  OBVIOUS
<1>2. PICK found : found = Holding(l, value, chunks)
  OBVIOUS
<1>3. SUFFICES ASSUME len >= PtrdiffMax, found # {}, NEW k \in 1..Min(found)
               PROVE  chunks[k].last <= Memchr(l, value)
  BY <1>1, <1>2, Zenon DEF StopsThere, Buffer
<1>4. chunks = [i \in 1..len |-> [first |-> i, last |-> i]]
  BY <1>1, <1>3, Zenon DEF Traversal, Buffer
<1>5. DOMAIN chunks = 1..len /\ \A i \in 1..len : chunks[i].first = i /\ chunks[i].last = i
  BY <1>4
<1>6. found \in SUBSET Nat /\ found \subseteq 1..len
  BY <1>2, <1>5 DEF Holding
<1>7. PICK m \in found : m = Min(found)
  BY <1>3, <1>6, MinOf
<1>8. m \in 1..len /\ k \in 1..len /\ k <= m
  BY <1>3, <1>6, <1>7
<1>9. l.data[m] = value
  <2>1. \E i \in chunks[m].first..chunks[m].last : l.data[i] = value
    BY <1>2, <1>7 DEF Holding
  <2>2. chunks[m].first = m /\ chunks[m].last = m
    BY <1>5, <1>8
  <2> QED  BY <1>8, <2>1, <2>2
<1> DEFINE match == {i \in chunks[m].first..chunks[m].last : l.data[i] = value}
<1>10. Memchr(l, value) = Min(match)
  BY <1>1, <1>2, <1>3, <1>7, Zenon DEF Memchr
<1>11. match \in SUBSET Nat /\ m \in match /\ \A y \in match : m <= y
  <2>1. chunks[m].first = m /\ chunks[m].last = m
    BY <1>5, <1>8
  <2> QED  BY <1>8, <1>9, <2>1
<1> HIDE DEF match
<1>12. Min(match) = m
  BY <1>11, MinIs
<1>13. chunks[k].last = k
  BY <1>5, <1>8
<1> QED  BY <1>8, <1>10, <1>12, <1>13

(* Words are read where they are aligned.                                  *)
LEMMA AlignedIs ==
  ASSUME NEW addrs \in SUBSET (0..(WordBytes - 1)), NEW len, NEW n, NEW ends,
         Cut(addrs, len, Chunks(addrs, len), n, ends)
  PROVE  Aligned(addrs, len)
<1>0. WordBytes \in Nat
  BY WordBytesAssumption
<1>1. PICK chunks : chunks = Chunks(addrs, len)
  OBVIOUS
<1>2. ASSUME NEW k \in DOMAIN chunks, NEW addr \in addrs, chunks[k].last > chunks[k].first
      PROVE  (addr + chunks[k].first - 1) % WordBytes = 0
  <2>1. /\ n \in Nat /\ ends \in [0..n -> Nat] /\ DOMAIN chunks = 1..n
        /\ \A j \in 1..n : /\ j - 1 \in 0..n /\ j \in 0..n
                           /\ chunks[j] = [first |-> ends[j - 1] + 1, last |-> ends[j]]
                           /\ ends[j] > ends[j - 1] + 1 => \A a \in addrs : (a + ends[j - 1]) % WordBytes = 0
    <3>1. Cut(addrs, len, chunks, n, ends)
      BY <1>1
    <3> QED  BY <3>1 DEF Cut
  <2>2. k \in 1..n
    BY <2>1
  <2>3. chunks[k] = [first |-> ends[k - 1] + 1, last |-> ends[k]]
    BY <2>2, <2>1
  <2>4. chunks[k].first = ends[k - 1] + 1 /\ chunks[k].last = ends[k]
    BY <2>3
  <2>5. n \in Nat /\ ends \in [0..n -> Nat] /\ k - 1 \in 0..n /\ k \in 0..n
    BY <2>2, <2>1
  <2>6. ends[k] > ends[k - 1] + 1 => (addr + ends[k - 1]) % WordBytes = 0
    BY <2>2, <2>1
  <2>7. PICK e \in Nat : e = ends[k - 1]
    BY <2>5
  <2>8. (addr + e) % WordBytes = 0
    BY <1>2, <2>7, <2>4, <2>6
  <2>9. addr \in Nat
    BY <1>0
  <2>10. addr + (e + 1) - 1 = addr + e
    BY <2>9
  <2> QED  BY <2>7, <2>8, <2>10, <2>4
<1> QED  BY <1>1, <1>2 DEF Aligned

(* memcpy.                                                                 *)
LEMMA MemcpyIs ==
  ASSUME NEW len \in Nat, NEW l, NEW r, Buffer(l, len), Buffer(r, len), NEW addrs, NEW n, NEW ends,
         Cut(addrs, len, Chunks({l.addr, r.addr}, len), n, ends)
  PROVE  Memcpy(l, r) = r.data
<1>0. PICK chunks : chunks = Chunks({l.addr, r.addr}, Len(r.data)) /\ Cut(addrs, len, chunks, n, ends)
  BY DEF Buffer
<1>1. PICK a \in [1..len -> Bytes], b \in [1..len -> Bytes] : a = l.data /\ b = r.data
  BY DEF Buffer
<1>2. Written(a, b, chunks) = [i \in 1..len |-> b[i]]
  <2>1. Cut(addrs, len, chunks, n, ends)
    BY <1>0
  <2> QED  BY <2>1, WrittenIs
<1>3. [i \in 1..len |-> b[i]] = b
  OBVIOUS
<1> QED  BY <1>0, <1>1, <1>2, <1>3 DEF Memcpy

(* memset.                                                                 *)
LEMMA MemsetIs ==
  ASSUME NEW len \in Nat, NEW l, Buffer(l, len), NEW value, NEW addrs, NEW n, NEW ends,
         Cut(addrs, len, Chunks({l.addr}, len), n, ends)
  PROVE  Memset(l, value) = [i \in DOMAIN l.data |-> value]
<1>0. PICK chunks : chunks = Chunks({l.addr}, Len(l.data)) /\ Cut(addrs, len, chunks, n, ends)
  BY DEF Buffer
<1>1. PICK a \in [1..len -> Bytes] : a = l.data
  BY DEF Buffer
<1>2. PICK b : b = [i \in DOMAIN l.data |-> value] /\ b = [i \in 1..len |-> value]
  <2>1. DOMAIN l.data = 1..len
    BY DEF Buffer
  <2> QED  BY <2>1
<1>3. Written(a, b, chunks) = [i \in 1..len |-> b[i]]
  <2>1. Cut(addrs, len, chunks, n, ends)
    BY <1>0
  <2> QED  BY <2>1, WrittenIs
<1>4. [i \in 1..len |-> b[i]] = b
  BY <1>2
<1> QED  BY <1>0, <1>1, <1>2, <1>3, <1>4 DEF Memset

(* The memory functions, for buffers of any length at any address.         *)
LEMMA Bytewise ==
  ASSUME NEW len \in Nat, NEW l \in Buffers(len), NEW r \in Buffers(len)
  PROVE  IsBytewise(l, r)
<1>1. /\ l.addr \in 0..(WordBytes - 1) /\ r.addr \in 0..(WordBytes - 1)
      /\ l.data \in [1..len -> Bytes] /\ r.data \in [1..len -> Bytes]
  BY DEF Buffers
<1>2. Buffer(l, len) /\ Buffer(r, len) /\ DOMAIN l.data = 1..len
  <2>1. \A f \in [1..len -> Bytes] : Len(f) = len
    <3>1. \A f \in [1..len -> Bytes] : f \in Seq(Bytes) /\ DOMAIN f = 1..len
      OBVIOUS
    <3> QED  BY <3>1, LenProperties
  <2> QED  BY <1>1, <2>1 DEF Buffer
<1> DEFINE one == {l.addr}
           two == {l.addr, r.addr}
<1>3. /\ one \in SUBSET (0..(WordBytes - 1)) /\ one # {} /\ IsFiniteSet(one)
      /\ two \in SUBSET (0..(WordBytes - 1)) /\ two # {} /\ IsFiniteSet(two)
  <2>1. IsFiniteSet(one)
    BY FS_Singleton
  <2>2. IsFiniteSet(two)
    <3>1. two = one \cup {r.addr}
      OBVIOUS
    <3>2. IsFiniteSet(one \cup {r.addr})
      BY <2>1, FS_AddElement
    <3> QED  BY <3>1, <3>2
  <2> QED  BY <1>1, <2>1, <2>2
<1> HIDE DEF one, two
<1>4. PICK n, ends : Cut(one, len, Chunks(one, len), n, ends)
  BY <1>3, ChunksAre
<1>5. PICK m, stops : Cut(two, len, Chunks(two, len), m, stops)
  BY <1>3, ChunksAre
<1>6. Aligned(two, Len(l.data)) /\ Aligned(one, Len(l.data))
  <2>1. Aligned(two, len)
    BY <1>3, <1>5, AlignedIs
  <2>2. Aligned(one, len)
    BY <1>3, <1>4, AlignedIs
  <2> QED  BY <1>2, <2>1, <2>2 DEF Buffer
<1>10. Cut(one, len, Chunks({l.addr}, len), n, ends)
  BY <1>4 DEF one
<1>11. Cut(two, len, Chunks({l.addr, r.addr}, len), m, stops)
  BY <1>5 DEF two
<1>12. Buffer(l, len) /\ Buffer(r, len)
  BY <1>2
<1>7. /\ Memcmp(l, r) = OrderAt(l, r, Min)
      /\ Memrcmp(l, r) = OrderAt(l, r, Max)
  <2> DEFINE D == Different(l.data, r.data, len)
  <2>1. /\ Memcmp(l, r) = IF D = {} THEN 0 ELSE Order(l.data[Min(D)], r.data[Min(D)])
        /\ Memrcmp(l, r) = IF D = {} THEN 0 ELSE Order(l.data[Max(D)], r.data[Max(D)])
    BY <1>11, <1>12, MemcmpIs
  <2>2. {i \in DOMAIN l.data : l.data[i] # r.data[i]} = D
    BY <1>2 DEF Different
  <2> HIDE DEF D
  <2> QED  BY <2>1, <2>2, Zenon DEF OrderAt
<1>8. Memcpy(l, r) = r.data
  BY <1>11, <1>12, MemcpyIs
<1>9. ASSUME NEW value \in Bytes
      PROVE  /\ Memchr(l, value) = PositionOf(l, value, Min) /\ StopsThere(l, value)
             /\ Memrchr(l, value) = PositionOf(l, value, Max)
             /\ Memset(l, value) = [i \in DOMAIN l.data |-> value]
  <2> DEFINE D == Places(l.data, value, len)
  <2>1. /\ Memchr(l, value) = IF D = {} THEN 0 ELSE Min(D)
        /\ Memrchr(l, value) = IF D = {} THEN 0 ELSE Max(D)
    BY <1>1, <1>10, <1>12, MemchrIs, MemrchrIs
  <2>2. {i \in DOMAIN l.data : l.data[i] = value} = D
    BY <1>2 DEF Places
  <2>3. Memset(l, value) = [i \in DOMAIN l.data |-> value]
    BY <1>10, <1>12, MemsetIs
  <2> HIDE DEF D
  <2>4. /\ Memchr(l, value) = PositionOf(l, value, Min)
        /\ Memrchr(l, value) = PositionOf(l, value, Max)
    BY <2>1, <2>2, Zenon DEF PositionOf
  <2>5. StopsThere(l, value)
    BY <1>12, MemchrStops
  <2> QED  BY <2>3, <2>4, <2>5
<1> QED  BY <1>6, <1>7, <1>8, <1>9, Zenon DEF IsBytewise, one, two

(* MemoryIsBytewise: the functions of memory.c, which read whole words     *)
(* where they can, do what their byte-wise definitions say, for buffers of *)
(* any lengths and alignments, and words and bytes of any size.            *)
THEOREM MemoryFunctionsAreExact == Spec => []MemoryIsBytewise
<1> DEFINE Known == input.of = "memory" => \E len \in Nat : input.l \in Buffers(len) /\ input.r \in Buffers(len)
<1>1. Init => Known
  <2>1. ASSUME input \in MemoryCases  PROVE \E len \in Nat : input.l \in Buffers(len) /\ input.r \in Buffers(len)
    <3>1. PICK len \in 0..MaxLen : input \in [of : {"memory"}, l : Buffers(len), r : Buffers(len)]
      BY <2>1 DEF MemoryCases
    <3>2. len \in Nat
      BY <3>1
    <3>3. input.l \in Buffers(len) /\ input.r \in Buffers(len)
      BY <3>1, Zenon
    <3> QED  BY <3>2, <3>3
  <2> QED  BY <2>1 DEF Init, TreeCases, TickCases, FifoCases, StringCases, IntegerCases
<1>2. Known => MemoryIsBytewise
  BY Bytewise DEF MemoryIsBytewise
<1>3. Known /\ [Next]_input => Known'
  BY DEF Next
<1> QED  BY <1>1, <1>2, <1>3, PTL DEF Spec

-----------------------------------------------------------------------------
(* The strings and integers of ujson: functions defined by recursion.      *)
(* Each argument but 0 has an earlier one, prev, and a step gives the      *)
(* value there from the value at the earlier one.                          *)
Earlier(prev, N) == prev \in [1..N -> Nat] /\ \A k \in 1..N : prev[k] < k
Steps(step, N, S) == step \in [(1..N) \X S -> S]
Follows(v, N, S, base, prev, step) ==
  v \in [0..N -> S] /\ v[0] = base /\ \A k \in 1..N : v[k] = step[<<k, v[prev[k]]>>]

(* A function may be defined by its value at an earlier argument: there is *)
(* one that obeys the definition.                                          *)
LEMMA Recursion ==
  ASSUME NEW N \in Nat, NEW S, NEW base \in S, NEW prev, Earlier(prev, N), NEW step, Steps(step, N, S)
  PROVE  \E v : Follows(v, N, S, base, prev, step)
<1>0. /\ prev \in [1..N -> Nat] /\ \A k \in 1..N : prev[k] < k
      /\ step \in [(1..N) \X S -> S]
  BY DEF Earlier, Steps
<1> DEFINE Known(v, n) == /\ v \in [0..N -> S] /\ v[0] = base
                          /\ \A k \in 1..n : v[k] = step[<<k, v[prev[k]]>>]
           T == {n \in 0..N : \E v : Known(v, n)}
<1>1. 0 \in T
  <2>1. Known([k \in 0..N |-> base], 0)
    OBVIOUS
  <2> HIDE DEF Known
  <2> QED  BY <2>1
<1>2. ASSUME NEW n \in 0..(N - 1), n \in T  PROVE n + 1 \in T
  <2>1. PICK v : Known(v, n)
    BY <1>2
  <2>2. n + 1 \in 1..N /\ prev[n + 1] \in 0..n /\ \A k \in 1..n : k \in 1..N /\ prev[k] \in 0..n
    BY <1>0
  <2>3. PICK x \in S : x = step[<<n + 1, v[prev[n + 1]]>>]
    <3>1. v[prev[n + 1]] \in S
      BY <2>1, <2>2
    <3>2. <<n + 1, v[prev[n + 1]]>> \in (1..N) \X S
      BY <2>2, <3>1
    <3> QED  BY <1>0, <3>2
  <2> DEFINE w == [v EXCEPT ![n + 1] = x]
  <2>4. w \in [0..N -> S] /\ w[n + 1] = x /\ \A k \in 0..n : w[k] = v[k]
    BY <2>1, <2>2
  <2> HIDE DEF w
  <2>5. w[0] = base
    BY <2>1, <2>4
  <2>6. ASSUME NEW k \in 1..(n + 1)  PROVE w[k] = step[<<k, w[prev[k]]>>]
    <3>1. CASE k = n + 1
      BY <2>2, <2>3, <2>4, <3>1
    <3>2. CASE k # n + 1
      <4>1. k \in 1..n
        BY <3>2
      <4> QED  BY <2>1, <2>2, <2>4, <4>1
    <3> QED  BY <3>1, <3>2
  <2>7. Known(w, n + 1)
    BY <2>4, <2>5, <2>6
  <2> HIDE DEF Known
  <2> QED  BY <2>2, <2>7
<1>3. N \in T
  <2> HIDE DEF T
  <2>1. \A n \in 0..N : n \in T
    BY <1>1, <1>2, Induct
  <2> QED  BY <2>1
<1> QED  BY <1>3 DEF Follows

(* Digit by digit: what the first k digits are worth.                      *)
LEMMA ValueStepwise ==
  ASSUME NEW n \in Nat, NEW digits \in [1..n -> Nat]
  PROVE  \E v \in [0..n -> Int] : /\ ValueOf(digits) = v[n] /\ v[0] = 0
                                  /\ \A k \in 1..n : v[k] = 10 * v[k - 1] + digits[k] - 48
<1> DEFINE prev == [k \in 1..n |-> k - 1]
           step == [x \in (1..n) \X Int |-> 10 * x[2] + digits[x[1]] - 48]
           zero == 0
           Whole == Int
           Counts(g) == g = [k \in 0..n |-> IF k = 0 THEN 0 ELSE 10 * g[k - 1] + digits[k] - 48]
<1>1. PICK f \in [0..n -> Int] : f[0] = 0 /\ \A k \in 1..n : f[k] = step[<<k, f[prev[k]]>>]
  <2>1. Earlier(prev, n)
    BY DEF Earlier
  <2>2. Steps(step, n, Whole) /\ zero \in Whole
    BY DEF Steps
  <2> HIDE DEF prev, step, zero, Whole
  <2>3. \E f : Follows(f, n, Whole, zero, prev, step)
    BY <2>1, <2>2, Recursion
  <2> QED  BY <2>3 DEF zero, Whole, Follows
<1>2. \A k \in 1..n : f[k] = 10 * f[k - 1] + digits[k] - 48
  <2> TAKE k \in 1..n
  <2>1. prev[k] = k - 1 /\ f[k - 1] \in Int /\ k - 1 \in 0..n
    OBVIOUS
  <2>2. step[<<k, f[k - 1]>>] = 10 * f[k - 1] + digits[k] - 48
    <3>1. <<k, f[k - 1]>> \in (1..n) \X Int
      BY <2>1
    <3> QED  BY <3>1
  <2> QED  BY <1>1, <2>1, <2>2
<1>3. Counts(f)
  <2>1. \A k \in 0..n : k # 0 => k \in 1..n
    OBVIOUS
  <2> QED  BY <1>1, <1>2, <2>1
<1> DEFINE v == CHOOSE g : Counts(g)
<1>4. Counts(v)
  BY <1>3, Zenon
<1>5. ValueOf(digits) = v[n]
  <2>1. Len(digits) = n
    OBVIOUS
  <2> QED  BY <2>1 DEF ValueOf
<1> HIDE DEF v
<1>6. v[0] = 0 /\ \A k \in 1..n : v[k] = 10 * v[k - 1] + digits[k] - 48
  <2>1. 0 \in 0..n /\ \A k \in 1..n : k \in 0..n /\ k # 0
    OBVIOUS
  <2> QED  BY <1>4, <2>1
<1>7. v = [k \in 0..n |-> v[k]] /\ \A k \in 0..n : v[k] \in Int
  <2> DEFINE P == {k \in 0..n : v[k] \in Int}
  <2>1. 0 \in P
    BY <1>6
  <2>2. ASSUME NEW k \in 0..(n - 1), k \in P  PROVE k + 1 \in P
    <3>1. k + 1 \in 1..n /\ (k + 1) - 1 = k /\ digits[k + 1] \in Nat
      OBVIOUS
    <3> QED  BY <1>6, <2>2, <3>1
  <2> HIDE DEF P
  <2>3. \A k \in 0..n : k \in P
    BY <2>1, <2>2, Induct
  <2>4. v = [k \in 0..n |-> v[k]]
    BY <1>4, Zenon
  <2> QED  BY <2>3, <2>4 DEF P
<1> QED  BY <1>5, <1>6, <1>7

(* One more digit.                                                         *)
LEMMA ValueOfMore ==
  ASSUME NEW s \in Seq(Digits), NEW c \in Digits
  PROVE  ValueOf(s \o <<c>>) = 10 * ValueOf(s) + c - 48
<1> DEFINE n == Len(s)
           t == s \o <<c>>
<1>1. n \in Nat /\ n + 1 \in Nat /\ s \in [1..n -> Nat]
  BY DEF Digits
<1>2. t \in [1..(n + 1) -> Nat] /\ t[n + 1] = c /\ \A k \in 1..n : t[k] = s[k]
  <2>1. t \in Seq(Digits) /\ Len(t) = n + 1
    OBVIOUS
  <2>2. \A k \in 1..(n + 1) : t[k] \in Digits
    BY <2>1
  <2>3. t \in [1..(n + 1) -> Nat]
    <3>1. t \in [1..(n + 1) -> Digits]
      <4> HIDE DEF t, n
      <4>1. t \in [1..Len(t) -> Digits]
        BY <2>1, LenProperties
      <4> QED  BY <2>1, <4>1
    <3> QED  BY <3>1 DEF Digits
  <2> QED  BY <1>1, <2>3
<1> HIDE DEF n, t
<1>3. PICK v \in [0..n -> Int] : /\ ValueOf(s) = v[n] /\ v[0] = 0
                                 /\ \A k \in 1..n : v[k] = 10 * v[k - 1] + s[k] - 48
  BY <1>1, ValueStepwise
<1>4. PICK w \in [0..(n + 1) -> Int] : /\ ValueOf(t) = w[n + 1] /\ w[0] = 0
                                       /\ \A k \in 1..(n + 1) : w[k] = 10 * w[k - 1] + t[k] - 48
  BY <1>1, <1>2, ValueStepwise
<1> DEFINE T == {k \in 0..n : w[k] = v[k]}
<1>5. 0 \in T
  BY <1>1, <1>3, <1>4
<1>6. ASSUME NEW k \in 0..(n - 1), k \in T  PROVE k + 1 \in T
  <2>1. k + 1 \in 1..n /\ k + 1 \in 1..(n + 1) /\ (k + 1) - 1 = k
    BY <1>1
  <2>2. w[k + 1] = 10 * w[k] + t[k + 1] - 48 /\ v[k + 1] = 10 * v[k] + s[k + 1] - 48
    BY <1>3, <1>4, <2>1
  <2>3. w[k] = v[k] /\ t[k + 1] = s[k + 1]
    BY <1>2, <1>6, <2>1
  <2> QED  BY <2>1, <2>2, <2>3
<1>7. w[n] = v[n]
  <2> HIDE DEF T
  <2>1. \A k \in 0..n : k \in T
    BY <1>1, <1>5, <1>6, Induct
  <2> QED  BY <1>1, <2>1 DEF T
<1>8. w[n + 1] = 10 * w[n] + t[n + 1] - 48
  <2>1. n + 1 \in 1..(n + 1) /\ (n + 1) - 1 = n
    BY <1>1
  <2> QED  BY <1>4, <2>1
<1> QED  BY <1>2, <1>3, <1>4, <1>7, <1>8 DEF t

(* No digits are worth nothing.                                            *)
LEMMA ValueOfNone == ValueOf(<<>>) = 0
<1> DEFINE z == 0
           none == <<>>
<1>1. z \in Nat /\ none \in [1..z -> Nat]
  OBVIOUS
<1> HIDE DEF z, none
<1>2. PICK v \in [0..z -> Int] : ValueOf(none) = v[z] /\ v[0] = 0
  BY <1>1, ValueStepwise
<1> QED  BY <1>2 DEF z, none

(* A number written in decimal is worth what it was.                       *)
LEMMA DecimalComesBack ==
  ASSUME NEW value \in Nat
  PROVE  /\ Decimal(value) \in Seq(Digits) /\ Len(Decimal(value)) >= 1
         /\ ValueOf(Decimal(value)) = value
<1> DEFINE S == Seq(Digits)
           zero == <<48>>
           prev == [k \in 1..value |-> k \div 10]
           step == [x \in (1..value) \X S |-> (IF x[1] < 10 THEN <<>> ELSE x[2]) \o <<48 + (x[1] % 10)>>]
           Writes(g) == g = [n \in 0..value |-> (IF n < 10 THEN <<>> ELSE g[n \div 10]) \o <<48 + (n % 10)>>]
<1>1. \A n \in Nat : /\ n % 10 \in 0..9 /\ 48 + (n % 10) \in Digits /\ n \div 10 \in Nat
                     /\ n = 10 * (n \div 10) + (n % 10) /\ (n > 0 => n \div 10 < n) /\ (n < 10 => n % 10 = n)
  BY SMT DEF Digits
<1>2. PICK f \in [0..value -> S] : f[0] = zero /\ \A k \in 1..value : f[k] = step[<<k, f[prev[k]]>>]
  <2>1. Earlier(prev, value)
    <3>1. \A k \in 1..value : k \in Nat /\ k > 0
      OBVIOUS
    <3>2. \A k \in 1..value : prev[k] \in Nat /\ prev[k] < k
      BY <1>1, <3>1
    <3> QED  BY <3>2 DEF Earlier
  <2>2. Steps(step, value, S)
    <3>1. ASSUME NEW x \in (1..value) \X S
          PROVE  (IF x[1] < 10 THEN <<>> ELSE x[2]) \o <<48 + (x[1] % 10)>> \in S
      <4>1. 48 + (x[1] % 10) \in Digits
        BY <1>1
      <4> QED  BY <4>1
    <3> QED  BY <3>1 DEF Steps
  <2>3. zero \in S
    BY DEF Digits
  <2> HIDE DEF prev, step, zero, S
  <2>4. \E f : Follows(f, value, S, zero, prev, step)
    BY <2>1, <2>2, <2>3, Recursion
  <2> QED  BY <2>4 DEF Follows
<1>3. Writes(f)
  <2>1. ASSUME NEW n \in 0..value
        PROVE  f[n] = (IF n < 10 THEN <<>> ELSE f[n \div 10]) \o <<48 + (n % 10)>>
    <3>1. CASE n = 0
      <4>1. <<>> \o <<48 + (0 % 10)>> = <<48>>
        BY <1>1
      <4> QED  BY <1>2, <3>1, <4>1
    <3>2. CASE n # 0
      <4>1. n \in 1..value /\ prev[n] = n \div 10 /\ n \div 10 \in 0..value
        BY <1>1, <3>2
      <4>2. <<n, f[n \div 10]>> \in (1..value) \X S
        BY <1>2, <4>1
      <4>3. step[<<n, f[n \div 10]>>] = (IF n < 10 THEN <<>> ELSE f[n \div 10]) \o <<48 + (n % 10)>>
        BY <4>2
      <4> QED  BY <1>2, <4>1, <4>3
    <3> QED  BY <3>1, <3>2
  <2> QED  BY <2>1
<1> DEFINE dec == CHOOSE g : Writes(g)
<1>4. Writes(dec)
  BY <1>3, Zenon
<1>5. Decimal(value) = dec[value]
  BY DEF Decimal
<1> HIDE DEF dec
<1> DEFINE Good(n) == dec[n] \in Seq(Digits) /\ Len(dec[n]) >= 1 /\ ValueOf(dec[n]) = n
           T == {n \in 0..value : \A m \in 0..n : Good(m)}
<1>6. ASSUME NEW n \in 0..value, n >= 10 => Good(n \div 10)  PROVE Good(n)
  <2>1. dec[n] = (IF n < 10 THEN <<>> ELSE dec[n \div 10]) \o <<48 + (n % 10)>>
    BY <1>4
  <2>2. PICK s \in Seq(Digits) : dec[n] = s \o <<48 + (n % 10)>> /\ ValueOf(s) = IF n < 10 THEN 0 ELSE n \div 10
    <3>0. n < 10 \/ n >= 10
      OBVIOUS
    <3>1. CASE n < 10
      <4>1. dec[n] = <<>> \o <<48 + (n % 10)>> /\ <<>> \in Seq(Digits)
        BY <2>1, <3>1
      <4> QED  BY <3>1, <4>1, ValueOfNone
    <3>2. CASE n >= 10
      <4>0. ~ (n < 10)
        BY <3>2
      <4>1. dec[n] = dec[n \div 10] \o <<48 + (n % 10)>>
        BY <2>1, <4>0, Zenon
      <4>2. dec[n \div 10] \in Seq(Digits) /\ ValueOf(dec[n \div 10]) = n \div 10
        BY <1>6, <3>2
      <4> QED  BY <4>0, <4>1, <4>2
    <3> QED  BY <3>0, <3>1, <3>2, Zenon
  <2>3. 48 + (n % 10) \in Digits
    BY <1>1
  <2>4. ValueOf(dec[n]) = 10 * ValueOf(s) + (48 + (n % 10)) - 48
    BY <2>2, <2>3, ValueOfMore
  <2>5. ValueOf(dec[n]) = n
    <3>1. CASE n < 10
      BY <1>1, <2>2, <2>4, <3>1
    <3>2. CASE n >= 10
      BY <1>1, <2>2, <2>4, <3>2
    <3> QED  BY <3>1, <3>2
  <2>6. dec[n] \in Seq(Digits) /\ Len(dec[n]) = Len(s) + 1
    BY <2>2, <2>3
  <2> QED  BY <2>5, <2>6
<1>7. 0 \in T
  <2>1. Good(0)
    BY <1>6
  <2> HIDE DEF Good
  <2> QED  BY <2>1
<1>8. ASSUME NEW n \in 0..(value - 1), n \in T  PROVE n + 1 \in T
  <2>1. n + 1 \in 0..value /\ (n + 1) \div 10 \in 0..n
    BY <1>1
  <2>2. Good((n + 1) \div 10)
    BY <1>8, <2>1
  <2>3. Good(n + 1)
    <3> HIDE DEF Good
    <3> QED  BY <1>6, <2>1, <2>2
  <2> HIDE DEF Good
  <2> QED  BY <1>8, <2>1, <2>3
<1>9. value \in T
  <2> HIDE DEF T
  <2>1. \A n \in 0..value : n \in T
    BY <1>7, <1>8, Induct
  <2> QED  BY <2>1
<1>10. Good(value)
  BY <1>9
<1> QED  BY <1>5, <1>10

-----------------------------------------------------------------------------
(* ParseInteger in steps: from the first character that is no space, from  *)
(* the first behind a sign, and with the end of the digits known.          *)
HasSign(text, from) == from <= Len(text) /\ text[from] = Minus

DigitsTo(text, from, start, end) ==
  IF end = start THEN Failed(start)
  ELSE [ok |-> TRUE, at |-> end,
        value |-> (IF HasSign(text, from) THEN -ValueOf(SubSeq(text, start, end - 1))
                   ELSE ValueOf(SubSeq(text, start, end - 1))) % 2^IntBits]

DigitsFrom(text, from, start) ==
  DigitsTo(text, from, start,
           CHOOSE p \in start..(Len(text) + 1) : /\ p <= Len(text) => text[p] \notin Digits
                                                 /\ \A q \in start..(p - 1) : text[q] \in Digits)

NumberFrom(text, from) == DigitsFrom(text, from, IF HasSign(text, from) THEN from + 1 ELSE from)

(* A text holds the digits d, behind a sign if s is 1, and then no digit.  *)
HoldsNumber(text, s, d) ==
  /\ text \in Seq(Nat) /\ s \in 0..1 /\ d \in Seq(Digits) /\ Len(d) >= 1
  /\ s + Len(d) <= Len(text) /\ (s = 1 => text[1] = Minus)
  /\ \A k \in 1..Len(d) : text[s + k] = d[k]
  /\ s + Len(d) < Len(text) => text[s + Len(d) + 1] \notin Digits

(* A number is read up to the character behind its last digit.             *)
LEMMA IntegerIsRead ==
  ASSUME NEW text, NEW s, NEW d, HoldsNumber(text, s, d)
  PROVE  ParseInteger(text, 1) =
           [ok |-> TRUE, at |-> s + Len(d) + 1,
            value |-> (IF s = 1 THEN -ValueOf(d) ELSE ValueOf(d)) % 2^IntBits]
<1> DEFINE neg == s = 1
<1>0. PICK n, m :
        /\ n = Len(d) /\ m = Len(text) /\ text \in Seq(Nat) /\ s \in 0..1 /\ d \in Seq(Digits) /\ n >= 1
        /\ s + n <= m /\ (neg => text[1] = Minus)
        /\ \A k \in 1..n : text[s + k] = d[k]
        /\ s + n < m => text[s + n + 1] \notin Digits
  BY DEF HoldsNumber
<1>1. s \in 0..1 /\ n \in Nat /\ n >= 1 /\ m \in Nat /\ d \in [1..n -> Digits] /\ m = Len(text)
  BY <1>0
<1>2. \A k \in 1..n : text[s + k] \in Digits
  BY <1>0, <1>1
<1>3. text[1] \notin Spaces
  <2>1. CASE neg
    BY <1>0, <2>1 DEF Minus, Spaces
  <2>2. CASE ~ neg
    <3>1. text[1] \in Digits
      <4>1. 1 \in 1..n /\ s + 1 = 1
        BY <1>1, <2>2
      <4> QED  BY <1>2, <4>1
    <3>2. PICK c \in Digits : c = text[1]
      BY <3>1
    <3>3. c \notin Spaces
      BY DEF Digits, Spaces
    <3> QED  BY <3>2, <3>3
  <2> QED  BY <2>1, <2>2
<1> DEFINE First(p) == /\ p <= Len(text) => text[p] \notin Spaces
                       /\ \A q \in 1..(p - 1) : text[q] \in Spaces
<1>4. SkipSpaces(text, 1) = 1
  <2>1. 1 \in 1..(Len(text) + 1) /\ First(1)
    BY <1>1, <1>3
  <2>2. ASSUME NEW p \in 1..(Len(text) + 1), First(p)  PROVE p = 1
    <3>1. p # 1 => 1 \in 1..(p - 1)
      BY <1>1
    <3> QED  BY <1>3, <2>2, <3>1
  <2>3. SkipSpaces(text, 1) = CHOOSE p \in 1..(Len(text) + 1) : First(p)
    BY DEF SkipSpaces
  <2> HIDE DEF First
  <2> QED  BY <2>1, <2>2, <2>3
<1>5. neg <=> text[1] = Minus
  <2>1. ~ neg => text[1] \in Digits
    <3>1. ~ neg => 1 \in 1..n /\ s + 1 = 1
      BY <1>1
    <3> QED  BY <1>2, <3>1
  <2> QED  BY <1>0, <2>1 DEF Minus, Digits
<1> DEFINE end == s + n + 1
           start == s + 1
           Behind(p) == /\ p <= Len(text) => text[p] \notin Digits
                      /\ \A q \in start..(p - 1) : text[q] \in Digits
<1>6. (CHOOSE p \in start..(Len(text) + 1) : Behind(p)) = end
  <2>1. end \in start..(Len(text) + 1) /\ start \in Nat /\ end \in Nat /\ start < end
    BY <1>0, <1>1
  <2>2. \A q \in start..(end - 1) : text[q] \in Digits
    <3>1. ASSUME NEW q \in start..(end - 1)  PROVE text[q] \in Digits
      <4>1. q - s \in 1..n /\ s + (q - s) = q
        BY <1>1
      <4> QED  BY <1>2, <4>1
    <3> QED  BY <3>1
  <2>3. Behind(end)
    <3>1. end <= Len(text) => s + n < m
      BY <1>1
    <3> QED  BY <1>0, <2>2, <3>1
  <2>4. ASSUME NEW p \in start..(Len(text) + 1), Behind(p)  PROVE p = end
    <3>1. CASE p < end
      <4>1. p \in start..(end - 1) /\ p <= Len(text)
        BY <1>0, <1>1, <3>1
      <4> QED  BY <2>2, <2>4, <4>1
    <3>2. CASE p > end
      <4>1. end \in start..(p - 1) /\ end <= Len(text)
        BY <1>0, <1>1, <2>1, <3>2
      <4> QED  BY <2>3, <2>4, <4>1
    <3> QED  BY <1>1, <3>1, <3>2
  <2> HIDE DEF Behind, end, start
  <2> QED  BY <2>1, <2>3, <2>4
<1>7. SubSeq(text, start, end - 1) = d
  <2>1. SubSeq(text, start, end - 1) = [k \in 1..(1 + (end - 1) - start) |-> text[start + k - 1]]
    BY <1>0, <1>1
  <2>2. 1 + (end - 1) - start = n
    BY <1>1
  <2>3. \A k \in 1..n : start + k - 1 = s + k
    BY <1>1
  <2>4. d = [k \in 1..n |-> d[k]]
    BY <1>1
  <2> HIDE DEF start, end
  <2> QED  BY <1>0, <2>1, <2>2, <2>3, <2>4
<1>8. (IF HasSign(text, 1) THEN 1 + 1 ELSE 1) = start /\ end # start /\ (HasSign(text, 1) <=> neg)
  <2>1. 1 <= Len(text)
    BY <1>0, <1>1
  <2>2. HasSign(text, 1) <=> neg
    BY <1>5, <2>1 DEF HasSign
  <2> QED  BY <1>1, <2>2
<1> HIDE DEF end, start
<1>9. ParseInteger(text, 1) = NumberFrom(text, SkipSpaces(text, 1))
  BY Zenon DEF ParseInteger, NumberFrom, DigitsFrom, DigitsTo, HasSign
<1>10. NumberFrom(text, 1) = DigitsFrom(text, 1, start)
  BY <1>8, Zenon DEF NumberFrom
<1>11. DigitsFrom(text, 1, start) = DigitsTo(text, 1, start, end)
  BY <1>6, Zenon DEF DigitsFrom
<1>12. DigitsTo(text, 1, start, end) =
         [ok |-> TRUE, at |-> end, value |-> (IF neg THEN -ValueOf(d) ELSE ValueOf(d)) % 2^IntBits]
  BY <1>7, <1>8, Zenon DEF DigitsTo
<1>13. ParseInteger(text, 1) =
         [ok |-> TRUE, at |-> end, value |-> (IF neg THEN -ValueOf(d) ELSE ValueOf(d)) % 2^IntBits]
  BY <1>4, <1>9, <1>10, <1>11, <1>12, Zenon
<1> QED  BY <1>0, <1>13 DEF end

(* What may follow a number: nothing, or what is not a digit.              *)
EndsNumber(after) == after \in Seq(Nat) /\ (Len(after) > 0 => after[1] \notin Digits)

(* Every integer of the width comes back.                                  *)
LEMMA IntegerReturns ==
  ASSUME NEW value \in -(2^(IntBits - 1))..(2^IntBits - 1), NEW after, EndsNumber(after)
  PROVE  IntegerComesBack(value, after)
<1> DEFINE M == 2^IntBits
           H == 2^(IntBits - 1)
           neg == value < 0
           a == IF neg THEN -value ELSE value
           d == Decimal(a)
           s == IF neg THEN 1 ELSE 0
           text == SerializeInteger(value)
           whole == text \o after
<1>1. M \in Nat /\ H \in Nat /\ M = 2 * H /\ value \in (-H)..(M - 1)
  <2>1. IntBits \in Nat /\ IntBits - 1 \in Nat /\ IntBits - 1 + 1 = IntBits
    BY IntBitsAssumption
  <2>2. H \in Nat /\ M \in Nat
    BY <2>1, PowerCounts
  <2>3. M = 2 * H
    BY <2>1, PowerDoubles
  <2> QED  BY <2>2, <2>3
<1> HIDE DEF M, H
<1>2. value \in Int /\ a \in Nat /\ (neg => a > 0 /\ a <= H) /\ a < M
  BY <1>1
<1> HIDE DEF a
<1>3. d \in Seq(Digits) /\ Len(d) >= 1 /\ Len(d) \in Nat /\ ValueOf(d) = a
  <2>1. a \in Nat
    BY <1>2
  <2> QED  BY <2>1, DecimalComesBack
<1>4. text = IF neg THEN <<Minus>> \o d ELSE d
  <2>1. CASE neg
    <3>1. (-value) % M = -value
      <4> DEFINE q == 0
                 x == -value
      <4>1. x \in Int /\ q \in Int /\ x \in 0..(M - 1) /\ x = M * q + x /\ M > 0
        BY <1>1, <1>2, <2>1 DEF a
      <4> HIDE DEF q, x
      <4>2. x % M = x
        BY <1>1, <4>1, QuotientIs
      <4> QED  BY <4>2 DEF x
    <3> QED  BY <2>1, <3>1 DEF SerializeInteger, M, a
  <2>2. CASE ~ neg
    BY <2>2 DEF SerializeInteger, a
  <2> QED  BY <2>1, <2>2
<1>5. neg \in BOOLEAN /\ s = (IF neg THEN 1 ELSE 0)
  OBVIOUS
<1> DEFINE n == Len(d)
           m == Len(whole)
<1> HIDE DEF d, text
<1>6. text \in Seq(Nat) /\ Len(text) = s + n /\ (neg => text[1] = Minus) /\ \A k \in 1..n : text[s + k] = d[k]
  <2>1. d \in Seq(Nat)
    BY <1>3 DEF Digits
  <2>2. CASE neg
    <3>1. text = <<Minus>> \o d /\ <<Minus>> \in Seq(Nat)
      BY <1>4, <2>2 DEF Minus
    <3> QED  BY <1>3, <2>1, <2>2, <3>1
  <2>3. CASE ~ neg
    BY <1>3, <1>4, <2>1, <2>3
  <2> QED  BY <2>2, <2>3
<1>7. after \in Seq(Nat) /\ (Len(after) > 0 => after[1] \notin Digits)
  BY DEF EndsNumber
<1>8. /\ whole \in Seq(Nat) /\ m = Len(whole) /\ s + n <= m /\ (neg => whole[1] = Minus)
      /\ \A k \in 1..n : whole[s + k] = d[k]
      /\ (s + n < m => whole[s + n + 1] \notin Digits)
  <2>1. whole \in Seq(Nat) /\ m = Len(text) + Len(after) /\ Len(after) \in Nat
    <3>1. text \in Seq(Nat) /\ after \in Seq(Nat)
      BY <1>6, <1>7
    <3> QED  BY <3>1
  <2>2. \A k \in 1..Len(text) : whole[k] = text[k]
    BY <1>6, <1>7
  <2>3. s + n < m => whole[s + n + 1] = after[1] /\ Len(after) > 0
    BY <1>3, <1>6, <1>7, <2>1
  <2>4. \A k \in 1..n : s + k \in 1..Len(text)
    BY <1>3, <1>6
  <2>5. 1 \in 1..Len(text) /\ s + n <= m
    BY <1>3, <1>6, <2>1
  <2> HIDE DEF whole, s, n, m
  <2>6. \A k \in 1..n : whole[s + k] = d[k]
    BY <1>6, <2>2, <2>4
  <2>7. neg => whole[1] = Minus
    BY <1>6, <2>2, <2>5
  <2>8. s + n < m => whole[s + n + 1] \notin Digits
    BY <1>7, <2>3
  <2> QED  BY <2>1, <2>5, <2>6, <2>7, <2>8 DEF m
<1> HIDE DEF s, whole
<1>9. ParseInteger(whole, 1) =
        [ok |-> TRUE, at |-> s + Len(d) + 1, value |-> (IF s = 1 THEN -ValueOf(d) ELSE ValueOf(d)) % 2^IntBits]
  <2>1. HoldsNumber(whole, s, d)
    BY <1>3, <1>8 DEF HoldsNumber, s
  <2> QED  BY <2>1, IntegerIsRead
<1>10. (IF s = 1 THEN -ValueOf(d) ELSE ValueOf(d)) = value
  BY <1>2, <1>3 DEF a, s
<1>11. s + Len(d) + 1 = Len(text) + 1
  BY <1>6
<1> HIDE DEF n
<1>12. ParseInteger(whole, 1) = [ok |-> TRUE, value |-> value % 2^IntBits, at |-> Len(text) + 1]
  BY <1>9, <1>10, <1>11
<1> QED  BY <1>12, Zenon DEF IntegerComesBack, whole, text

-----------------------------------------------------------------------------
(* The letters that stand for a character.                                 *)
LEMMA ShortIs ==
  /\ DOMAIN Short = {8, 9, 10, 12, 13}
  /\ Short[8] = 98 /\ Short[12] = 102 /\ Short[10] = 110 /\ Short[13] = 114 /\ Short[9] = 116
BY DEF Short

(* The letters are none of the characters that are read in another way     *)
(* behind a backslash: a quote, a backslash, a slash or a u.               *)
LEMMA ShortLetters ==
  \A c \in DOMAIN Short : c \in 8..13 /\ Short[c] \in {98, 102, 110, 114, 116}
BY ShortIs

(* Each of them stands for one character only.                             *)
LEMMA ShortComesBack ==
  ASSUME NEW c \in DOMAIN Short
  PROVE  (CHOOSE x \in DOMAIN Short : Short[x] = Short[c]) = c
<1>1. \A x \in DOMAIN Short : Short[x] = Short[c] => x = c
  BY ShortIs
<1> QED  BY <1>1

(* A hexadecimal digit.                                                    *)
LEMMA HexComesBack ==
  ASSUME NEW n \in 0..15
  PROVE  Hex(n) \in HexDigits /\ Hex(n) \in Nat /\ Unhex(Hex(n)) = n
<1>1. CASE n < 10
  <2>1. Hex(n) = 48 + n /\ Hex(n) \in 48..57
    BY <1>1 DEF Hex
  <2> QED  BY <2>1 DEF HexDigits, Unhex
<1>2. CASE n >= 10
  <2>1. Hex(n) = 87 + n /\ Hex(n) \in 97..102 /\ Hex(n) \notin 48..57 /\ Hex(n) \notin 65..70
    BY <1>2 DEF Hex
  <2> QED  BY <2>1 DEF HexDigits, Unhex
<1> QED  BY <1>1, <1>2

(* What one character is written as is at a place in a text.               *)
Holds(text, p, e) ==
  /\ text \in Seq(Nat) /\ p \in Nat /\ p > 0 /\ e \in Seq(Nat) /\ p + Len(e) <= Len(text) + 1
  /\ \A k \in 1..Len(e) : text[p + k - 1] = e[k]

(* It does not begin with a quote, and is read back.                       *)
LEMMA EscapeIsRead ==
  ASSUME NEW ch \in 0..255, NEW text, NEW p, Holds(text, p, Escape(ch))
  PROVE  /\ text[p] # Quote /\ Len(Escape(ch)) \in Nat /\ Len(Escape(ch)) >= 1
         /\ OneChar(text, p) = [ok |-> TRUE, value |-> ch, at |-> p + Len(Escape(ch))]
<1>0. text \in Seq(Nat) /\ p \in Nat /\ p > 0 /\ Len(text) \in Nat /\ Backslash = 92 /\ Quote = 34 /\ Slash = 47
  BY DEF Holds, Backslash, Quote, Slash
<1>1. CASE ch \in {Quote, Backslash}
  <2>1. Escape(ch) = <<Backslash, ch>>
    <3>1. ch \notin DOMAIN Short /\ ~ (ch < 32 \/ ch >= 127)
      BY <1>0, <1>1, ShortIs
    <3> QED  BY <1>1, <3>1, Zenon DEF Escape
  <2>2. text[p] = Backslash /\ text[p + 1] = ch /\ p + 1 <= Len(text) /\ Len(Escape(ch)) = 2
    <3>1. Len(<<Backslash, ch>>) = 2 /\ 1 \in 1..2 /\ 2 \in 1..2 /\ p + 1 - 1 = p /\ p + 2 - 1 = p + 1
      BY <1>0
    <3>2. <<Backslash, ch>>[1] = Backslash /\ <<Backslash, ch>>[2] = ch
      OBVIOUS
    <3> QED  BY <1>0, <2>1, <3>1, <3>2 DEF Holds
  <2>3. OneChar(text, p) = [ok |-> TRUE, value |-> ch, at |-> p + 2]
    <3>1. /\ p # Len(text) /\ ch \in {Quote, Backslash, Slash} /\ ch # 117
          /\ ~ \E c \in DOMAIN Short : Short[c] = ch
      <4>1. p # Len(text)
        BY <1>0, <2>2
      <4>2. ch \in {Quote, Backslash, Slash} /\ ch # 117
        BY <1>0, <1>1
      <4>3. ch \notin {98, 102, 110, 114, 116}
        BY <1>0, <1>1
      <4> QED  BY <4>1, <4>2, <4>3, ShortLetters, Zenon
    <3> QED  BY <2>2, <3>1, Zenon DEF OneChar
  <2> QED  BY <1>0, <2>2, <2>3
<1>2. CASE ch \in DOMAIN Short
  <2>0. ch \notin {Quote, Backslash}
    BY <1>0, <1>2, ShortIs
  <2>1. Escape(ch) = <<Backslash, Short[ch]>>
    BY <1>2, <2>0 DEF Escape
  <2>2. text[p] = Backslash /\ text[p + 1] = Short[ch] /\ p + 1 <= Len(text) /\ Len(Escape(ch)) = 2
    <3>1. Len(<<Backslash, Short[ch]>>) = 2 /\ 1 \in 1..2 /\ 2 \in 1..2 /\ p + 1 - 1 = p /\ p + 2 - 1 = p + 1
      BY <1>0
    <3>2. <<Backslash, Short[ch]>>[1] = Backslash /\ <<Backslash, Short[ch]>>[2] = Short[ch]
      OBVIOUS
    <3> QED  BY <1>0, <2>1, <3>1, <3>2 DEF Holds
  <2>3. OneChar(text, p) = [ok |-> TRUE, value |-> ch, at |-> p + 2]
    <3>1. /\ p # Len(text) /\ Short[ch] \notin {Quote, Backslash, Slash} /\ Short[ch] # 117
          /\ \E c \in DOMAIN Short : Short[c] = Short[ch]
      <4>1. PICK x : x = Short[ch] /\ x \in {98, 102, 110, 114, 116}
        BY <1>2, ShortLetters
      <4>2. p # Len(text)
        BY <1>0, <2>2
      <4>3. x \notin {Quote, Backslash, Slash} /\ x # 117
        BY <4>1 DEF Quote, Backslash, Slash
      <4> QED  BY <1>2, <4>1, <4>2, <4>3, Zenon
    <3>2. OneChar(text, p) = [ok |-> TRUE, value |-> CHOOSE c \in DOMAIN Short : Short[c] = Short[ch], at |-> p + 2]
      BY <2>2, <3>1, Zenon DEF OneChar
    <3> QED  BY <1>2, <3>2, ShortComesBack
  <2> QED  BY <1>0, <2>2, <2>3
<1>3. CASE ch \notin {Quote, Backslash} /\ ch \notin DOMAIN Short /\ (ch < 32 \/ ch >= 127)
  <2> DEFINE a == Hex(ch \div 16)
             b == Hex(ch % 16)
  <2>1. Escape(ch) = <<Backslash, 117, 48, 48, a, b>>
    BY <1>3, Zenon DEF Escape
  <2>2. ch \div 16 \in 0..15 /\ ch % 16 \in 0..15 /\ 16 * (ch \div 16) + (ch % 16) = ch /\ ch % 256 = ch
    OBVIOUS
  <2>3. /\ a \in HexDigits /\ b \in HexDigits /\ 48 \in HexDigits
        /\ (16 * Unhex(a) + Unhex(b)) % 256 = ch
    <3>1. a \in HexDigits /\ b \in HexDigits /\ Unhex(a) = ch \div 16 /\ Unhex(b) = ch % 16
      BY <2>2, HexComesBack
    <3>2. 48 \in HexDigits
      BY DEF HexDigits
    <3> QED  BY <2>2, <3>1, <3>2
  <2> HIDE DEF a, b
  <2>4. /\ text[p] = Backslash /\ text[p + 1] = 117 /\ text[p + 2] = 48 /\ text[p + 3] = 48
        /\ text[p + 4] = a /\ text[p + 5] = b /\ p + 5 <= Len(text) /\ Len(Escape(ch)) = 6
    <3> DEFINE e == <<Backslash, 117, 48, 48, a, b>>
    <3>1. /\ Len(e) = 6 /\ e[1] = Backslash /\ e[2] = 117 /\ e[3] = 48 /\ e[4] = 48 /\ e[5] = a /\ e[6] = b
      OBVIOUS
    <3> HIDE DEF e
    <3>2. \A k \in 1..6 : text[p + k - 1] = e[k]
      BY <2>1, <3>1 DEF Holds, e
    <3>3. p + 1 - 1 = p /\ p + 2 - 1 = p + 1 /\ p + 3 - 1 = p + 2 /\ p + 4 - 1 = p + 3 /\ p + 5 - 1 = p + 4 /\ p + 6 - 1 = p + 5
      BY <1>0
    <3>4. p + 5 <= Len(text)
      BY <1>0, <2>1, <3>1 DEF Holds, e
    <3> QED  BY <2>1, <3>1, <3>2, <3>3, <3>4 DEF e
  <2>5. OneChar(text, p) = [ok |-> TRUE, value |-> ch, at |-> p + 6]
    <3>1. /\ p # Len(text) /\ text[p + 1] \notin {Quote, Backslash, Slash} /\ text[p + 1] = 117
          /\ ~ \E c \in DOMAIN Short : Short[c] = text[p + 1]
      <4>1. p # Len(text) /\ 117 \notin {Quote, Backslash, Slash} /\ 117 \notin {98, 102, 110, 114, 116}
        BY <1>0, <2>4
      <4>2. ~ \E c \in DOMAIN Short : Short[c] = 117
        BY <4>1, ShortLetters, Zenon
      <4>3. text[p + 1] = 117
        BY <2>4
      <4>4. ~ \E c \in DOMAIN Short : Short[c] = text[p + 1]
        BY <4>2, <4>3, Zenon
      <4> QED  BY <4>1, <4>3, <4>4, SMT
    <3>2. ~ (p + 5 > Len(text) \/ \E k \in 2..5 : text[p + k] \notin HexDigits)
      <4>1. ASSUME NEW k \in 2..5  PROVE text[p + k] \in HexDigits
        <5>1. k = 2 \/ k = 3 \/ k = 4 \/ k = 5
          OBVIOUS
        <5> QED  BY <2>3, <2>4, <5>1, Zenon
      <4>2. ~ (p + 5 > Len(text))
        BY <1>0, <2>4
      <4> QED  BY <4>1, <4>2, Zenon
    <3>3. OneChar(text, p) = [ok |-> TRUE, at |-> p + 6, value |-> (16 * Unhex(text[p + 4]) + Unhex(text[p + 5])) % 256]
      BY <2>4, <3>1, <3>2, Zenon DEF OneChar
    <3> QED  BY <2>3, <2>4, <3>3
  <2> QED  BY <1>0, <2>4, <2>5
<1>4. CASE ch \notin {Quote, Backslash} /\ ch \notin DOMAIN Short /\ ~ (ch < 32 \/ ch >= 127)
  <2>1. Escape(ch) = <<ch>>
    BY <1>4, Zenon DEF Escape
  <2>2. text[p] = ch /\ Len(Escape(ch)) = 1
    <3>1. Len(<<ch>>) = 1 /\ 1 \in 1..1 /\ p + 1 - 1 = p /\ <<ch>>[1] = ch
      BY <1>0
    <3> QED  BY <1>0, <2>1, <3>1 DEF Holds
  <2>3. OneChar(text, p) = [ok |-> TRUE, value |-> ch, at |-> p + 1]
    BY <1>4, <2>2 DEF OneChar
  <2> QED  BY <1>0, <1>4, <2>2, <2>3
<1> QED  BY <1>1, <1>2, <1>3, <1>4

(* A hexadecimal digit of either case has a value.                         *)
LEMMA UnhexIs == \A h \in HexDigits : Unhex(h) \in Nat
<1> SUFFICES ASSUME NEW h \in HexDigits  PROVE Unhex(h) \in Nat
  OBVIOUS
<1>1. CASE h \in 48..57
  <2>1. h \notin 65..70
    BY <1>1
  <2> QED  BY <1>1, <2>1 DEF Unhex
<1>2. CASE h \in 65..70
  <2>1. h \notin 48..57
    BY <1>2
  <2> QED  BY <1>2, <2>1 DEF Unhex
<1>3. CASE h \in 97..102
  <2>1. h \notin 48..57 /\ h \notin 65..70
    BY <1>3
  <2> QED  BY <1>3, <2>1 DEF Unhex
<1> QED  BY <1>1, <1>2, <1>3 DEF HexDigits

(* One character takes at least one place, and none behind the text.       *)
LEMMA OneCharMoves ==
  ASSUME NEW text \in Seq(Nat), NEW p \in 1..Len(text), OneChar(text, p).ok
  PROVE  OneChar(text, p).at \in (p + 1)..(Len(text) + 1) /\ OneChar(text, p).value \in Nat
<1> DEFINE c == OneChar(text, p)
           ch == text[p + 1]
           known == ch \in {Quote, Backslash, Slash}
           short == \E x \in DOMAIN Short : Short[x] = ch
           hex == ~ (p + 5 > Len(text) \/ \E k \in 2..5 : text[p + k] \notin HexDigits)
<1>0. ~ Failed(p).ok /\ Len(text) \in Nat /\ text[p] \in Nat
  BY DEF Failed
<1>1. CASE text[p] # Backslash
  BY <1>0, <1>1 DEF OneChar
<1>2. CASE text[p] = Backslash /\ p = Len(text)
  BY <1>0, <1>2 DEF OneChar
<1>3. CASE text[p] = Backslash /\ p # Len(text)
  <2>1. p + 1 \in 1..Len(text) /\ ch \in Nat /\ p + 2 \in (p + 1)..(Len(text) + 1)
    BY <1>0, <1>3
  <2>2. \/ c = [ok |-> TRUE, value |-> ch, at |-> p + 2]
        \/ short /\ c = [ok |-> TRUE, value |-> CHOOSE x \in DOMAIN Short : Short[x] = ch, at |-> p + 2]
        \/ hex /\ c = [ok |-> TRUE, at |-> p + 6, value |-> (16 * Unhex(text[p + 4]) + Unhex(text[p + 5])) % 256]
        \/ c = Failed(p)
    <3>1. c = CASE known -> [ok |-> TRUE, value |-> ch, at |-> p + 2]
                [] short -> [ok |-> TRUE, value |-> CHOOSE x \in DOMAIN Short : Short[x] = ch, at |-> p + 2]
                [] ch = 117 -> IF ~ hex THEN Failed(p)
                               ELSE [ok |-> TRUE, at |-> p + 6,
                                     value |-> (16 * Unhex(text[p + 4]) + Unhex(text[p + 5])) % 256]
                [] OTHER -> Failed(p)
      BY <1>3, Zenon DEF OneChar
    <3>2. (known => ~ short /\ ch # 117) /\ (short => ch # 117)
      <4>1. known => ch \notin {98, 102, 110, 114, 116} /\ ch # 117
        BY <2>1 DEF Quote, Backslash, Slash
      <4>2. short => ch \in {98, 102, 110, 114, 116}
        BY ShortLetters, Zenon
      <4> HIDE DEF known, short, ch
      <4>3. short => ch # 117
        BY <4>2
      <4> QED  BY <4>1, <4>2, <4>3
    <3> HIDE DEF c, known, hex, short, ch
    <3>3. CASE known
      BY <3>1, <3>2, <3>3, Zenon
    <3>4. CASE short
      BY <3>1, <3>2, <3>4, Zenon
    <3>5. CASE ~ known /\ ~ short /\ ch = 117
      BY <3>1, <3>5, Zenon
    <3>6. CASE ~ known /\ ~ short /\ ch # 117
      BY <3>1, <3>6, Zenon
    <3> QED  BY <3>3, <3>4, <3>5, <3>6, Zenon
  <2>3. CASE short /\ c = [ok |-> TRUE, value |-> CHOOSE x \in DOMAIN Short : Short[x] = ch, at |-> p + 2]
    <3>1. (CHOOSE x \in DOMAIN Short : Short[x] = ch) \in DOMAIN Short
      BY <2>3, Zenon
    <3>2. DOMAIN Short \subseteq Nat
      BY ShortIs
    <3> QED  BY <2>1, <2>3, <3>1, <3>2
  <2>4. CASE hex /\ c = [ok |-> TRUE, at |-> p + 6, value |-> (16 * Unhex(text[p + 4]) + Unhex(text[p + 5])) % 256]
    <3>1. p + 4 \in 1..Len(text) /\ p + 5 \in 1..Len(text) /\ p + 6 \in (p + 1)..(Len(text) + 1)
      BY <1>0, <2>4
    <3>2. text[p + 4] \in HexDigits /\ text[p + 5] \in HexDigits
      BY <2>4
    <3>3. \A h \in HexDigits : Unhex(h) \in Nat
      BY UnhexIs
    <3>4. Unhex(text[p + 4]) \in Nat /\ Unhex(text[p + 5]) \in Nat
      BY <3>2, <3>3, Zenon
    <3>5. (16 * Unhex(text[p + 4]) + Unhex(text[p + 5])) % 256 \in Nat
      BY <3>4
    <3> QED  BY <2>4, <3>1, <3>5
  <2>5. CASE c = [ok |-> TRUE, value |-> ch, at |-> p + 2]
    BY <2>1, <2>5
  <2>6. CASE c = Failed(p)
    BY <1>0, <2>6
  <2> QED  BY <2>2, <2>3, <2>4, <2>5, <2>6
<1> QED  BY <1>1, <1>2, <1>3

-----------------------------------------------------------------------------
(* Rows of characters, and where each of them is in the text they make.    *)
Rows(s, n) == DOMAIN s = 1..n /\ s \in Seq(Seq(Nat))
Flattened(s, n, ends, flat) ==
  /\ ends \in [0..n -> Nat] /\ ends[0] = 0 /\ \A k \in 1..n : ends[k] = ends[k - 1] + Len(s[k])
  /\ flat \in Seq(Nat) /\ Len(flat) = ends[n]
  /\ \A k \in 1..n : \A j \in 1..Len(s[k]) : flat[ends[k - 1] + j] = s[k][j]

(* What FlattenSeq makes of rows, row by row.                              *)
LEMMA FlattenStepwise ==
  ASSUME NEW n \in Nat, NEW s, Rows(s, n)
  PROVE  \E f \in [0..n -> Seq(Nat)] :
            f[0] = <<>> /\ (\A k \in 1..n : f[k] = f[k - 1] \o s[k]) /\ FlattenSeq(s) = f[n]
<1>0. DOMAIN s = 1..n /\ s \in Seq(Seq(Nat)) /\ Len(s) = n /\ \A k \in 1..n : s[k] \in Seq(Nat)
  BY LenProperties DEF Rows
<1> DEFINE S == Seq(Nat)
           none == <<>>
           prev == [k \in 1..n |-> k - 1]
           step == [x \in (1..n) \X S |-> x[2] \o s[x[1]]]
<1>1. PICK f \in [0..n -> S] : f[0] = none /\ \A k \in 1..n : f[k] = step[<<k, f[prev[k]]>>]
  <2>1. Earlier(prev, n)
    BY DEF Earlier
  <2>2. Steps(step, n, S)
    <3>1. ASSUME NEW x \in (1..n) \X S  PROVE x[2] \o s[x[1]] \in S
      <4>1. x[2] \in Seq(Nat) /\ s[x[1]] \in Seq(Nat)
        BY <1>0
      <4> QED  BY <4>1
    <3> QED  BY <3>1 DEF Steps
  <2>3. none \in S
    OBVIOUS
  <2> HIDE DEF prev, step, none, S
  <2>4. \E f : Follows(f, n, S, none, prev, step)
    BY <2>1, <2>2, <2>3, Recursion
  <2> QED  BY <2>4 DEF Follows
<1>2. \A k \in 1..n : f[k] = f[k - 1] \o s[k]
  <2> TAKE k \in 1..n
  <2>1. prev[k] = k - 1 /\ k - 1 \in 0..n
    OBVIOUS
  <2>2. step[<<k, f[k - 1]>>] = f[k - 1] \o s[k]
    <3>1. <<k, f[k - 1]>> \in (1..n) \X S
      BY <2>1
    <3> QED  BY <3>1
  <2> QED  BY <1>1, <2>1, <2>2
<1> HIDE DEF step, prev
<1>3. ASSUME NEW k \in 1..n, k = 1  PROVE f[k] = s[k]
  <2>1. f[k] = f[k - 1] \o s[k] /\ s[k] \in Seq(Nat)
    BY <1>0, <1>2
  <2>2. f[k] = <<>> \o s[k]
    <3>1. k - 1 = 0
      BY <1>3
    <3> QED  BY <1>1, <2>1, <3>1
  <2> QED  BY <2>1, <2>2
<1>4. FlattenSeq(s) = f[n]
  <2>1. CASE n = 0
    <3>1. s = <<>>
      BY <1>0, <2>1, EmptySeq
    <3>2. FlattenSeq(s) = s
      BY <1>0, <2>1 DEF FlattenSeq
    <3> QED  BY <1>1, <2>1, <3>1, <3>2
  <2>2. CASE n # 0
    <3> DEFINE Flat(g) == g = [i \in 1..n |-> IF i = 1 THEN s[i] ELSE g[i - 1] \o s[i]]
               h == [i \in 1..n |-> f[i]]
    <3>1. FlattenSeq(s) = (CHOOSE g : Flat(g))[n]
      BY <1>0, <2>2 DEF FlattenSeq
    <3>2. Flat(h)
      <4>1. ASSUME NEW i \in 1..n  PROVE h[i] = IF i = 1 THEN s[i] ELSE h[i - 1] \o s[i]
        <5>1. CASE i = 1
          <6>1. f[i] = s[i]
            BY <1>3, <5>1
          <6> QED  BY <5>1, <6>1
        <5>2. CASE i # 1
          <6>1. i - 1 \in 1..n
            BY <5>2
          <6> QED  BY <1>2, <5>2, <6>1
        <5> QED  BY <5>1, <5>2
      <4> QED  BY <4>1
    <3> HIDE DEF h
    <3> DEFINE g == CHOOSE g : Flat(g)
    <3>3. Flat(g)
      BY <3>2, Zenon
    <3> HIDE DEF g
    <3> DEFINE T == {i \in 0..n : i # 0 => g[i] = f[i]}
    <3>4. 0 \in T
      OBVIOUS
    <3>5. ASSUME NEW k \in 0..(n - 1), k \in T  PROVE k + 1 \in T
      <4>1. k + 1 \in 1..n /\ k + 1 \in 0..n /\ (k + 1) - 1 = k
        OBVIOUS
      <4>2. g[k + 1] = IF k + 1 = 1 THEN s[k + 1] ELSE g[(k + 1) - 1] \o s[k + 1]
        BY <3>3, <4>1
      <4>3. f[k + 1] = f[k] \o s[k + 1]
        BY <1>2, <4>1
      <4>4. CASE k = 0
        <5>1. f[k + 1] = s[k + 1]
          BY <1>3, <4>1, <4>4
        <5> QED  BY <4>1, <4>2, <4>4, <5>1
      <4>5. CASE k # 0
        <5>1. g[k] = f[k] /\ k + 1 # 1
          BY <3>5, <4>5
        <5>2. g[k + 1] = g[k] \o s[k + 1]
          BY <4>1, <4>2, <5>1
        <5> QED  BY <4>1, <4>3, <5>1, <5>2
      <4> QED  BY <4>4, <4>5
    <3>6. n \in T
      <4> HIDE DEF T
      <4>1. \A i \in 0..n : i \in T
        BY <3>4, <3>5, Induct
      <4> QED  BY <4>1
    <3> QED  BY <2>2, <3>1, <3>6 DEF g
  <2> QED  BY <2>1, <2>2
<1> QED  BY <1>1, <1>2, <1>4

(* Each row is in the text behind those before it.                         *)
LEMMA FlattenIs ==
  ASSUME NEW n \in Nat, NEW s, Rows(s, n)
  PROVE  \E ends : Flattened(s, n, ends, FlattenSeq(s))
<1>0. \A k \in 1..n : s[k] \in Seq(Nat)
  BY LenProperties DEF Rows
<1>1. PICK f \in [0..n -> Seq(Nat)] :
        f[0] = <<>> /\ (\A k \in 1..n : f[k] = f[k - 1] \o s[k]) /\ FlattenSeq(s) = f[n]
  BY FlattenStepwise
<1> DEFINE ends == [k \in 0..n |-> Len(f[k])]
<1>2. ends \in [0..n -> Nat] /\ ends[0] = 0 /\ ends[n] = Len(f[n])
  <2>1. \A k \in 0..n : Len(f[k]) \in Nat
    BY <1>1
  <2> QED  BY <1>1, <2>1
<1>3. ASSUME NEW k \in 1..n
      PROVE  /\ ends[k] = ends[k - 1] + Len(s[k]) /\ Len(s[k]) \in Nat
             /\ \A i \in 1..ends[k - 1] : f[k][i] = f[k - 1][i]
             /\ \A j \in 1..Len(s[k]) : f[k][ends[k - 1] + j] = s[k][j]
  <2>1. /\ k \in 0..n /\ k - 1 \in 0..n /\ f[k] = f[k - 1] \o s[k] /\ f[k - 1] \in Seq(Nat) /\ s[k] \in Seq(Nat)
        /\ ends[k] = Len(f[k]) /\ ends[k - 1] = Len(f[k - 1])
    <3>1. k \in 0..n /\ k - 1 \in 0..n
      OBVIOUS
    <3>2. f[k] = f[k - 1] \o s[k] /\ f[k - 1] \in Seq(Nat) /\ s[k] \in Seq(Nat)
      BY <1>0, <1>1, <3>1
    <3>3. ends[k] = Len(f[k]) /\ ends[k - 1] = Len(f[k - 1])
      BY <3>1
    <3> QED  BY <3>1, <3>2, <3>3
  <2> HIDE DEF ends
  <2>2. PICK a \in Seq(Nat), b \in Seq(Nat) : a = f[k - 1] /\ b = s[k]
    BY <2>1
  <2>3. /\ Len(a \o b) = Len(a) + Len(b) /\ Len(b) \in Nat /\ Len(a) \in Nat
        /\ \A i \in 1..Len(a) : (a \o b)[i] = a[i]
        /\ \A j \in 1..Len(b) : (a \o b)[Len(a) + j] = b[j]
    OBVIOUS
  <2> QED  BY <2>1, <2>2, <2>3
<1> DEFINE T == {k \in 0..n : \A i \in 1..k : \A j \in 1..Len(s[i]) :
                    ends[i - 1] + j \in 1..ends[k] /\ f[k][ends[i - 1] + j] = s[i][j]}
<1> HIDE DEF ends
<1>4. 0 \in T
  OBVIOUS
<1>5. ASSUME NEW k \in 0..(n - 1), k \in T  PROVE k + 1 \in T
  <2>1. k + 1 \in 1..n /\ k + 1 \in 0..n /\ k \in 0..n /\ (k + 1) - 1 = k
    OBVIOUS
  <2>2. /\ ends[k + 1] = ends[k] + Len(s[k + 1]) /\ Len(s[k + 1]) \in Nat
        /\ \A i \in 1..ends[k] : f[k + 1][i] = f[k][i]
        /\ \A j \in 1..Len(s[k + 1]) : f[k + 1][ends[k] + j] = s[k + 1][j]
    BY <1>3, <2>1
  <2>3. ASSUME NEW i \in 1..(k + 1), NEW j \in 1..Len(s[i])
        PROVE  ends[i - 1] + j \in 1..ends[k + 1] /\ f[k + 1][ends[i - 1] + j] = s[i][j]
    <3>1. CASE i = k + 1
      <4>1. ends[k] \in Nat /\ j \in 1..Len(s[k + 1]) /\ i - 1 = k
        BY <1>2, <2>1, <3>1
      <4>2. ends[k] + j \in 1..ends[k + 1]
        BY <2>2, <4>1
      <4> QED  BY <2>2, <3>1, <4>1, <4>2
    <3>2. CASE i # k + 1
      <4>1. i \in 1..k
        BY <3>2
      <4>2. ends[i - 1] + j \in 1..ends[k] /\ f[k][ends[i - 1] + j] = s[i][j]
        BY <1>5, <4>1
      <4>3. ends[k] \in Nat /\ ends[k + 1] \in Nat
        BY <1>2, <2>1
      <4>4. ends[i - 1] + j \in 1..ends[k + 1]
        <5>1. ends[k] <= ends[k + 1]
          BY <2>2, <4>3
        <5> QED  BY <4>2, <4>3, <5>1
      <4>5. f[k + 1][ends[i - 1] + j] = f[k][ends[i - 1] + j]
        BY <2>2, <4>2, Zenon
      <4> QED  BY <4>2, <4>4, <4>5, Zenon
    <3> QED  BY <3>1, <3>2
  <2> QED  BY <2>1, <2>3
<1>6. n \in T
  <2> HIDE DEF T
  <2>1. \A k \in 0..n : k \in T
    BY <1>4, <1>5, Induct
  <2> QED  BY <2>1
<1>7. Flattened(s, n, ends, f[n])
  <2>1. f[n] \in Seq(Nat)
    BY <1>1
  <2>2. \A k \in 1..n : ends[k] = ends[k - 1] + Len(s[k])
    BY <1>3
  <2>3. \A k \in 1..n : \A j \in 1..Len(s[k]) : f[n][ends[k - 1] + j] = s[k][j]
    BY <1>6
  <2> QED  BY <1>2, <2>1, <2>2, <2>3 DEF Flattened
<1> QED  BY <1>1, <1>7

(* Every character is written as some characters.                          *)
LEMMA EscapeIs ==
  ASSUME NEW ch \in 0..255
  PROVE  Escape(ch) \in Seq(Nat)
<1>0. Backslash = 92 /\ Quote = 34
  BY DEF Backslash, Quote
<1>1. CASE ch \in {Quote, Backslash}
  <2>1. ch \notin DOMAIN Short /\ ~ (ch < 32 \/ ch >= 127)
    BY <1>0, <1>1, ShortIs
  <2>2. Escape(ch) = <<Backslash, ch>>
    BY <1>1, <2>1, Zenon DEF Escape
  <2> QED  BY <1>0, <2>2
<1>2. CASE ch \in DOMAIN Short
  <2>1. ch \notin {Quote, Backslash} /\ Short[ch] \in Nat
    BY <1>0, <1>2, ShortIs
  <2>2. Escape(ch) = <<Backslash, Short[ch]>>
    BY <1>2, <2>1, Zenon DEF Escape
  <2> QED  BY <1>0, <2>1, <2>2
<1>3. CASE ch \notin {Quote, Backslash} /\ ch \notin DOMAIN Short /\ (ch < 32 \/ ch >= 127)
  <2>1. Escape(ch) = <<Backslash, 117, 48, 48, Hex(ch \div 16), Hex(ch % 16)>>
    BY <1>3, Zenon DEF Escape
  <2>2. ch \div 16 \in 0..15 /\ ch % 16 \in 0..15
    OBVIOUS
  <2>3. PICK a \in Nat, b \in Nat : a = Hex(ch \div 16) /\ b = Hex(ch % 16)
    BY <2>2, HexComesBack
  <2>4. Escape(ch) = <<Backslash, 117, 48, 48, a, b>>
    BY <2>1, <2>3
  <2> QED  BY <1>0, <2>4
<1>4. CASE ch \notin {Quote, Backslash} /\ ch \notin DOMAIN Short /\ ~ (ch < 32 \/ ch >= 127)
  <2>1. Escape(ch) = <<ch>>
    BY <1>4, Zenon DEF Escape
  <2> QED  BY <2>1
<1> QED  BY <1>1, <1>2, <1>3, <1>4

(* What the definition of ParseString gives to the text from p.            *)
RestOf(text, r, p) ==
  IF p > Len(text) THEN Failed(p)
  ELSE IF text[p] = Quote THEN [ok |-> TRUE, value |-> <<>>, at |-> p + 1]
  ELSE IF ~ OneChar(text, p).ok \/ ~ r[OneChar(text, p).at].ok THEN Failed(p)
  ELSE [ok |-> TRUE, value |-> <<OneChar(text, p).value>> \o r[OneChar(text, p).at].value,
        at |-> r[OneChar(text, p).at].at]

(* The function that ParseString reads characters with.                    *)
RestsFrom(text, from) ==
  LET rest[p \in from..(Len(text) + 1)] ==
        IF p > Len(text) THEN Failed(p)
        ELSE IF text[p] = Quote THEN [ok |-> TRUE, value |-> <<>>, at |-> p + 1]
        ELSE LET c == OneChar(text, p) IN
             IF ~c.ok \/ ~rest[c.at].ok THEN Failed(p)
             ELSE [ok |-> TRUE, value |-> <<c.value>> \o rest[c.at].value, at |-> rest[c.at].at]
  IN  rest

(* Results of reading: failed somewhere, or characters and the place       *)
(* behind them.                                                            *)
Failures == {Failed(p) : p \in Nat}
Readings == [ok : {TRUE}, value : Seq(Nat), at : Nat]

(* It exists: each character is followed by a shorter text.                *)
LEMMA RestsExist ==
  ASSUME NEW text \in Seq(Nat)
  PROVE  \A p \in 1..(Len(text) + 1) : RestsFrom(text, 1)[p] = RestOf(text, RestsFrom(text, 1), p)
<1> DEFINE N == Len(text)
           S == Failures \cup Readings
           base == Failed(N + 1)
           C(k) == OneChar(text, N + 1 - k)
           prev == [k \in 1..N |-> IF C(k).ok THEN N + 1 - C(k).at ELSE 0]
           One(k, x) == IF text[N + 1 - k] = Quote THEN [ok |-> TRUE, value |-> <<>>, at |-> N + 1 - k + 1]
                        ELSE IF ~ C(k).ok \/ ~ x.ok THEN Failed(N + 1 - k)
                        ELSE [ok |-> TRUE, value |-> <<C(k).value>> \o x.value, at |-> x.at]
           step == [x \in (1..N) \X S |-> One(x[1], x[2])]
<1>1. N \in Nat /\ \A k \in 1..N : N + 1 - k \in 1..N
  OBVIOUS
<1>2. \A k \in 1..N : C(k).ok => C(k).at \in (N + 1 - k + 1)..(N + 1) /\ C(k).value \in Nat
  BY <1>1, OneCharMoves
<1> HIDE DEF C
<1>3. Earlier(prev, N)
  <2>1. ASSUME NEW k \in 1..N  PROVE prev[k] \in Nat /\ prev[k] < k
    BY <1>1, <1>2
  <2> QED  BY <2>1 DEF Earlier
<1>4. Steps(step, N, S)
  <2>1. ASSUME NEW k \in 1..N, NEW x \in S  PROVE One(k, x) \in S
    <3>1. CASE text[N + 1 - k] = Quote
      BY <1>1, <3>1 DEF Readings
    <3>2. CASE text[N + 1 - k] # Quote /\ (~ C(k).ok \/ ~ x.ok)
      BY <1>1, <3>2 DEF Failures
    <3>3. CASE text[N + 1 - k] # Quote /\ C(k).ok /\ x.ok
      <4>1. x \in Readings
        BY <3>3 DEF Failures, Failed
      <4>2. PICK v \in Seq(Nat), a \in Nat : x.value = v /\ x.at = a
        BY <4>1 DEF Readings
      <4>3. PICK c \in Nat : c = C(k).value
        BY <1>2, <3>3
      <4>4. PICK w \in Seq(Nat) : w = <<c>> \o v
        <5>1. <<c>> \o v \in Seq(Nat)
          OBVIOUS
        <5> HIDE DEF One, S
        <5> QED  BY <5>1, Zenon
      <4>5. One(k, x) = [ok |-> TRUE, value |-> w, at |-> a]
        BY <3>3, <4>2, <4>3, <4>4
      <4>6. [ok |-> TRUE, value |-> w, at |-> a] \in Readings
        BY DEF Readings
      <4> HIDE DEF One
      <4> QED  BY <4>5, <4>6, Zenon
    <3> QED  BY <3>1, <3>2, <3>3
  <2> HIDE DEF One, S
  <2>2. \A x \in (1..N) \X S : x[1] \in 1..N /\ x[2] \in S
    OBVIOUS
  <2>3. \A x \in (1..N) \X S : One(x[1], x[2]) \in S
    BY <2>1, <2>2
  <2> QED  BY <2>3 DEF Steps
<1>5. base \in S
  BY <1>1 DEF Failures
<1>6. PICK f : Follows(f, N, S, base, prev, step)
  <2> HIDE DEF N, S, base, prev, step
  <2>1. \E f : Follows(f, N, S, base, prev, step)
    BY <1>1, <1>3, <1>4, <1>5, Recursion
  <2> QED  BY <2>1
<1>7. f[0] = base /\ \A k \in 1..N : f[k] = One(k, f[prev[k]])
  <2>1. f \in [0..N -> S] /\ f[0] = base /\ \A k \in 1..N : f[k] = step[<<k, f[prev[k]]>>]
    BY <1>6 DEF Follows
  <2>2. ASSUME NEW k \in 1..N  PROVE f[k] = One(k, f[prev[k]])
    <3>1. prev[k] \in 0..N
      BY <1>3 DEF Earlier
    <3>2. PICK x \in S : x = f[prev[k]]
      BY <2>1, <3>1
    <3>3. step[<<k, x>>] = One(k, x)
      <4>1. <<k, x>> \in (1..N) \X S /\ <<k, x>>[1] = k /\ <<k, x>>[2] = x
        OBVIOUS
      <4> HIDE DEF One, S
      <4> QED  BY <4>1
    <3> HIDE DEF One, step, prev
    <3> QED  BY <2>1, <3>2, <3>3
  <2> QED  BY <2>1, <2>2
<1> DEFINE r == [p \in 1..(N + 1) |-> f[N + 1 - p]]
<1>8. ASSUME NEW p \in 1..(N + 1)  PROVE r[p] = RestOf(text, r, p)
  <2>1. CASE p = N + 1
    <3>1. r[p] = f[0] /\ p > Len(text)
      BY <1>1, <2>1
    <3> QED  BY <1>7, <2>1, <3>1, Zenon DEF RestOf
  <2>2. CASE p # N + 1
    <3>0. N + 1 - p \in 1..N
      BY <1>1, <2>2
    <3> HIDE DEF N
    <3>1. PICK k \in 1..N : k = N + 1 - p
      BY <3>0
    <3>2. N + 1 - k = p /\ r[p] = f[k] /\ ~ (p > Len(text)) /\ p \in Nat
      BY <1>1, <2>2, <3>1 DEF N
    <3> DEFINE c == OneChar(text, p)
    <3>3. C(k) = c
      BY <3>2 DEF C
    <3>4. c.ok => prev[k] = N + 1 - c.at /\ c.at \in 1..(N + 1)
      BY <1>1, <1>2, <3>2, <3>3
    <3>5. c.ok => f[prev[k]] = r[c.at]
      BY <3>4
    <3> HIDE DEF r, prev, c
    <3>6. f[k] = One(k, f[prev[k]])
      BY <1>7
    <3>7. RestOf(text, r, p) = IF text[p] = Quote THEN [ok |-> TRUE, value |-> <<>>, at |-> p + 1]
                               ELSE IF ~ c.ok \/ ~ r[c.at].ok THEN Failed(p)
                               ELSE [ok |-> TRUE, value |-> <<c.value>> \o r[c.at].value, at |-> r[c.at].at]
      BY <3>2, Zenon DEF RestOf, c
    <3>8. One(k, f[prev[k]]) = IF text[p] = Quote THEN [ok |-> TRUE, value |-> <<>>, at |-> p + 1]
                               ELSE IF ~ c.ok \/ ~ f[prev[k]].ok THEN Failed(p)
                               ELSE [ok |-> TRUE, value |-> <<c.value>> \o f[prev[k]].value, at |-> f[prev[k]].at]
      BY <3>2, <3>3, Zenon
    <3>9. CASE c.ok
      BY <3>2, <3>5, <3>6, <3>7, <3>8, <3>9, Zenon
    <3>10. CASE ~ c.ok
      BY <3>2, <3>6, <3>7, <3>8, <3>10, Zenon
    <3> QED  BY <3>9, <3>10
  <2> QED  BY <2>1, <2>2
<1> DEFINE Reads(g) == g = [p \in 1..(Len(text) + 1) |-> RestOf(text, g, p)]
<1>9. Reads(r)
  <2>1. r = [p \in 1..(N + 1) |-> r[p]]
    OBVIOUS
  <2> HIDE DEF r
  <2> QED  BY <1>8, <2>1
<1>10. RestsFrom(text, 1) = CHOOSE g : Reads(g)
  BY Zenon DEF RestsFrom, RestOf
<1> HIDE DEF r, Reads
<1>11. Reads(RestsFrom(text, 1))
  BY <1>9, <1>10, Zenon
<1> DEFINE g == RestsFrom(text, 1)
<1> HIDE DEF g
<1>12. g = [p \in 1..(Len(text) + 1) |-> RestOf(text, g, p)]
  BY <1>11 DEF Reads, g
<1>13. \A p \in 1..(Len(text) + 1) : g[p] = RestOf(text, g, p)
  BY <1>12, Zenon
<1> QED  BY <1>13 DEF g

(* Reading a string in steps: from the first character that is no space.   *)
Shortened(all, len) ==
  IF ~ all.ok THEN Failed(all.at)
  ELSE [all EXCEPT !.value = SubSeq(@, 1, IF Len(@) < len THEN Len(@) ELSE len - 1)]

StringFrom(text, from, len) ==
  IF from > Len(text) \/ text[from] # Quote THEN Failed(from)
  ELSE Shortened(RestsFrom(text, from)[from + 1], len)

(* A string is read in these steps: from its first character that is no    *)
(* space, and cut to the buffer's length at the end.                       *)
LEMMA ParseStringIs ==
  ASSUME NEW text, NEW len
  PROVE  ParseString(text, 1, len) = StringFrom(text, SkipSpaces(text, 1), len)
BY Zenon DEF ParseString, StringFrom, Shortened, RestsFrom

(* One more character in front.                                            *)
LEMMA OneInFront ==
  ASSUME NEW n \in Nat, NEW str \in [1..n -> Nat], NEW k \in 1..n
  PROVE  <<str[k]>> \o SubSeq(str, k + 1, n) = SubSeq(str, k, n)
<1> DEFINE a == SubSeq(str, k + 1, n)
           b == SubSeq(str, k, n)
<1>1. /\ a = [i \in 1..(n - k) |-> str[k + i]] /\ b = [i \in 1..(n - k + 1) |-> str[k + i - 1]]
  <2>1. a = [i \in 1..(1 + n - (k + 1)) |-> str[(k + 1) + i - 1]] /\ 1 + n - (k + 1) = n - k
    OBVIOUS
  <2>2. b = [i \in 1..(1 + n - k) |-> str[k + i - 1]] /\ 1 + n - k = n - k + 1
    OBVIOUS
  <2>3. \A i \in 1..(n - k) : (k + 1) + i - 1 = k + i
    OBVIOUS
  <2> HIDE DEF a, b
  <2> QED  BY <2>1, <2>2, <2>3
<1> HIDE DEF a, b
<1>2. a \in Seq(Nat) /\ Len(a) = n - k /\ b \in Seq(Nat) /\ Len(b) = n - k + 1
  <2>1. \A i \in 1..(n - k) : k + i \in 1..n
    OBVIOUS
  <2>2. \A i \in 1..(n - k + 1) : k + i - 1 \in 1..n
    OBVIOUS
  <2> QED  BY <1>1, <2>1, <2>2
<1>3. PICK c \in Nat : c = str[k]
  OBVIOUS
<1>4. PICK d : d = <<c>> \o a
  OBVIOUS
<1>5. d \in Seq(Nat) /\ Len(d) = n - k + 1 /\ d[1] = c /\ \A i \in 1..(n - k) : d[i + 1] = a[i]
  <2>1. PICK e \in Seq(Nat) : e = a /\ Len(e) = n - k
    BY <1>2
  <2>2. /\ <<c>> \o e \in Seq(Nat) /\ Len(<<c>> \o e) = 1 + Len(e) /\ (<<c>> \o e)[1] = c
        /\ \A i \in 1..Len(e) : (<<c>> \o e)[1 + i] = e[i]
    OBVIOUS
  <2>3. d = <<c>> \o e
    BY <1>4, <2>1
  <2> QED  BY <2>1, <2>2, <2>3
<1>6. \A i \in 1..(n - k + 1) : d[i] = b[i]
  <2> TAKE i \in 1..(n - k + 1)
  <2>1. CASE i = 1
    BY <1>1, <1>3, <1>5, <2>1
  <2>2. CASE i # 1
    <3>1. i - 1 \in 1..(n - k) /\ (i - 1) + 1 = i /\ k + (i - 1) = k + i - 1
      BY <2>2
    <3>2. d[i] = a[i - 1]
      BY <1>5, <3>1
    <3> QED  BY <1>1, <3>1, <3>2
  <2> QED  BY <2>1, <2>2
<1>7. d = b
  BY <1>2, <1>5, <1>6
<1> QED  BY <1>3, <1>4, <1>7 DEF a, b

(* A text holds a string from its beginning: a quote, the characters as    *)
(* they are written, the k-th behind ends[k - 1] others, and a quote.      *)
HoldsString(text, str, n, ends) ==
  /\ text \in Seq(Nat) /\ str \in [1..n -> 0..255] /\ ends \in [0..n -> Nat] /\ ends[0] = 0
  /\ \A k \in 1..n : ends[k] = ends[k - 1] + Len(Escape(str[k])) /\ Holds(text, 2 + ends[k - 1], Escape(str[k]))
  /\ text[1] = Quote /\ 2 + ends[n] <= Len(text) /\ text[2 + ends[n]] = Quote

(* It is what a string is written as, whatever follows.                    *)
LEMMA StringIsHeld ==
  ASSUME NEW n \in Nat, NEW str \in [1..n -> 0..255], NEW after \in Seq(Nat)
  PROVE  \E ends : /\ HoldsString(SerializeString(str) \o after, str, n, ends)
                   /\ Len(SerializeString(str)) = ends[n] + 2
<1> DEFINE rows == [i \in DOMAIN str |-> Escape(str[i])]
           flat == FlattenSeq(rows)
<1>1. \A i \in 1..n : rows[i] = Escape(str[i]) /\ rows[i] \in Seq(Nat)
  BY EscapeIs
<1>2. Rows(rows, n)
  <2>1. rows = [i \in 1..n |-> rows[i]]
    OBVIOUS
  <2> HIDE DEF rows
  <2>2. DOMAIN rows = 1..n /\ rows \in Seq(Seq(Nat))
    BY <1>1, <2>1
  <2> QED  BY <2>2 DEF Rows
<1> HIDE DEF rows
<1>3. PICK ends : Flattened(rows, n, ends, flat)
  BY <1>2, FlattenIs
<1> HIDE DEF flat
<1>4. /\ ends \in [0..n -> Nat] /\ ends[0] = 0 /\ \A k \in 1..n : ends[k] = ends[k - 1] + Len(rows[k])
      /\ flat \in Seq(Nat) /\ Len(flat) = ends[n] /\ ends[n] \in Nat
      /\ \A k \in 1..n : \A j \in 1..Len(rows[k]) : flat[ends[k - 1] + j] = rows[k][j]
  <2>1. /\ ends \in [0..n -> Nat] /\ ends[0] = 0 /\ \A k \in 1..n : ends[k] = ends[k - 1] + Len(rows[k])
        /\ flat \in Seq(Nat) /\ Len(flat) = ends[n]
        /\ \A k \in 1..n : \A j \in 1..Len(rows[k]) : flat[ends[k - 1] + j] = rows[k][j]
    BY <1>3, Zenon DEF Flattened
  <2>2. ends[n] \in Nat
    <3>1. ends \in [0..n -> Nat]
      BY <2>1, Zenon
    <3> QED  BY <3>1
  <2> QED  BY <2>1, <2>2, Zenon
<1> DEFINE quote == <<Quote>>
           written == quote \o flat \o quote
           text == written \o after
<1>5. SerializeString(str) = written
  BY DEF SerializeString, flat, rows
<1>6. quote \in Seq(Nat) /\ Len(quote) = 1 /\ quote[1] = Quote /\ Len(after) \in Nat
  BY DEF Quote
<1> HIDE DEF quote
<1>7. /\ quote \o flat \in Seq(Nat) /\ Len(quote \o flat) = ends[n] + 1 /\ (quote \o flat)[1] = Quote
      /\ \A i \in 1..ends[n] : (quote \o flat)[i + 1] = flat[i]
  <2>1. PICK q \in Seq(Nat), f \in Seq(Nat) : q = quote /\ f = flat
    BY <1>4, <1>6
  <2>2. /\ q \o f \in Seq(Nat) /\ Len(q \o f) = Len(q) + Len(f)
        /\ \A i \in 1..Len(q) : (q \o f)[i] = q[i]
        /\ \A i \in 1..Len(f) : (q \o f)[Len(q) + i] = f[i]
    OBVIOUS
  <2>3. Len(q) = 1 /\ q[1] = Quote /\ Len(f) = ends[n] /\ 1 \in 1..1
    BY <1>4, <1>6, <2>1
  <2>4. PICK c : c = q \o f
    OBVIOUS
  <2>5. c \in Seq(Nat) /\ Len(c) = ends[n] + 1 /\ c[1] = Quote /\ \A i \in 1..ends[n] : c[i + 1] = f[i]
    <3>1. \A i \in 1..Len(f) : Len(q) + i = i + 1
      BY <2>3
    <3> QED  BY <1>4, <2>2, <2>3, <2>4, <3>1
  <2>6. c = quote \o flat
    BY <2>1, <2>4
  <2> QED  BY <2>1, <2>5, <2>6
<1>8. /\ written \in Seq(Nat) /\ Len(written) = ends[n] + 2 /\ written[1] = Quote /\ written[ends[n] + 2] = Quote
      /\ \A i \in 1..ends[n] : written[i + 1] = flat[i]
  <2>1. PICK a \in Seq(Nat), q \in Seq(Nat) : a = quote \o flat /\ q = quote
    BY <1>6, <1>7
  <2>2. /\ a \o q \in Seq(Nat) /\ Len(a \o q) = Len(a) + Len(q)
        /\ \A i \in 1..Len(a) : (a \o q)[i] = a[i]
        /\ \A i \in 1..Len(q) : (a \o q)[Len(a) + i] = q[i]
    OBVIOUS
  <2>3. Len(a) = ends[n] + 1 /\ Len(q) = 1 /\ q[1] = Quote /\ a[1] = Quote /\ \A i \in 1..ends[n] : a[i + 1] = flat[i]
    BY <1>6, <1>7, <2>1
  <2>4. 1 \in 1..Len(a) /\ 1 \in 1..Len(q) /\ Len(a) + 1 = ends[n] + 2 /\ \A i \in 1..ends[n] : i + 1 \in 1..Len(a)
    BY <1>4, <2>3
  <2>5. written = a \o q
    BY <2>1
  <2> HIDE DEF written
  <2> QED  BY <1>4, <2>2, <2>3, <2>4, <2>5
<1> HIDE DEF written
<1>9. /\ text \in Seq(Nat) /\ Len(text) >= ends[n] + 2 /\ \A i \in 1..(ends[n] + 2) : text[i] = written[i]
  <2>1. PICK a \in Seq(Nat) : a = written
    BY <1>8
  <2>2. a \o after \in Seq(Nat) /\ Len(a \o after) = Len(a) + Len(after) /\ \A i \in 1..Len(a) : (a \o after)[i] = a[i]
    OBVIOUS
  <2>3. Len(a) = ends[n] + 2
    BY <1>8, <2>1
  <2> QED  BY <1>4, <1>6, <2>1, <2>2, <2>3
<1> HIDE DEF text
<1>10. text[1] = Quote /\ text[ends[n] + 2] = Quote /\ \A i \in 1..ends[n] : text[i + 1] = flat[i]
  <2>1. 1 \in 1..(ends[n] + 2) /\ ends[n] + 2 \in 1..(ends[n] + 2) /\ \A i \in 1..ends[n] : i + 1 \in 1..(ends[n] + 2)
    BY <1>4
  <2> QED  BY <1>8, <1>9, <2>1
<1>11. ASSUME NEW k \in 1..n  PROVE ends[k] <= ends[n]
  <2>1. ends \in [0..n -> Nat] /\ \A j \in 1..n : ends[j - 1] <= ends[j]
    <3>1. \A j \in 1..n : Len(rows[j]) \in Nat /\ j - 1 \in 0..n /\ j \in 0..n
      BY <1>1
    <3>2. ASSUME NEW j \in 1..n  PROVE ends[j - 1] <= ends[j]
      <4>1. ends[j] = ends[j - 1] + Len(rows[j]) /\ ends[j - 1] \in Nat
        BY <1>4, <3>1
      <4> QED  BY <3>1, <4>1
    <3> QED  BY <1>4, <3>2
  <2> DEFINE T == {j \in 0..(n - k) : ends[k] <= ends[k + j]}
  <2>2. 0 \in T
    BY <1>4
  <2>3. ASSUME NEW j \in 0..(n - k - 1), j \in T  PROVE j + 1 \in T
    <3>1. k + j + 1 \in 1..n /\ k + j \in 0..n /\ k + j + 1 - 1 = k + j /\ k + (j + 1) = k + j + 1 /\ j + 1 \in 0..(n - k)
      OBVIOUS
    <3>2. ends[k + j] <= ends[k + j + 1] /\ ends[k + j] \in Nat /\ ends[k + j + 1] \in Nat /\ ends[k] \in Nat
      BY <2>1, <3>1
    <3> QED  BY <2>3, <3>1, <3>2
  <2>4. n - k \in T
    <3> DEFINE M == n - k
    <3>1. M \in Nat /\ 0 \in T /\ \A j \in 0..(M - 1) : j \in T => j + 1 \in T
      BY <2>2, <2>3
    <3> HIDE DEF M, T
    <3>2. \A j \in 0..M : j \in T
      BY <3>1, Induct
    <3> QED  BY <3>1, <3>2 DEF M
  <2> QED  BY <2>4
<1>12. ASSUME NEW k \in 1..n
       PROVE  ends[k] = ends[k - 1] + Len(Escape(str[k])) /\ Holds(text, 2 + ends[k - 1], Escape(str[k]))
  <2>1. PICK e \in Seq(Nat) : e = Escape(str[k]) /\ e = rows[k]
    BY <1>1
  <2>2. PICK p \in Nat, q \in Nat, m \in Nat : p = ends[k - 1] /\ q = ends[k] /\ m = ends[n]
    <3>1. k - 1 \in 0..n /\ k \in 0..n
      OBVIOUS
    <3>2. ends[k - 1] \in Nat /\ ends[k] \in Nat /\ ends[n] \in Nat
      BY <1>4, <3>1
    <3> QED  BY <3>2
  <2>3. Len(e) \in Nat /\ q = p + Len(e) /\ q <= m
    BY <1>4, <1>11, <2>1, <2>2
  <2>4. ASSUME NEW j \in 1..Len(e)  PROVE text[(2 + p) + j - 1] = e[j]
    <3>1. p + j \in 1..m /\ (p + j) + 1 = (2 + p) + j - 1
      BY <2>3
    <3>2. flat[p + j] = e[j]
      BY <1>4, <2>1, <2>2
    <3> QED  BY <1>10, <2>2, <3>1, <3>2
  <2>5. 2 + p \in Nat /\ 2 + p > 0 /\ (2 + p) + Len(e) <= Len(text) + 1
    <3>1. Len(text) >= m + 2 /\ Len(text) \in Nat
      BY <1>9, <2>2
    <3> QED  BY <2>3, <3>1
  <2>6. Holds(text, 2 + p, e)
    BY <1>9, <2>4, <2>5 DEF Holds
  <2> QED  BY <2>1, <2>2, <2>3, <2>6
<1>13. HoldsString(text, str, n, ends)
  <2>1. ends[n] + 2 = 2 + ends[n] /\ 2 + ends[n] <= Len(text)
    BY <1>4, <1>9
  <2> QED  BY <1>4, <1>9, <1>10, <1>12, <2>1 DEF HoldsString
<1> QED  BY <1>5, <1>8, <1>13 DEF text

(* The characters from the k-th on are read, and the quote behind them.    *)
LEMMA RestIs ==
  ASSUME NEW n \in Nat, NEW str, NEW text, NEW ends, HoldsString(text, str, n, ends)
  PROVE  \A k \in 1..(n + 1) : RestsFrom(text, 1)[2 + ends[k - 1]]
                                = [ok |-> TRUE, value |-> SubSeq(str, k, n), at |-> ends[n] + 3]
<1>1. /\ text \in Seq(Nat) /\ str \in [1..n -> 0..255] /\ ends \in [0..n -> Nat]
      /\ 2 + ends[n] <= Len(text) /\ text[2 + ends[n]] = Quote
      /\ \A k \in 1..n : ends[k] = ends[k - 1] + Len(Escape(str[k])) /\ Holds(text, 2 + ends[k - 1], Escape(str[k]))
  BY DEF HoldsString
<1>2. Len(text) \in Nat /\ ends[n] \in Nat
  BY <1>1
<1>3. PICK r : /\ r = RestsFrom(text, 1)
               /\ \A p \in 1..(Len(text) + 1) : r[p] = RestOf(text, r, p)
  BY <1>1, RestsExist
<1> DEFINE Reads(k) == r[2 + ends[k - 1]] = [ok |-> TRUE, value |-> SubSeq(str, k, n), at |-> ends[n] + 3]
<1>4. Reads(n + 1)
  <2>1. PICK p \in 1..Len(text) : p = 2 + ends[n]
    BY <1>1, <1>2
  <2>2. r[p] = RestOf(text, r, p) /\ ~ (p > Len(text)) /\ text[p] = Quote
    BY <1>1, <1>3, <2>1
  <2>3. r[p] = [ok |-> TRUE, value |-> <<>>, at |-> p + 1]
    BY <2>2, Zenon DEF RestOf
  <2>4. SubSeq(str, n + 1, n) = <<>>
    <3>1. SubSeq(str, n + 1, n) = [i \in 1..(1 + n - (n + 1)) |-> str[n + 1 + i - 1]]
      OBVIOUS
    <3>2. 1..(1 + n - (n + 1)) = {}
      OBVIOUS
    <3> QED  BY <3>1, <3>2
  <2>5. (n + 1) - 1 = n /\ p + 1 = ends[n] + 3
    BY <1>2, <2>1
  <2> QED  BY <2>1, <2>3, <2>4, <2>5
<1>5. ASSUME NEW k \in 1..n, Reads(k + 1)  PROVE Reads(k)
  <2>1. PICK ch \in 0..255 : ch = str[k]
    BY <1>1
  <2>2. Holds(text, 2 + ends[k - 1], Escape(ch)) /\ ends[k] = ends[k - 1] + Len(Escape(ch)) /\ ends[k - 1] \in Nat
    <3>1. k - 1 \in 0..n
      OBVIOUS
    <3> QED  BY <1>1, <2>1, <3>1
  <2>3. PICK p \in Nat : p = 2 + ends[k - 1]
    BY <2>2
  <2>4. Holds(text, p, Escape(ch))
    BY <2>2, <2>3
  <2>5. /\ text[p] # Quote /\ Len(Escape(ch)) \in Nat /\ Len(Escape(ch)) >= 1
        /\ OneChar(text, p) = [ok |-> TRUE, value |-> ch, at |-> p + Len(Escape(ch))]
    BY <2>4, EscapeIsRead
  <2>6. p \in 1..(Len(text) + 1) /\ ~ (p > Len(text))
    BY <1>2, <2>4, <2>5 DEF Holds
  <2> DEFINE q == 2 + ends[k]
  <2>7. OneChar(text, p).ok /\ OneChar(text, p).value = ch /\ OneChar(text, p).at = q
    <3>1. p + Len(Escape(ch)) = q
      BY <2>2, <2>3, <2>5
    <3> QED  BY <2>5, <3>1
  <2>8. r[q] = [ok |-> TRUE, value |-> SubSeq(str, k + 1, n), at |-> ends[n] + 3]
    <3>1. (k + 1) - 1 = k
      OBVIOUS
    <3> QED  BY <1>5, <3>1
  <2> HIDE DEF q
  <2>9. r[q].ok /\ r[q].value = SubSeq(str, k + 1, n) /\ r[q].at = ends[n] + 3
    BY <2>8
  <2>10. r[p] = RestOf(text, r, p)
    BY <1>3, <2>6
  <2>11. r[p] = [ok |-> TRUE, value |-> <<ch>> \o SubSeq(str, k + 1, n), at |-> ends[n] + 3]
    BY <2>5, <2>6, <2>7, <2>9, <2>10, Zenon DEF RestOf
  <2>12. <<str[k]>> \o SubSeq(str, k + 1, n) = SubSeq(str, k, n)
    <3>1. str \in [1..n -> 0..255]
      BY <1>1
    <3>2. str = [i \in 1..n |-> str[i]]
      BY <3>1
    <3>3. ASSUME NEW i \in 1..n  PROVE str[i] \in Nat
      <4>1. str[i] \in 0..255
        BY <3>1
      <4> QED  BY <4>1
    <3>4. str \in [1..n -> Nat]
      BY <3>2, <3>3
    <3> QED  BY <3>4, OneInFront
  <2> QED  BY <2>1, <2>3, <2>11, <2>12
<1> HIDE DEF Reads
<1> DEFINE T == {i \in 0..n : Reads(n + 1 - i)}
<1>6. 0 \in T
  <2>1. n + 1 - 0 = n + 1
    OBVIOUS
  <2> QED  BY <1>4, <2>1
<1>7. ASSUME NEW i \in 0..(n - 1), i \in T  PROVE i + 1 \in T
  <2>1. PICK k \in 1..n : k = n - i
    OBVIOUS
  <2>2. n + 1 - i = k + 1 /\ n + 1 - (i + 1) = k /\ i + 1 \in 0..n
    BY <2>1
  <2>3. Reads(k)
    BY <1>5, <1>7, <2>2
  <2> QED  BY <2>2, <2>3
<1>8. \A i \in 0..n : i \in T
  <2> HIDE DEF T
  <2> QED  BY <1>6, <1>7, Induct
<1>9. ASSUME NEW k \in 1..(n + 1)  PROVE Reads(k)
  <2>1. n + 1 - k \in 0..n /\ n + 1 - (n + 1 - k) = k
    OBVIOUS
  <2>2. n + 1 - k \in T
    BY <1>8, <2>1
  <2> QED  BY <2>1, <2>2
<1> QED  BY <1>3, <1>9 DEF Reads

(* Every string comes back, as far as the buffer reaches.                  *)
LEMMA StringReturns ==
  ASSUME NEW n \in Nat, NEW str \in [1..n -> 0..255], NEW len, NEW after \in Seq(Nat)
  PROVE  StringComesBack(str, len, after)
<1> DEFINE written == SerializeString(str)
           text == written \o after
<1>1. PICK ends : HoldsString(text, str, n, ends) /\ Len(written) = ends[n] + 2
  BY StringIsHeld
<1> HIDE DEF text, written
<1>2. /\ text \in Seq(Nat) /\ Len(text) \in Nat /\ ends[0] = 0 /\ ends[n] \in Nat /\ ends[n] + 2 <= Len(text)
      /\ text[1] = Quote
  BY <1>1 DEF HoldsString
<1> DEFINE First(p) == /\ p <= Len(text) => text[p] \notin Spaces
                       /\ \A q \in 1..(p - 1) : text[q] \in Spaces
<1>3. SkipSpaces(text, 1) = 1
  <2>1. text[1] \notin Spaces /\ 1 <= Len(text)
    BY <1>2 DEF Quote, Spaces
  <2>2. 1 \in 1..(Len(text) + 1) /\ First(1)
    BY <1>2, <2>1
  <2>3. ASSUME NEW p \in 1..(Len(text) + 1), First(p)  PROVE p = 1
    <3>1. p # 1 => 1 \in 1..(p - 1)
      BY <1>2
    <3> QED  BY <2>1, <2>3, <3>1
  <2>4. SkipSpaces(text, 1) = CHOOSE p \in 1..(Len(text) + 1) : First(p)
    BY DEF SkipSpaces
  <2> HIDE DEF First
  <2> QED  BY <2>2, <2>3, <2>4
<1> DEFINE all == RestsFrom(text, 1)[1 + 1]
<1>4. all = [ok |-> TRUE, value |-> SubSeq(str, 1, n), at |-> ends[n] + 3]
  <2>1. \A k \in 1..(n + 1) : RestsFrom(text, 1)[2 + ends[k - 1]]
                                = [ok |-> TRUE, value |-> SubSeq(str, k, n), at |-> ends[n] + 3]
    BY <1>1, RestIs
  <2> DEFINE one == 1
  <2>2. one \in 1..(n + 1) /\ one - 1 = 0 /\ one + 1 = 2
    OBVIOUS
  <2> HIDE DEF one
  <2>3. RestsFrom(text, 1)[2 + ends[one - 1]] = [ok |-> TRUE, value |-> SubSeq(str, one, n), at |-> ends[n] + 3]
    BY <2>1, <2>2, Zenon
  <2>4. 2 + ends[one - 1] = 1 + 1
    BY <1>2, <2>2
  <2>5. RestsFrom(text, 1)[1 + 1] = [ok |-> TRUE, value |-> SubSeq(str, one, n), at |-> ends[n] + 3]
    BY <2>3, <2>4, Zenon
  <2> QED  BY <2>5, Zenon DEF one, all
<1>5. SubSeq(str, 1, n) = str /\ Len(str) = n
  <2>1. SubSeq(str, 1, n) = [i \in 1..(1 + n - 1) |-> str[1 + i - 1]]
    OBVIOUS
  <2>2. 1 + n - 1 = n /\ \A i \in 1..n : 1 + i - 1 = i
    OBVIOUS
  <2> QED  BY <2>1, <2>2
<1> HIDE DEF all
<1>6. all = [ok |-> TRUE, value |-> str, at |-> ends[n] + 3]
  BY <1>4, <1>5
<1>7. ParseString(text, 1, len) = StringFrom(text, 1, len)
  BY <1>3, ParseStringIs
<1>8. StringFrom(text, 1, len) = Shortened(all, len)
  <2>1. ~ (1 > Len(text) \/ text[1] # Quote)
    BY <1>2
  <2> QED  BY <2>1, Zenon DEF StringFrom, all
<1> DEFINE part == SubSeq(str, 1, IF Len(str) < len THEN Len(str) ELSE len - 1)
<1>9. Shortened(all, len) = [ok |-> TRUE, value |-> part, at |-> ends[n] + 3]
  <2>1. all.ok /\ all.value = str
    BY <1>6
  <2>2. Shortened(all, len) = [all EXCEPT !.value = part]
    BY <2>1, Zenon DEF Shortened
  <2> HIDE DEF part
  <2> QED  BY <1>6, <2>2
<1>10. ends[n] + 3 = Len(written) + 1
  BY <1>1, <1>2
<1> HIDE DEF part
<1>11. ParseString(text, 1, len) = [ok |-> TRUE, at |-> Len(written) + 1, value |-> part]
  BY <1>7, <1>8, <1>9, <1>10
<1> QED  BY <1>11, Zenon DEF StringComesBack, part, text, written

(* What ujson writes it reads back: strings of any length and any          *)
(* characters, integers of any width, whatever text follows that the       *)
(* reader could mistake for a part of them (UjsonComesBack).               *)
THEOREM UjsonReadsWhatItWrites == Spec => []UjsonComesBack
<1>1. ASSUME input \in StringCases  PROVE StringComesBack(input.str, input.len, input.after)
  <2>1. PICK n \in 0..MaxString :
          input \in [of : {"string"}, str : [1..n -> Alphabet], len : 1..(MaxString + 1), after : {<<>>, <<Quote>>}]
    BY <1>1 DEF StringCases
  <2>2. input.str \in [1..n -> Alphabet] /\ input.after \in {<<>>, <<Quote>>}
    BY <2>1, Zenon
  <2>3. n \in Nat
    OBVIOUS
  <2>4. Alphabet \subseteq 0..255 /\ <<>> \in Seq(Nat) /\ <<Quote>> \in Seq(Nat)
    BY DEF Alphabet, Quote, Backslash
  <2>5. input.str \in [1..n -> 0..255]
    BY <2>2, <2>4
  <2>6. input.after \in Seq(Nat)
    BY <2>2, <2>4
  <2> QED  BY <2>3, <2>5, <2>6, StringReturns
<1>2. ASSUME input \in IntegerCases  PROVE IntegerComesBack(input.value, input.after)
  <2>1. input.value \in -(2^(IntBits - 1))..(2^IntBits - 1) /\ input.after \in {<<>>, <<44>>, <<Minus, 49>>}
    BY <1>2 DEF IntegerCases
  <2>2. EndsNumber(input.after)
    <3>1. CASE input.after = <<>>
      BY <3>1 DEF EndsNumber
    <3>2. CASE input.after = <<44>>
      BY <3>2 DEF EndsNumber, Digits
    <3>3. CASE input.after = <<Minus, 49>>
      BY <3>3 DEF EndsNumber, Digits, Minus
    <3> QED  BY <2>1, <3>1, <3>2, <3>3
  <2> QED  BY <2>1, <2>2, IntegerReturns
<1>3. Init => UjsonComesBack
  <2> SUFFICES ASSUME Init  PROVE UjsonComesBack
    OBVIOUS
  <2>1. ASSUME input.of = "string"  PROVE input \in StringCases
    BY <2>1 DEF Init, TreeCases, TickCases, MemoryCases, FifoCases, IntegerCases
  <2>2. ASSUME input.of = "integer"  PROVE input \in IntegerCases
    BY <2>2 DEF Init, TreeCases, TickCases, MemoryCases, FifoCases, StringCases
  <2> QED  BY <1>1, <1>2, <2>1, <2>2 DEF UjsonComesBack
<1>4. UjsonComesBack /\ [Next]_input => UjsonComesBack'
  BY DEF UjsonComesBack, Next
<1> QED  BY <1>3, <1>4, PTL DEF Spec

=============================================================================
