------------------------ MODULE ReadsAndTransferProofs ------------------------
(***************************************************************************)
(* What leaves a vault: in the answers to those who read it, in a file, in *)
(* a copy.  The two components have no variable in common; both ask        *)
(* VaultReads whom a policy lets read what.                                *)
(*                                                                         *)
(* Retrieval, for any vaults that are forests, any requests and limits:    *)
(* what is answered is what the caller may read, as if there were nothing  *)
(* else, and within its budget.  Each answer is about a vault that does    *)
(* not change, or about the tree somebody left in the cache, and the       *)
(* proofs are about the operators that compute it.                         *)
(*                                                                         *)
(* That hidden nodes leave no trace is shown by comparing two vaults that  *)
(* differ in nodes hidden from a caller (Alike), read by read: a hidden    *)
(* node is no ancestor of one that may be read, so both have the same      *)
(* policies, order, neighbours and hits.  The budget is an invariant of    *)
(* the builder of a bundle (Builders), which every seed and every edge     *)
(* keeps; that its items may be read is part of its type.                  *)
(*                                                                         *)
(* Transfer, for any vaults, trees, texts and policies: what is imported   *)
(* is what was exported, what is copied is what was asked for, and neither *)
(* becomes more open.                                                      *)
(*                                                                         *)
(* An import is one step, and rests on what the tables keep (Sound) and on *)
(* the file being an export still (Held).  A copy is a walk, row by row,   *)
(* while others move, delete and protect; Going is what it keeps up to its *)
(* commit: what was loaded is one tree below the node asked for            *)
(* (IsTree), rows nobody has touched since are as they were when it began  *)
(* (IsAsItWas), and of these none below a loaded one is left behind        *)
(* (IsWalked). Most of the proof is about recursive definitions: the       *)
(* ancestors of a node are the least set that goes up with it              *)
(* (LineageIsLeast), which is how two stores' ancestors are compared; the  *)
(* export's queue is followed node by node (Walk) to show that it names    *)
(* each node under a root once, after its parent (ExportIsTheForest).      *)
(***************************************************************************)
EXTENDS Retrieval, Transfer, FiniteSetTheorems, SequenceTheorems, WellFoundedInduction, TLAPS

-----------------------------------------------------------------------------
(***************************************************************************)
(* Ancestors and policies, of a vault and of a store.                      *)
(***************************************************************************)
LEMMA Least ==
    ASSUME NEW T \in SUBSET Nat, T # {}
    PROVE  \E x \in T : \A y \in T : x <= y
<1>1. \E x \in T : \A y \in T : ~ (<<y, x>> \in OpToRel(<, Nat))
  BY NatLessThanWellFounded, WFMin
<1>2. \A x, y \in T : ~ (<<y, x>> \in OpToRel(<, Nat)) => x <= y
  <2> TAKE x, y \in T
  <2>1. x \in Nat /\ y \in Nat
    OBVIOUS
  <2>2. y < x => <<y, x>> \in OpToRel(<, Nat)
    BY <2>1 DEF OpToRel
  <2>3. x <= y \/ y < x
    BY <2>1
  <2> QED
    BY <2>2, <2>3, Zenon
<1> QED
  BY <1>1, <1>2

\* f is what next makes of x0 in j steps.
IsRun(f, j, X, x0, next) ==
    /\ f \in [0..j -> X] /\ f[0] = x0
    /\ \A k \in 1..j : f[k] = next[k][f[k - 1]]

LEMMA Iterates ==
    ASSUME NEW X, NEW x0 \in X, NEW next \in [Nat -> [X -> X]], NEW j \in Nat
    PROVE  \E f : IsRun(f, j, X, x0, next)
<1> DEFINE Bad == {i \in Nat : ~ \E f : IsRun(f, i, X, x0, next)}
<1>1. SUFFICES Bad = {}
  OBVIOUS
<1>2. SUFFICES ASSUME Bad # {} PROVE FALSE
  OBVIOUS
<1>3. PICK b \in Bad : \A i \in Bad : b <= i
  <2>1. Bad \in SUBSET Nat
    OBVIOUS
  <2> QED
    BY <1>2, <2>1, Least
<1>4. CASE b = 0
  <2>1. IsRun([k \in 0..0 |-> x0], 0, X, x0, next)
    BY DEF IsRun
  <2> QED
    BY <1>4, <2>1
<1>5. CASE b # 0
  <2>1. b - 1 \in Nat /\ b - 1 \notin Bad
    <3>1. b \in Nat
      BY <1>3
    <3> HIDE DEF Bad
    <3>2. b - 1 \in Nat /\ ~ (b <= b - 1)
      BY <3>1, <1>5
    <3> QED
      BY <3>2, <1>3
  <2>2. PICK f : IsRun(f, b - 1, X, x0, next)
    BY <2>1
  <2> DEFINE g == [k \in 0..b |-> IF k = b THEN next[b][f[b - 1]] ELSE f[k]]
  <2>3. f[b - 1] \in X /\ next[b] \in [X -> X]
    BY <2>1, <2>2 DEF IsRun
  <2>4. g \in [0..b -> X]
    BY <2>3, <2>2, <2>1 DEF IsRun
  <2>5. IsRun(g, b, X, x0, next)
    <3>1. g[0] = x0
      BY <2>2, <1>5, <2>1 DEF IsRun
    <3>2. ASSUME NEW k \in 1..b PROVE g[k] = next[k][g[k - 1]]
      <4>1. CASE k = b
        BY <4>1, <2>1
      <4>2. CASE k # b
        BY <4>2, <2>1, <2>2 DEF IsRun
      <4> QED
        BY <4>1, <4>2
    <3> HIDE DEF g
    <3> QED
      BY <3>1, <3>2, <2>4 DEF IsRun
  <2> HIDE DEF g
  <2> QED
    BY <2>5
<1> QED
  BY <1>4, <1>5

\* The sets Lineage is made of, one for each step up.
IsAscent(v, n, up) ==
    /\ up \in [0..N -> SUBSET Nodes] /\ up[0] = {n}
    /\ \A k \in 1..N : up[k] = up[k - 1] \cup ({v.parent[m] : m \in up[k - 1]} \ {NoNode})
    /\ Lineage(v, n) = up[N]

LEMMA LineageSteps ==
    ASSUME NEW v, v.parent \in [Nodes -> Nodes \cup {NoNode}], NEW n \in Nodes
    PROVE  \E up : IsAscent(v, n, up)
<1> DEFINE Higher(S) == S \cup ({v.parent[m] : m \in S} \ {NoNode})
           higher == [k \in Nat |-> [S \in SUBSET Nodes |-> Higher(S)]]
           Way(up) == up = [k \in 0..N |-> IF k = 0 THEN {n} ELSE Higher(up[k - 1])]
<1>1. \A S \in SUBSET Nodes : Higher(S) \in SUBSET Nodes
  OBVIOUS
<1>2. higher \in [Nat -> [SUBSET Nodes -> SUBSET Nodes]]
  BY <1>1
<1>3. PICK f \in [0..N -> SUBSET Nodes] :
         f[0] = {n} /\ \A k \in 1..N : f[k] = higher[k][f[k - 1]]
  <2> DEFINE X == SUBSET Nodes
             x0 == {n}
  <2>1. x0 \in X /\ higher \in [Nat -> [X -> X]] /\ N \in Nat
    BY <1>2, SizeAssumption
  <2> HIDE DEF higher, X, x0
  <2>2. \E f : IsRun(f, N, X, x0, higher)
    BY <2>1, Iterates
  <2> QED
    BY <2>2 DEF X, x0, IsRun
<1>4. \A k \in 1..N : f[k] = Higher(f[k - 1])
  <2> TAKE k \in 1..N
  <2>1. k \in Nat /\ k - 1 \in 0..N
    BY SizeAssumption
  <2>2. f[k - 1] \in SUBSET Nodes
    BY <2>1
  <2>3. higher[k][f[k - 1]] = Higher(f[k - 1])
    BY <2>1, <2>2
  <2> QED
    BY <1>3, <2>3
<1>5. Way(f)
  <2>1. ASSUME NEW k \in 0..N PROVE f[k] = IF k = 0 THEN {n} ELSE Higher(f[k - 1])
    <3>1. k # 0 => k \in 1..N
      BY SizeAssumption
    <3> HIDE DEF Higher
    <3> QED
      BY <1>3, <1>4, <3>1
  <2> HIDE DEF Higher
  <2>2. f = [k \in 0..N |-> f[k]]
    OBVIOUS
  <2> QED
    BY <2>1, <2>2
<1> DEFINE up == CHOOSE up : Way(up)
<1>6. Way(up)
  <2> HIDE DEF Way
  <2> QED
    BY <1>5
<1>7. Lineage(v, n) = up[N]
  BY Zenon DEF Lineage
<1> HIDE DEF up
<1>8. up[0] = {n} /\ \A k \in 1..N : up[k] = Higher(up[k - 1])
  <2>1. 0 \in 0..N /\ \A k \in 1..N : k \in 0..N /\ k # 0
    BY SizeAssumption
  <2> HIDE DEF Higher
  <2> QED
    BY <1>6, <2>1
<1>9. up \in [0..N -> SUBSET Nodes]
  <2> DEFINE Bad == {k \in 0..N : up[k] \notin SUBSET Nodes}
  <2>1. SUFFICES ASSUME Bad # {} PROVE FALSE
    <3>1. DOMAIN up = 0..N /\ up = [k \in DOMAIN up |-> up[k]]
      <4> HIDE DEF Higher
      <4> QED
        BY <1>6
    <3> QED
      BY <3>1
  <2>2. PICK b \in Bad : \A i \in Bad : b <= i
    <3>1. Bad \in SUBSET Nat
      BY SizeAssumption
    <3> QED
      BY <2>1, <3>1, Least
  <2>3. b # 0
    BY <1>8
  <2>4. b \in 1..N /\ b - 1 \in 0..N /\ b - 1 \notin Bad
    BY <2>2, <2>3, SizeAssumption
  <2>5. up[b - 1] \in SUBSET Nodes
    BY <2>4
  <2> QED
    <3>1. Higher(up[b - 1]) \in SUBSET Nodes
      <4> HIDE DEF Higher
      <4> QED
        BY <1>1, <2>5
    <3> QED
      BY <3>1, <1>8, <2>4
<1> QED
  BY <1>7, <1>8, <1>9 DEF IsAscent

\* With a node, its parent.
UpClosed(v, S) == \A m \in S : v.parent[m] # NoNode => v.parent[m] \in S

LEMMA LineageIsLeast ==
    ASSUME NEW v, v.parent \in [Nodes -> Nodes \cup {NoNode}], NEW n \in Nodes
    PROVE  /\ Lineage(v, n) \subseteq Nodes /\ n \in Lineage(v, n)
           /\ UpClosed(v, Lineage(v, n))
           /\ \A S : n \in S /\ UpClosed(v, S) => Lineage(v, n) \subseteq S
<1>0. PICK up : IsAscent(v, n, up)
  BY LineageSteps
<1>1. /\ up \in [0..N -> SUBSET Nodes] /\ up[0] = {n}
      /\ \A k \in 1..N : up[k] = up[k - 1] \cup ({v.parent[m] : m \in up[k - 1]} \ {NoNode})
      /\ Lineage(v, n) = up[N]
  BY <1>0 DEF IsAscent
<1>2. N \in Nat /\ N \in 0..N
  BY SizeAssumption
<1>3. \A k \in 0..N : n \in up[k]
  <2> DEFINE Bad == {k \in 0..N : n \notin up[k]}
  <2>1. SUFFICES ASSUME Bad # {} PROVE FALSE
    OBVIOUS
  <2>2. PICK b \in Bad : \A i \in Bad : b <= i
    <3>1. Bad \in SUBSET Nat
      BY <1>2
    <3> HIDE DEF Bad
    <3> QED
      BY <2>1, <3>1, Least
  <2>3. b \in 1..N /\ b - 1 \in 0..N /\ ~ (b <= b - 1)
    BY <1>1, <1>2
  <2>4. b - 1 \notin Bad
    <3> HIDE DEF Bad
    <3> QED
      BY <2>2, <2>3
  <2> QED
    BY <1>1, <2>3, <2>4
<1>4. UpClosed(v, up[N])
  <2> DEFINE Grown(k) == IsFiniteSet(up[k]) /\ Cardinality(up[k]) \in Nat /\ Cardinality(up[k]) > k
             Bad == {k \in 0..N : ~ (Grown(k) \/ UpClosed(v, up[k]))}
  <2>1. Bad = {}
    <3>1. SUFFICES ASSUME Bad # {} PROVE FALSE
      OBVIOUS
    <3>2. PICK b \in Bad : \A i \in Bad : b <= i
      <4>1. Bad \in SUBSET Nat
        BY <1>2
      <4> HIDE DEF Bad
      <4> QED
        BY <3>1, <4>1, Least
    <3>3. Grown(0)
      <4>1. IsFiniteSet({n}) /\ Cardinality({n}) = 1
        BY FS_Singleton
      <4> QED
        BY <4>1, <1>1
    <3>4. b \in 1..N /\ b - 1 \in 0..N /\ ~ (b <= b - 1)
      BY <1>2, <3>3
    <3>5. Grown(b - 1) \/ UpClosed(v, up[b - 1])
      <4>1. b - 1 \notin Bad
        <5> HIDE DEF Bad
        <5> QED
          BY <3>2, <3>4
      <4> HIDE DEF Grown
      <4> QED
        BY <4>1, <3>4
    <3>6. up[b] = up[b - 1] \cup ({v.parent[m] : m \in up[b - 1]} \ {NoNode})
      BY <1>1, <3>4
    <3>7. up[b] \in SUBSET Nodes /\ up[b - 1] \in SUBSET Nodes
      BY <1>1, <3>4, <1>2
    <3>8. CASE UpClosed(v, up[b - 1])
      <4>1. up[b] = up[b - 1]
        BY <3>6, <3>8 DEF UpClosed
      <4> QED
        BY <4>1, <3>8
    <3>9. CASE Grown(b - 1) /\ ~ UpClosed(v, up[b - 1])
      <4>1. IsFiniteSet(Nodes)
        BY <1>2, FS_Interval DEF Nodes
      <4>2. IsFiniteSet(up[b])
        BY <4>1, <3>7, FS_Subset
      <4>3. up[b - 1] \subseteq up[b] /\ up[b - 1] # up[b]
        BY <3>6, <3>9 DEF UpClosed
      <4>4. Cardinality(up[b - 1]) < Cardinality(up[b]) /\ Cardinality(up[b]) \in Nat
        BY <4>2, <4>3, FS_Subset, FS_CardinalityType
      <4>5. b \in Nat /\ Cardinality(up[b - 1]) \in Nat /\ Cardinality(up[b - 1]) > b - 1
        BY <3>9, <3>4, <1>2
      <4> QED
        BY <4>2, <4>4, <4>5
    <3> QED
      BY <3>5, <3>8, <3>9
  <2>2. ~ Grown(N)
    <3>1. IsFiniteSet(Nodes) /\ Cardinality(Nodes) = N
      BY <1>2, FS_Interval DEF Nodes
    <3>2. up[N] \subseteq Nodes
      BY <1>1, <1>2
    <3>3. Cardinality(up[N]) <= N
      BY <3>1, <3>2, FS_Subset
    <3> QED
      BY <3>3, <1>2
  <2> HIDE DEF Grown
  <2> QED
    BY <2>1, <2>2, <1>2
<1>5. ASSUME NEW S, n \in S, UpClosed(v, S) PROVE up[N] \subseteq S
  <2> DEFINE Bad == {k \in 0..N : ~ (up[k] \subseteq S)}
  <2>1. SUFFICES ASSUME Bad # {} PROVE FALSE
    BY <1>2
  <2>2. PICK b \in Bad : \A i \in Bad : b <= i
    <3>1. Bad \in SUBSET Nat
      BY <1>2
    <3> HIDE DEF Bad
    <3> QED
      BY <2>1, <3>1, Least
  <2>3. b \in 1..N /\ b - 1 \in 0..N /\ ~ (b <= b - 1)
    BY <1>1, <1>2, <1>5
  <2>4. b - 1 \notin Bad
    <3> HIDE DEF Bad
    <3> QED
      BY <2>2, <2>3
  <2>5. up[b - 1] \subseteq S
    BY <2>3, <2>4
  <2> QED
    BY <1>1, <1>5, <2>3, <2>5 DEF UpClosed
<1> QED
  BY <1>1, <1>2, <1>3, <1>4, <1>5

-----------------------------------------------------------------------------
Strongest(L) == CHOOSE l \in L : \A k \in L : k <= l

LEMMA StrongestIsMax ==
    ASSUME NEW L \in SUBSET (0..2), L # {}
    PROVE  Strongest(L) \in L /\ \A k \in L : k <= Strongest(L)
<1>1. \E l \in L : \A k \in L : k <= l
  <2>1. CASE 2 \in L
    BY <2>1
  <2>2. CASE 2 \notin L /\ 1 \in L
    BY <2>2
  <2>3. CASE 2 \notin L /\ 1 \notin L
    <3>1. \A k \in 0..2 : k = 0 \/ k = 1 \/ k = 2
      OBVIOUS
    <3>2. \A k \in L : k = 0 /\ 0 <= 0
      BY <2>3, <3>1
    <3> QED
      BY <3>2
  <2> QED
    BY <2>1, <2>2, <2>3
<1> QED
  BY <1>1 DEF Strongest

LEMMA PolicyIsStrongest ==
    ASSUME NEW v, v.parent \in [Nodes -> Nodes \cup {NoNode}],
           v.policy \in [Nodes -> Allow..Deny], NEW n \in Nodes
    PROVE  /\ EffectivePolicy(v, n).ai_read \in Allow..Deny
           /\ \E m \in Lineage(v, n) : v.policy[m] = EffectivePolicy(v, n).ai_read
           /\ \A m \in Lineage(v, n) : v.policy[m] <= EffectivePolicy(v, n).ai_read
<1> DEFINE L == {v.policy[m] : m \in Lineage(v, n)}
<1>1. Lineage(v, n) \subseteq Nodes /\ n \in Lineage(v, n)
  BY LineageIsLeast
<1>2. L \in SUBSET (0..2) /\ L # {}
  BY <1>1 DEF Allow, Deny
<1>3. EffectivePolicy(v, n).ai_read = Strongest(L)
  BY DEF EffectivePolicy, Strongest
<1>4. Strongest(L) \in L /\ \A k \in L : k <= Strongest(L)
  <2> HIDE DEF L
  <2> QED
    BY <1>2, StrongestIsMax
<1> QED
  BY <1>2, <1>3, <1>4 DEF Allow, Deny

-----------------------------------------------------------------------------
(***************************************************************************)
(* Retrieval: sequences, filtered and sorted.                              *)
(***************************************************************************)
LEMMA Upwards ==
    ASSUME NEW n \in Nat, NEW A, 0 \in A, \A k \in 1..n : k - 1 \in A => k \in A
    PROVE  \A k \in 0..n : k \in A
<1> DEFINE Bad == {k \in 0..n : k \notin A}
<1>1. SUFFICES ASSUME Bad # {} PROVE FALSE
  OBVIOUS
<1>2. PICK b \in Bad : \A i \in Bad : b <= i
  <2>1. Bad \in SUBSET Nat
    OBVIOUS
  <2> HIDE DEF Bad
  <2> QED
    BY <1>1, <2>1, Least
<1>3. b \in 1..n /\ b - 1 \in 0..n /\ ~ (b <= b - 1)
  OBVIOUS
<1>4. b - 1 \notin Bad
  <2> HIDE DEF Bad
  <2> QED
    BY <1>2, <1>3
<1> QED
  BY <1>3, <1>4

LEMMA Stays ==
    ASSUME NEW X, NEW n \in Nat, NEW f, f[0] \in X,
           \A k \in 1..n : f[k - 1] \in X => f[k] \in X
    PROVE  \A k \in 0..n : f[k] \in X
<1> DEFINE A == {k \in 0..n : f[k] \in X}
<1>1. 0 \in A /\ \A k \in 1..n : k - 1 \in A => k \in A
  OBVIOUS
<1> HIDE DEF A
<1>2. \A k \in 0..n : k \in A
  BY <1>1, Upwards
<1> QED
  BY <1>2 DEF A

\* The sequences Kept is made of, one for each entry.
IsSelection(q, S, X, upto) ==
    /\ upto \in [0..Len(q) -> Seq(X)] /\ upto[0] = <<>>
    /\ \A i \in 1..Len(q) :
          upto[i] = IF q[i] \in S THEN Append(upto[i - 1], q[i]) ELSE upto[i - 1]
    /\ Kept(q, S) = upto[Len(q)]

LEMMA KeptSteps ==
    ASSUME NEW X, NEW q \in Seq(X), NEW S
    PROVE  \E upto : IsSelection(q, S, X, upto)
<1> DEFINE n == Len(q)
           Step(i, s) == IF q[i] \in S THEN Append(s, q[i]) ELSE s
           next == [i \in Nat |-> [s \in Seq(X) |-> IF i \in 1..n THEN Step(i, s) ELSE s]]
           Way(upto) == upto = [i \in 0..n |-> IF i = 0 THEN <<>> ELSE Step(i, upto[i - 1])]
<1>1. n \in Nat /\ <<>> \in Seq(X)
  OBVIOUS
<1>2. \A i \in 1..n, s \in Seq(X) : Step(i, s) \in Seq(X)
  BY AppendProperties, ElementOfSeq
<1>3. next \in [Nat -> [Seq(X) -> Seq(X)]]
  <2> HIDE DEF Step, n
  <2> QED
    BY <1>2
<1>4. PICK f : IsRun(f, n, Seq(X), <<>>, next)
  <2> HIDE DEF next, n
  <2> QED
    BY <1>1, <1>3, Iterates
<1>5. f \in [0..n -> Seq(X)] /\ f[0] = <<>> /\ \A i \in 1..n : f[i] = Step(i, f[i - 1])
  <2> HIDE DEF Step
  <2>1. f \in [0..n -> Seq(X)] /\ f[0] = <<>> /\ \A i \in 1..n : f[i] = next[i][f[i - 1]]
    <3> HIDE DEF next, n
    <3> QED
      BY <1>4 DEF IsRun
  <2>2. ASSUME NEW i \in 1..n PROVE f[i] = Step(i, f[i - 1])
    <3>1. i \in Nat /\ i - 1 \in 0..n
      BY <1>1
    <3>2. f[i - 1] \in Seq(X)
      <4> HIDE DEF n
      <4> QED
        BY <2>1, <3>1
    <3> QED
      BY <2>1, <3>1, <3>2
  <2> QED
    BY <2>1, <2>2
<1>6. Way(f)
  <2>1. ASSUME NEW i \in 0..n PROVE f[i] = IF i = 0 THEN <<>> ELSE Step(i, f[i - 1])
    <3> HIDE DEF Step
    <3>1. i # 0 => i \in 1..n
      BY <1>1
    <3> QED
      BY <1>5, <3>1
  <2> HIDE DEF Step, n
  <2>2. f = [i \in 0..n |-> f[i]]
    BY <1>5
  <2> QED
    BY <2>1, <2>2
<1> DEFINE upto == CHOOSE upto : Way(upto)
<1>7. Way(upto)
  <2> HIDE DEF Way
  <2> QED
    BY <1>6
<1>8. Kept(q, S) = upto[n]
  BY Zenon DEF Kept
<1> HIDE DEF upto
<1>9. DOMAIN upto = 0..n /\ upto[0] = <<>> /\ \A i \in 1..n : upto[i] = Step(i, upto[i - 1])
  <2>1. 0 \in 0..n /\ \A i \in 1..n : i \in 0..n /\ i # 0
    BY <1>1
  <2> HIDE DEF Step, n
  <2> QED
    BY <1>7, <2>1
<1>10. \A i \in 0..n : upto[i] \in Seq(X)
  <2> DEFINE Y == Seq(X)
  <2>1. \A i \in 1..n : upto[i - 1] \in Y => upto[i] \in Y
    <3> HIDE DEF Step, n
    <3> QED
      BY <1>2, <1>9
  <2>2. upto[0] \in Y
    BY <1>1, <1>9
  <2> HIDE DEF Y, n, Step
  <2>3. \A i \in 0..n : upto[i] \in Y
    BY <1>1, <2>1, <2>2, Stays
  <2> QED
    BY <2>3 DEF Y
<1>11. upto \in [0..n -> Seq(X)]
  <2> HIDE DEF Step
  <2>1. upto = [i \in DOMAIN upto |-> upto[i]]
    BY <1>7
  <2> HIDE DEF n
  <2> QED
    BY <2>1, <1>9, <1>10
<1> QED
  BY <1>8, <1>9, <1>11 DEF IsSelection

LEMMA KeptOfNone == \A S : Kept(<<>>, S) = <<>>
<1> TAKE S
<1>1. <<>> \in Seq({}) /\ Len(<<>>) = 0
  OBVIOUS
<1>2. PICK upto : IsSelection(<<>>, S, {}, upto)
  BY <1>1, KeptSteps
<1> QED
  BY <1>1, <1>2 DEF IsSelection

LEMMA KeptOfAppend ==
    ASSUME NEW X, NEW q \in Seq(X), NEW x \in X, NEW S
    PROVE  Kept(Append(q, x), S) = IF x \in S THEN Append(Kept(q, S), x) ELSE Kept(q, S)
<1> DEFINE p == Append(q, x)
           n == Len(q)
<1>1. p \in Seq(X) /\ Len(p) = n + 1 /\ p[n + 1] = x /\ \A i \in 1..n : p[i] = q[i]
  BY AppendProperties
<1>2. n \in Nat
  OBVIOUS
<1> HIDE DEF p
<1>3. PICK f : IsSelection(q, S, X, f)
  BY KeptSteps
<1>4. PICK g : IsSelection(p, S, X, g)
  BY <1>1, KeptSteps
<1> HIDE DEF n
<1> DEFINE Same == {i \in 0..n : f[i] = g[i]}
<1>5. \A i \in 0..n : f[i] = g[i]
  <2>1. 0 \in Same
    BY <1>2, <1>3, <1>4 DEF IsSelection
  <2>2. ASSUME NEW i \in 1..n, i - 1 \in Same PROVE i \in Same
    <3>1. i \in 0..n /\ i - 1 \in 0..n /\ i \in 1..n + 1
      BY <1>2
    <3>2. f[i - 1] = g[i - 1]
      BY <2>2, <3>1
    <3>3. f[i] = IF q[i] \in S THEN Append(f[i - 1], q[i]) ELSE f[i - 1]
      BY <1>3 DEF IsSelection, n
    <3>4. g[i] = IF p[i] \in S THEN Append(g[i - 1], p[i]) ELSE g[i - 1]
      BY <1>1, <1>4, <3>1 DEF IsSelection
    <3>5. f[i] = g[i]
      BY <1>1, <3>2, <3>3, <3>4
    <3> QED
      BY <3>1, <3>5
  <2> HIDE DEF Same
  <2>3. \A i \in 0..n : i \in Same
    BY <1>2, <2>1, <2>2, Upwards
  <2> QED
    BY <2>3 DEF Same
<1>6. Kept(q, S) = g[n]
  BY <1>2, <1>3, <1>5 DEF IsSelection, n
<1>7. Kept(p, S) = g[n + 1] /\ g[n + 1] = IF x \in S THEN Append(g[n], x) ELSE g[n]
  <2>1. n + 1 \in 1..Len(p) /\ (n + 1) - 1 = n
    BY <1>1, <1>2
  <2> QED
    BY <1>1, <1>4, <2>1 DEF IsSelection
<1> QED
  BY <1>6, <1>7 DEF p

LEMMA KeptTwice ==
    ASSUME NEW X, NEW q \in Seq(X), NEW S, NEW R
    PROVE  Kept(Kept(q, S), R) = Kept(q, S \cap R)
<1> DEFINE n == Len(q)
<1>1. PICK f : IsSelection(q, S, X, f)
  BY KeptSteps
<1>2. PICK g : IsSelection(q, S \cap R, X, g)
  BY KeptSteps
<1>3. n \in Nat /\ \A i \in 1..n : q[i] \in X
  BY ElementOfSeq
<1> DEFINE Same == {i \in 0..n : Kept(f[i], R) = g[i]}
<1>4. 0 \in Same
  BY <1>1, <1>2, <1>3, KeptOfNone DEF IsSelection
<1>5. ASSUME NEW i \in 1..n, i - 1 \in Same PROVE i \in Same
  <2>1. i \in 0..n /\ i - 1 \in 0..n
    BY <1>3
  <2>2. Kept(f[i - 1], R) = g[i - 1]
    BY <1>5, <2>1
  <2>3. f[i - 1] \in Seq(X)
    BY <1>1, <2>1 DEF IsSelection
  <2>4. f[i] = IF q[i] \in S THEN Append(f[i - 1], q[i]) ELSE f[i - 1]
    BY <1>1 DEF IsSelection
  <2>5. g[i] = IF q[i] \in S \cap R THEN Append(g[i - 1], q[i]) ELSE g[i - 1]
    BY <1>2 DEF IsSelection
  <2>6. Kept(Append(f[i - 1], q[i]), R)
           = IF q[i] \in R THEN Append(Kept(f[i - 1], R), q[i]) ELSE Kept(f[i - 1], R)
    <3> DEFINE p == f[i - 1]
               y == q[i]
    <3>1. p \in Seq(X) /\ y \in X
      BY <1>3, <2>3
    <3> HIDE DEF p, y, n
    <3>2. Kept(Append(p, y), R) = IF y \in R THEN Append(Kept(p, R), y) ELSE Kept(p, R)
      BY <3>1, KeptOfAppend
    <3> QED
      BY <3>2 DEF p, y
  <2> HIDE DEF n
  <2>7. Kept(f[i], R) = g[i]
    BY <2>2, <2>4, <2>5, <2>6
  <2> QED
    BY <2>1, <2>7
<1> HIDE DEF Same, n
<1>6. \A i \in 0..n : i \in Same
  BY <1>3, <1>4, <1>5, Upwards
<1>7. Kept(f[n], R) = g[n]
  BY <1>3, <1>6 DEF Same
<1> QED
  BY <1>1, <1>2, <1>7 DEF IsSelection, n

LEMMA KeptRange ==
    ASSUME NEW X, NEW q \in Seq(X), NEW S
    PROVE  Kept(q, S) \in Seq(X \cap S) /\ Range(Kept(q, S)) = Range(q) \cap S
<1> DEFINE n == Len(q)
<1>1. PICK f : IsSelection(q, S, X, f)
  BY KeptSteps
<1>2. n \in Nat /\ \A i \in 1..n : q[i] \in X
  BY ElementOfSeq
<1> DEFINE Fit == {i \in 0..n : /\ f[i] \in Seq(X \cap S)
                                /\ Range(f[i]) = {q[j] : j \in 1..i} \cap S}
<1>3. 0 \in Fit
  <2>1. f[0] = <<>> /\ 0 \in 0..n
    BY <1>1, <1>2 DEF IsSelection
  <2>2. <<>> \in Seq(X \cap S) /\ Range(<<>>) = {}
    BY DEF Range
  <2>3. {q[j] : j \in 1..0} = {}
    OBVIOUS
  <2> QED
    BY <2>1, <2>2, <2>3
<1>4. ASSUME NEW i \in 1..n, i - 1 \in Fit PROVE i \in Fit
  <2>1. i \in 0..n /\ i - 1 \in 0..n
    BY <1>2
  <2>2. f[i - 1] \in Seq(X \cap S) /\ Range(f[i - 1]) = {q[j] : j \in 1..(i - 1)} \cap S
    BY <1>4, <2>1
  <2>3. f[i] = IF q[i] \in S THEN Append(f[i - 1], q[i]) ELSE f[i - 1]
    BY <1>1 DEF IsSelection
  <2>4. {q[j] : j \in 1..i} = {q[j] : j \in 1..(i - 1)} \cup {q[i]}
    <3>1. 1..i = 1..(i - 1) \cup {i}
      BY <1>2
    <3> HIDE DEF n
    <3> QED
      BY <3>1
  <2> HIDE DEF n
  <2>5. CASE q[i] \in S
    <3>1. q[i] \in X \cap S
      BY <1>2, <2>5
    <3>2. Append(f[i - 1], q[i]) = f[i - 1] \o <<q[i]>> /\ Append(f[i - 1], q[i]) \in Seq(X \cap S)
      BY <2>2, <3>1, AppendIsConcat, AppendProperties
    <3>3. Range(f[i - 1] \o <<q[i]>>) = Range(f[i - 1]) \cup Range(<<q[i]>>)
      <4> DEFINE T == X \cap S
                 s1 == f[i - 1]
                 s2 == <<q[i]>>
      <4>1. s1 \in Seq(T) /\ s2 \in Seq(T)
        BY <2>2, <3>1
      <4> HIDE DEF T, s1, s2
      <4>2. Range(s1 \o s2) = Range(s1) \cup Range(s2)
        BY <4>1, RangeConcatenation
      <4> QED
        BY <4>2 DEF s1, s2
    <3>4. Range(<<q[i]>>) = {q[i]}
      BY DEF Range
    <3>5. f[i] \in Seq(X \cap S) /\ Range(f[i]) = {q[j] : j \in 1..i} \cap S
      BY <2>2, <2>3, <2>4, <2>5, <3>2, <3>3, <3>4
    <3> QED
      BY <2>1, <3>5
  <2>6. CASE q[i] \notin S
    <3>1. f[i] \in Seq(X \cap S) /\ Range(f[i]) = {q[j] : j \in 1..i} \cap S
      BY <2>2, <2>3, <2>4, <2>6
    <3> QED
      BY <2>1, <3>1
  <2> QED
    BY <2>5, <2>6
<1> HIDE DEF Fit
<1>5. \A i \in 0..n : i \in Fit
  <2> HIDE DEF n
  <2> QED
    BY <1>2, <1>3, <1>4, Upwards
<1>6. f[n] \in Seq(X \cap S) /\ Range(f[n]) = {q[j] : j \in 1..n} \cap S
  <2> HIDE DEF n
  <2>1. n \in Fit
    BY <1>2, <1>5
  <2> QED
    BY <2>1 DEF Fit
<1>7. Range(q) = {q[j] : j \in 1..n}
  BY RangeEquality
<1> QED
  BY <1>1, <1>6, <1>7 DEF IsSelection
-----------------------------------------------------------------------------
LEMMA SortedAll ==
    ASSUME NEW key \in [Nodes -> Nat]
    PROVE  Sorted(key) \in Seq(Nodes) /\ Range(Sorted(key)) = Nodes
<1> DEFINE Before(n) == {m \in Nodes : key[m] < key[n] \/ (key[m] = key[n] /\ m < n)}
           rank == [n \in Nodes |-> Cardinality(Before(n))]
           order == [i \in Nodes |-> CHOOSE n \in Nodes : Cardinality(Before(n)) = i - 1]
<1>1. N \in Nat /\ IsFiniteSet(Nodes) /\ Cardinality(Nodes) = N /\ Nodes \in SUBSET Nat
  BY SizeAssumption, FS_Interval DEF Nodes
<1>2. ASSUME NEW n \in Nodes
      PROVE  IsFiniteSet(Before(n)) /\ Cardinality(Before(n)) \in 0..(N - 1)
  <2>1. n \notin Before(n) /\ Before(n) \in SUBSET (Nodes \ {n})
    <3>1. key[n] \in Nat /\ n \in Nat
      BY <1>1
    <3> QED
      BY <3>1
  <2>2. IsFiniteSet(Nodes \ {n}) /\ Cardinality(Nodes \ {n}) = N - 1
    BY <1>1, FS_RemoveElement
  <2> HIDE DEF Before
  <2>3. IsFiniteSet(Before(n)) /\ Cardinality(Before(n)) <= N - 1 /\ Cardinality(Before(n)) \in Nat
    BY <2>1, <2>2, FS_Subset, FS_CardinalityType
  <2> QED
    BY <1>1, <2>3
<1>3. ASSUME NEW a \in Nodes, NEW b \in Nodes, a \in Before(b)
      PROVE  Cardinality(Before(a)) < Cardinality(Before(b))
  <2>1. \A m \in Nodes : m \in Nat /\ key[m] \in Nat
    BY <1>1
  <2>2. Before(a) \subseteq Before(b) /\ a \notin Before(a)
    BY <1>3, <2>1
  <2> HIDE DEF Before
  <2>3. Before(a) # Before(b) /\ Before(a) \in SUBSET Before(b)
    BY <1>3, <2>2
  <2>4. Cardinality(Before(a)) <= Cardinality(Before(b)) /\ Cardinality(Before(a)) # Cardinality(Before(b))
    BY <1>2, <2>3, FS_Subset
  <2> QED
    BY <1>2, <2>4
<1>4. \A a, b \in Nodes : a # b => a \in Before(b) \/ b \in Before(a)
  <2>1. \A m \in Nodes : m \in Nat /\ key[m] \in Nat
    BY <1>1
  <2> QED
    BY <2>1
<1> HIDE DEF Before
<1>5. \A a, b \in Nodes : rank[a] = rank[b] => a = b
  BY <1>2, <1>3, <1>4
<1>6. rank \in Injection(Nodes, 0..(N - 1))
  BY <1>2, <1>5 DEF Injection, IsInjective
<1>7. rank \in Surjection(Nodes, 0..(N - 1))
  <2>1. IsFiniteSet(0..(N - 1)) /\ Cardinality(0..(N - 1)) = N
    <3>1. 0 \in Int /\ N - 1 \in Int
      BY <1>1
    <3>2. IsFiniteSet(0..(N - 1))
          /\ Cardinality(0..(N - 1)) = IF 0 > N - 1 THEN 0 ELSE (N - 1) - 0 + 1
      BY <3>1, FS_Interval
    <3> QED
      BY <1>1, <3>2
  <2> HIDE DEF rank
  <2> QED
    BY <1>1, <1>6, <2>1, FS_Injection
<1>8. \A i \in Nodes : order[i] \in Nodes /\ rank[order[i]] = i - 1
  <2> TAKE i \in Nodes
  <2>1. i - 1 \in 0..(N - 1)
    BY <1>1 DEF Nodes
  <2>2. \E n \in Nodes : rank[n] = i - 1
    <3> HIDE DEF rank
    <3> QED
      BY <1>7, <2>1 DEF Surjection
  <2>3. \E n \in Nodes : Cardinality(Before(n)) = i - 1
    BY <2>2
  <2>4. order[i] \in Nodes /\ Cardinality(Before(order[i])) = i - 1
    BY <2>3
  <2> QED
    BY <2>4
<1>9. \A n \in Nodes : \E i \in Nodes : order[i] = n
  <2> TAKE n \in Nodes
  <2>1. rank[n] \in 0..(N - 1)
    BY <1>2
  <2>2. rank[n] + 1 \in Nodes /\ (rank[n] + 1) - 1 = rank[n]
    <3> HIDE DEF rank
    <3> QED
      BY <1>1, <2>1 DEF Nodes
  <2> HIDE DEF rank, order
  <2>3. rank[order[rank[n] + 1]] = rank[n] /\ order[rank[n] + 1] \in Nodes
    BY <1>8, <2>2
  <2> QED
    BY <1>5, <2>2, <2>3
<1>10. Sorted(key) = order
  BY DEF Sorted, Before
<1>11. order \in [1..N -> Nodes] /\ DOMAIN order = Nodes
  <2>1. DOMAIN order = Nodes /\ order = [i \in Nodes |-> order[i]]
    OBVIOUS
  <2> HIDE DEF order
  <2> QED
    BY <1>8, <2>1 DEF Nodes
<1> HIDE DEF order
<1>12. order \in Seq(Nodes)
  BY <1>1, <1>11
<1>13. Range(order) = Nodes
  <2>1. Range(order) = {order[i] : i \in Nodes}
    BY <1>11 DEF Range
  <2> QED
    BY <1>8, <1>9, <2>1, ZenonT(60)
<1> QED
  BY <1>10, <1>12, <1>13

LEMMA InOrderAll ==
    ASSUME NEW S \in SUBSET Nodes, NEW key \in [Nodes -> Nat]
    PROVE  /\ InOrder(S, key) \in Seq(S) /\ Range(InOrder(S, key)) = S
           /\ \A R : Kept(InOrder(S, key), R) = InOrder(S \cap R, key)
<1> DEFINE q == Sorted(key)
<1>1. q \in Seq(Nodes) /\ Range(q) = Nodes
  BY SortedAll
<1>2. InOrder(S, key) = Kept(q, S) /\ \A R : InOrder(S \cap R, key) = Kept(q, S \cap R)
  BY DEF InOrder
<1> HIDE DEF q
<1>3. Kept(q, S) \in Seq(Nodes \cap S) /\ Range(Kept(q, S)) = Nodes \cap S
  BY <1>1, KeptRange
<1>4. Nodes \cap S = S
  OBVIOUS
<1>5. \A R : Kept(Kept(q, S), R) = Kept(q, S \cap R)
  BY <1>1, KeptTwice
<1> QED
  BY <1>2, <1>3, <1>4, <1>5

-----------------------------------------------------------------------------
LEMMA Flattened ==
    ASSUME NEW X, NEW seqs \in Seq(Seq(X))
    PROVE  FlattenSeq(seqs) \in Seq(X)
<1> DEFINE n == Len(seqs)
           next == [i \in Nat |-> [s \in Seq(X) |-> IF i \in 1..n /\ i # 1 THEN s \o seqs[i]
                                                    ELSE IF i = 1 /\ n # 0 THEN seqs[1] ELSE s]]
           Way(flatten) ==
               flatten = [i \in 1..n |-> IF i = 1 THEN seqs[i] ELSE flatten[i - 1] \o seqs[i]]
<1>1. n \in Nat /\ <<>> \in Seq(X) /\ \A i \in 1..n : seqs[i] \in Seq(X)
  BY ElementOfSeq
<1>2. CASE n = 0
  <2>1. seqs = <<>>
    BY <1>2
  <2> QED
    BY <1>1, <1>2, <2>1 DEF FlattenSeq
<1>3. CASE n # 0
  <2>1. next \in [Nat -> [Seq(X) -> Seq(X)]]
    <3> HIDE DEF n
    <3>1. \A i \in 1..n, s \in Seq(X) : s \o seqs[i] \in Seq(X)
      BY <1>1, ConcatProperties
    <3>2. 1 \in 1..n
      BY <1>1, <1>3
    <3> QED
      BY <1>1, <3>1, <3>2
  <2>2. PICK f : IsRun(f, n, Seq(X), <<>>, next)
    <3> HIDE DEF next, n
    <3> QED
      BY <1>1, <2>1, Iterates
  <2>3. /\ f \in [0..n -> Seq(X)]
        /\ \A i \in 1..n : f[i] = IF i = 1 THEN seqs[i] ELSE f[i - 1] \o seqs[i]
    <3>1. f \in [0..n -> Seq(X)] /\ \A i \in 1..n : f[i] = next[i][f[i - 1]]
      <4> HIDE DEF next, n
      <4> QED
        BY <2>2 DEF IsRun
    <3>2. ASSUME NEW i \in 1..n
          PROVE  f[i] = IF i = 1 THEN seqs[i] ELSE f[i - 1] \o seqs[i]
      <4>1. i \in Nat /\ i - 1 \in 0..n
        BY <1>1
      <4>2. f[i - 1] \in Seq(X)
        <5> HIDE DEF n
        <5> QED
          BY <3>1, <4>1
      <4> QED
        BY <1>3, <3>1, <4>1, <4>2
    <3> QED
      BY <3>1, <3>2
  <2> DEFINE g == [i \in 1..n |-> f[i]]
  <2>4. Way(g)
    <3>1. ASSUME NEW i \in 1..n PROVE g[i] = IF i = 1 THEN seqs[i] ELSE g[i - 1] \o seqs[i]
      <4>1. i # 1 => i - 1 \in 1..n
        BY <1>1
      <4> HIDE DEF n
      <4> QED
        BY <2>3, <4>1
    <3>2. g = [i \in 1..n |-> g[i]]
      OBVIOUS
    <3> HIDE DEF g, n
    <3> QED
      BY <3>1, <3>2
  <2> DEFINE flatten == CHOOSE flatten : Way(flatten)
  <2>5. Way(flatten)
    <3> HIDE DEF Way
    <3> QED
      BY <2>4
  <2>6. FlattenSeq(seqs) = flatten[n]
    BY <1>3, Zenon DEF FlattenSeq
  <2> HIDE DEF flatten
  <2> DEFINE h == [i \in 0..n |-> IF i = 0 THEN <<>> ELSE flatten[i]]
  <2>7. \A i \in 1..n : flatten[i] = IF i = 1 THEN seqs[i] ELSE flatten[i - 1] \o seqs[i]
    <3> HIDE DEF n
    <3> QED
      BY <2>5
  <2>8. h[0] \in Seq(X) /\ \A i \in 1..n : h[i - 1] \in Seq(X) => h[i] \in Seq(X)
    <3>1. h[0] = <<>>
      BY <1>1
    <3>2. ASSUME NEW i \in 1..n, h[i - 1] \in Seq(X) PROVE h[i] \in Seq(X)
      <4>1. i \in 0..n /\ i # 0 /\ h[i] = flatten[i] /\ seqs[i] \in Seq(X)
        BY <1>1
      <4>2. i # 1 => h[i - 1] = flatten[i - 1]
        BY <1>1
      <4> HIDE DEF h, n
      <4>3. CASE i = 1
        BY <2>7, <4>1, <4>3
      <4>4. CASE i # 1
        <5>1. flatten[i - 1] \in Seq(X)
          BY <3>2, <4>2, <4>4
        <5>2. flatten[i - 1] \o seqs[i] \in Seq(X)
          BY <4>1, <5>1, ConcatProperties
        <5> QED
          BY <2>7, <4>1, <4>4, <5>2
      <4> QED
        BY <4>3, <4>4
    <3> HIDE DEF h
    <3> QED
      BY <1>1, <3>1, <3>2
  <2>9. h[n] \in Seq(X)
    <3> DEFINE Y == Seq(X)
    <3>0. h[0] \in Y /\ \A i \in 1..n : h[i - 1] \in Y => h[i] \in Y
      BY <2>8
    <3> HIDE DEF h, Y, n
    <3>1. \A i \in 0..n : h[i] \in Y
      BY <1>1, <3>0, Stays
    <3> QED
      BY <1>1, <3>1 DEF Y
  <2>10. h[n] = flatten[n]
    BY <1>1, <1>3
  <2> QED
    BY <2>6, <2>9, <2>10
<1> QED
  BY <1>2, <1>3
-----------------------------------------------------------------------------
\* What VaultsAssumption says of a vault.
Found(v) ==
    /\ v \in VaultType
    /\ \A n \in v.nodes : v.parent[n] # NoNode =>
          v.parent[n] \in v.nodes /\ n \notin Lineage(v, v.parent[n])

LEMMA FoundFields ==
    ASSUME NEW v, Found(v)
    PROVE  /\ v.nodes \in SUBSET Nodes /\ v.parent \in [Nodes -> Nodes \cup {NoNode}]
           /\ v.policy \in [Nodes -> Allow..Deny] /\ v.title \in [Nodes -> Nat]
           /\ v.text \in [Nodes -> Seq(Marks)] /\ v.versions \in [Nodes -> Nat]
           /\ v.size \in [Nodes -> Nat]
  BY DEF Found, VaultType, Titles

LEMMA ReadableLevels ==
    ASSUME NEW v, Found(v), NEW w \in Viewers, NEW n \in Nodes
    PROVE  /\ EffectivePolicy(v, n).ai_read \in 0..2
           /\ Readable(v, w, n) <=>
                 (w.ai => EffectivePolicy(v, n).ai_read <= IF w.quarantined THEN 1 ELSE 0)
<1>1. EffectivePolicy(v, n).ai_read \in 0..2
  BY FoundFields, PolicyIsStrongest DEF Allow, Deny
<1> DEFINE l == EffectivePolicy(v, n).ai_read
<1>2. w.ai \in BOOLEAN /\ w.quarantined \in BOOLEAN
  BY DEF Viewers
<1>3. l \in {0} \cup (IF w.quarantined THEN {1} ELSE {}) <=> l <= IF w.quarantined THEN 1 ELSE 0
  <2>1. l \in 0..2
    BY <1>1
  <2> HIDE DEF l
  <2> QED
    BY <1>2, <2>1
<1>4. Readable(v, w, n) <=> (w.ai => l \in {0} \cup (IF w.quarantined THEN {1} ELSE {}))
  BY DEF Readable, Allow, ExplicitOnly
<1> QED
  BY <1>1, <1>3, <1>4

\* Whoever may read a node may read what it hangs on.
LEMMA ReadableUp ==
    ASSUME NEW v, Found(v), NEW w \in Viewers, NEW n \in Nodes, Readable(v, w, n),
           v.parent[n] # NoNode
    PROVE  Readable(v, w, v.parent[n]) /\ Lineage(v, v.parent[n]) \subseteq Lineage(v, n)
<1> DEFINE p == v.parent[n]
<1>1. p \in Nodes /\ n \in Nodes
  BY FoundFields
<1>2. Lineage(v, p) \subseteq Lineage(v, n)
  <2>1. n \in Lineage(v, n) /\ UpClosed(v, Lineage(v, n))
    BY FoundFields, LineageIsLeast
  <2>2. p \in Lineage(v, n)
    BY <2>1 DEF UpClosed
  <2> HIDE DEF p
  <2> QED
    BY <1>1, <2>1, <2>2, FoundFields, LineageIsLeast
<1> HIDE DEF p
<1>3. EffectivePolicy(v, p).ai_read <= EffectivePolicy(v, n).ai_read
  <2>1. PICK m \in Lineage(v, p) : v.policy[m] = EffectivePolicy(v, p).ai_read
    BY <1>1, FoundFields, PolicyIsStrongest
  <2>2. m \in Lineage(v, n)
    BY <1>2
  <2> QED
    BY <2>1, <2>2, FoundFields, PolicyIsStrongest
<1>4. EffectivePolicy(v, p).ai_read \in 0..2 /\ EffectivePolicy(v, n).ai_read \in 0..2
  BY <1>1, ReadableLevels
<1>5. Readable(v, w, p)
  <2> DEFINE top == IF w.quarantined THEN 1 ELSE 0
  <2>1. Readable(v, w, n) => (w.ai => EffectivePolicy(v, n).ai_read <= top)
    BY ReadableLevels
  <2>2. (w.ai => EffectivePolicy(v, p).ai_read <= top) => Readable(v, w, p)
    BY <1>1, ReadableLevels
  <2>3. top \in Nat
    OBVIOUS
  <2> HIDE DEF top
  <2> QED
    BY <1>3, <1>4, <2>1, <2>2, <2>3
<1> QED
  BY <1>2, <1>5 DEF p

-----------------------------------------------------------------------------
Roots(v) == {n \in v.nodes : v.parent[n] \notin v.nodes}

LEMMA TreeFields ==
    ASSUME NEW v, Found(v)
    PROVE  LET t == BuildTree(v)
           IN  /\ t.nodes = v.nodes
               /\ t.roots = InOrder(Roots(v), v.title) /\ Range(t.roots) = Roots(v)
               /\ \A n \in v.nodes :
                     /\ t.children[n] = InOrder(Children(v, n), v.title)
                     /\ Range(t.children[n]) = Children(v, n)
                     /\ t.entry[n] = [title |-> v.title[n], parent_id |-> v.parent[n],
                                      policy |-> EffectivePolicy(v, n)]
<1>1. Roots(v) \in SUBSET Nodes /\ \A n : Children(v, n) \in SUBSET Nodes
  BY FoundFields DEF Roots, Children
<1>2. v.title \in [Nodes -> Nat]
  BY FoundFields
<1>3. /\ Range(InOrder(Roots(v), v.title)) = Roots(v)
      /\ \A n : Range(InOrder(Children(v, n), v.title)) = Children(v, n)
  BY <1>1, <1>2, InOrderAll
<1> QED
  BY <1>3 DEF BuildTree, ByTitle, Roots

\* The ways down VisibleTree takes, step by step.
Shown(t, w, n) ==
    \/ t.entry[n].policy.ai_read = Allow
    \/ t.entry[n].policy.ai_read = ExplicitOnly /\ w.quarantined

Deeper(t, w, S) ==
    S \cup {n \in t.nodes : Shown(t, w, n) /\ \E m \in S : n \in Range(t.children[m])}

IsDescent(t, w, reached) ==
    reached = [k \in 0..N |-> IF k = 0 THEN {n \in Range(t.roots) : Shown(t, w, n)}
                              ELSE Deeper(t, w, reached[k - 1])]

LEMMA VisibleTreeDef ==
    ASSUME NEW t, NEW w
    PROVE  VisibleTree(t, w) =
             LET kept == (CHOOSE reached : IsDescent(t, w, reached))[N]
             IN  IF ~w.ai THEN t
                 ELSE [nodes    |-> kept,
                       roots    |-> Kept(t.roots, kept),
                       children |-> [n \in kept |-> Kept(t.children[n], kept)],
                       entry    |-> [n \in kept |-> t.entry[n]]]
  BY Zenon DEF VisibleTree, IsDescent, Deeper, Shown

\* They end where nothing more is shown.
LEMMA DescentEnds ==
    ASSUME NEW t, NEW w, t.nodes \in SUBSET Nodes, Range(t.roots) \in SUBSET t.nodes
    PROVE  LET kept == (CHOOSE reached : IsDescent(t, w, reached))[N]
           IN  /\ kept \subseteq {n \in t.nodes : Shown(t, w, n)}
               /\ {n \in Range(t.roots) : Shown(t, w, n)} \subseteq kept
               /\ Deeper(t, w, kept) = kept
<1> DEFINE D == {n \in t.nodes : Shown(t, w, n)}
           Top == {n \in Range(t.roots) : Shown(t, w, n)}
           next == [k \in Nat |-> [S \in SUBSET D |-> Deeper(t, w, S)]]
           reached == CHOOSE reached : IsDescent(t, w, reached)
<1>1. N \in Nat /\ Top \in SUBSET D /\ D \in SUBSET Nodes
  BY SizeAssumption
<1>2. \A S \in SUBSET D : Deeper(t, w, S) \in SUBSET D
  BY DEF Deeper
<1>3. IsDescent(t, w, reached)
  <2>1. next \in [Nat -> [SUBSET D -> SUBSET D]]
    <3> HIDE DEF D
    <3> QED
      BY <1>2
  <2>2. PICK f : IsRun(f, N, SUBSET D, Top, next)
    <3> DEFINE X == SUBSET D
    <3>1. next \in [Nat -> [X -> X]] /\ Top \in X
      BY <1>1, <2>1
    <3> HIDE DEF next, Top, X
    <3>2. \E f : IsRun(f, N, X, Top, next)
      BY <1>1, <3>1, Iterates
    <3> QED
      BY <3>2 DEF X
  <2>3. f \in [0..N -> SUBSET D] /\ f[0] = Top /\ \A k \in 1..N : f[k] = Deeper(t, w, f[k - 1])
    <3>1. f \in [0..N -> SUBSET D] /\ f[0] = Top /\ \A k \in 1..N : f[k] = next[k][f[k - 1]]
      <4> HIDE DEF next, D, Top
      <4> QED
        BY <2>2 DEF IsRun
    <3>2. ASSUME NEW k \in 1..N PROVE f[k] = Deeper(t, w, f[k - 1])
      <4>1. k \in Nat /\ k - 1 \in 0..N
        BY <1>1
      <4>2. f[k - 1] \in SUBSET D
        <5> HIDE DEF D
        <5> QED
          BY <3>1, <4>1
      <4> HIDE DEF D
      <4> QED
        BY <3>1, <4>1, <4>2
    <3> QED
      BY <3>1, <3>2
  <2> HIDE DEF Top, D
  <2>4. IsDescent(t, w, f)
    <3>1. ASSUME NEW k \in 0..N PROVE f[k] = IF k = 0 THEN Top ELSE Deeper(t, w, f[k - 1])
      <4>1. k # 0 => k \in 1..N
        BY <1>1
      <4> QED
        BY <2>3, <4>1
    <3>2. f = [k \in 0..N |-> f[k]]
      BY <2>3
    <3> QED
      BY <3>1, <3>2 DEF IsDescent, Top
  <2> QED
    BY <2>4
<1> HIDE DEF reached
<1>4. reached[0] = Top /\ \A k \in 1..N : reached[k] = Deeper(t, w, reached[k - 1])
  <2>1. 0 \in 0..N /\ \A k \in 1..N : k \in 0..N /\ k # 0
    BY <1>1
  <2> QED
    BY <1>3, <2>1 DEF IsDescent
<1> HIDE DEF Top, D
<1>5. \A k \in 0..N : reached[k] \in SUBSET D
  <2> DEFINE X == SUBSET D
  <2>1. reached[0] \in X /\ \A k \in 1..N : reached[k - 1] \in X => reached[k] \in X
    BY <1>1, <1>2, <1>4
  <2> HIDE DEF X
  <2>2. \A k \in 0..N : reached[k] \in X
    BY <1>1, <2>1, Stays
  <2> QED
    BY <2>2 DEF X
<1>6. \A k \in 0..N : Top \subseteq reached[k]
  <2> DEFINE A == {k \in 0..N : Top \subseteq reached[k]}
  <2>1. 0 \in A
    BY <1>1, <1>4
  <2>2. ASSUME NEW k \in 1..N, k - 1 \in A PROVE k \in A
    <3>1. k \in 0..N /\ Top \subseteq reached[k - 1]
      BY <1>1, <2>2
    <3> QED
      BY <1>4, <3>1 DEF Deeper
  <2> HIDE DEF A
  <2>3. \A k \in 0..N : k \in A
    BY <1>1, <2>1, <2>2, Upwards
  <2> QED
    BY <2>3 DEF A
\* As long as it does not stand still, it grows by one a step.
<1>7. Deeper(t, w, reached[N]) = reached[N]
  <2> DEFINE Grown(k) == Cardinality(reached[k]) >= k
             Still(k) == Deeper(t, w, reached[k]) = reached[k]
             A == {k \in 0..N : Grown(k) \/ Still(k)}
  <2>0. \A k \in 0..N : IsFiniteSet(reached[k]) /\ Cardinality(reached[k]) \in Nat
                        /\ Cardinality(reached[k]) <= N /\ reached[k] \subseteq Nodes
    <3> TAKE k \in 0..N
    <3>1. reached[k] \in SUBSET Nodes
      BY <1>1, <1>5
    <3>2. IsFiniteSet(Nodes) /\ Cardinality(Nodes) = N
      BY <1>1, FS_Interval DEF Nodes
    <3> QED
      BY <3>1, <3>2, FS_Subset, FS_CardinalityType
  <2>1. 0 \in A
    <3>1. 0 \in 0..N
      BY <1>1
    <3>2. Cardinality(reached[0]) >= 0
      BY <2>0, <3>1
    <3> QED
      BY <3>1, <3>2
  <2>2. ASSUME NEW k \in 1..N, k - 1 \in A PROVE k \in A
    <3>1. k \in 0..N /\ k - 1 \in 0..N /\ k \in Nat
      BY <1>1
    <3>2. reached[k] = Deeper(t, w, reached[k - 1])
      BY <1>4
    <3>3. CASE Still(k - 1)
      <4>1. Still(k)
        BY <3>2, <3>3
      <4> QED
        BY <3>1, <4>1
    <3>4. CASE Grown(k - 1) /\ ~ Still(k - 1)
      <4>1. reached[k - 1] \subseteq reached[k] /\ reached[k - 1] # reached[k]
        BY <3>2, <3>4 DEF Deeper
      <4>2. IsFiniteSet(reached[k]) /\ Cardinality(reached[k]) \in Nat
            /\ Cardinality(reached[k - 1]) \in Nat
        BY <2>0, <3>1
      <4>3. Cardinality(reached[k - 1]) < Cardinality(reached[k])
        BY <4>1, <4>2, FS_Subset
      <4>4. Cardinality(reached[k]) >= k
        BY <3>1, <3>4, <4>2, <4>3
      <4> QED
        BY <3>1, <4>4
    <3> QED
      BY <2>2, <3>3, <3>4
  <2>3. N \in A
    <3> HIDE DEF A
    <3>1. \A k \in 0..N : k \in A
      BY <1>1, <2>1, <2>2, Upwards
    <3> QED
      BY <1>1, <3>1
  <2>4. CASE Grown(N)
    <3>1. reached[N] = Nodes
      <4>1. IsFiniteSet(Nodes) /\ Cardinality(Nodes) = N /\ N \in 0..N
        BY <1>1, FS_Interval DEF Nodes
      <4>2. reached[N] \in SUBSET Nodes /\ Cardinality(reached[N]) = N
        BY <1>1, <2>0, <2>4, <4>1
      <4> QED
        BY <4>1, <4>2, FS_Subset
    <3>2. N \in 0..N
      BY <1>1
    <3>3. Deeper(t, w, reached[N]) \in SUBSET D /\ reached[N] \subseteq Deeper(t, w, reached[N])
      BY <1>2, <1>5, <3>2 DEF Deeper
    <3> QED
      BY <1>1, <3>1, <3>3
  <2>5. CASE Still(N)
    BY <2>5
  <2> QED
    BY <2>3, <2>4, <2>5
<1>8. N \in 0..N
  BY <1>1
<1>9. reached[N] \subseteq D /\ Top \subseteq reached[N]
  BY <1>5, <1>6, <1>8
<1> QED
  BY <1>7, <1>9 DEF reached, D, Top

\* An AI's tree is that of the nodes it may read.
LEMMA TreeIsReadable ==
    ASSUME NEW v, Found(v), NEW w \in Viewers, w.ai
    PROVE  LET t == BuildTree(v)
               R == ReadableNodes(v, w)
           IN  VisibleTree(t, w) =
                 [nodes    |-> R,
                  roots    |-> Kept(t.roots, R),
                  children |-> [n \in R |-> Kept(t.children[n], R)],
                  entry    |-> [n \in R |-> t.entry[n]]]
<1> DEFINE t == BuildTree(v)
           R == ReadableNodes(v, w)
           kept == (CHOOSE reached : IsDescent(t, w, reached))[N]
<1>1. /\ t.nodes = v.nodes /\ t.nodes \in SUBSET Nodes
      /\ Range(t.roots) = Roots(v) /\ Roots(v) \in SUBSET t.nodes
      /\ \A n \in v.nodes : Range(t.children[n]) = Children(v, n)
      /\ \A n \in v.nodes : t.entry[n].policy = EffectivePolicy(v, n)
  <2>1. /\ t.nodes = v.nodes /\ Range(t.roots) = Roots(v)
        /\ \A n \in v.nodes : Range(t.children[n]) = Children(v, n)
        /\ \A n \in v.nodes : t.entry[n] = [title |-> v.title[n], parent_id |-> v.parent[n],
                                            policy |-> EffectivePolicy(v, n)]
    <3> HIDE DEF t
    <3> QED
      BY TreeFields DEF t
  <2> HIDE DEF t
  <2>2. t.nodes \in SUBSET Nodes /\ Roots(v) \in SUBSET t.nodes
    BY <2>1, FoundFields DEF Roots
  <2>3. ASSUME NEW n \in v.nodes PROVE t.entry[n].policy = EffectivePolicy(v, n)
    <3> DEFINE e == t.entry[n]
    <3>1. e = [title |-> v.title[n], parent_id |-> v.parent[n], policy |-> EffectivePolicy(v, n)]
      BY <2>1
    <3> HIDE DEF e
    <3>2. e.policy = EffectivePolicy(v, n)
      BY <3>1
    <3> QED
      BY <3>2 DEF e
  <2> QED
    BY <2>1, <2>2, <2>3
<1>2. {n \in t.nodes : Shown(t, w, n)} = R
  <2>1. \A n \in v.nodes : Shown(t, w, n) <=> Readable(v, w, n)
    <3> TAKE n \in v.nodes
    <3>1. t.entry[n].policy = EffectivePolicy(v, n) /\ n \in Nodes
      BY <1>1
    <3>2. w.quarantined \in BOOLEAN
      BY DEF Viewers
    <3> HIDE DEF t
    <3> QED
      BY <3>1, <3>2 DEF Shown, Readable, Allow, ExplicitOnly
  <2> HIDE DEF t
  <2> QED
    BY <1>1, <2>1 DEF ReadableNodes
<1>3. kept \subseteq R /\ {n \in Roots(v) : Shown(t, w, n)} \subseteq kept
      /\ Deeper(t, w, kept) = kept
  <2> HIDE DEF t
  <2>1. t.nodes \in SUBSET Nodes /\ Range(t.roots) \in SUBSET t.nodes
    BY <1>1
  <2>2. /\ kept \subseteq {n \in t.nodes : Shown(t, w, n)}
        /\ {n \in Range(t.roots) : Shown(t, w, n)} \subseteq kept
        /\ Deeper(t, w, kept) = kept
    BY <2>1, DescentEnds
  <2> QED
    BY <1>1, <1>2, <2>2
<1> HIDE DEF kept, t
\* What is left out would hang on something that is left out.
<1>4. R \subseteq kept
  <2> DEFINE Out == R \ kept
             height == [n \in Nodes |-> Cardinality(Lineage(v, n))]
  <2>1. SUFFICES ASSUME Out # {} PROVE FALSE
    OBVIOUS
  <2>2. ASSUME NEW n \in Out
        PROVE  n \in Nodes /\ Lineage(v, n) \subseteq Nodes /\ IsFiniteSet(Lineage(v, n))
               /\ Cardinality(Lineage(v, n)) \in Nat /\ n \in Lineage(v, n)
    <3>1. n \in Nodes
      BY <1>1 DEF ReadableNodes
    <3>2. Lineage(v, n) \in SUBSET Nodes /\ n \in Lineage(v, n)
      BY <3>1, FoundFields, LineageIsLeast
    <3>3. IsFiniteSet(Nodes)
      BY SizeAssumption, FS_Interval DEF Nodes
    <3>4. IsFiniteSet(Lineage(v, n))
      BY <3>2, <3>3, FS_Subset
    <3> QED
      BY <3>1, <3>2, <3>4, FS_CardinalityType
  <2>3. PICK n \in Out : \A m \in Out : Cardinality(Lineage(v, n)) <= Cardinality(Lineage(v, m))
    <3> DEFINE T == {Cardinality(Lineage(v, m)) : m \in Out}
    <3>1. T \in SUBSET Nat /\ T # {}
      BY <2>1, <2>2
    <3> HIDE DEF T
    <3>2. PICK x \in T : \A y \in T : x <= y
      BY <3>1, Least
    <3> QED
      BY <3>2 DEF T
  <2> DEFINE p == v.parent[n]
  <2>4. n \in v.nodes /\ Readable(v, w, n) /\ n \in Nodes /\ Shown(t, w, n) /\ n \notin kept
    BY <1>1, <1>2, <2>2 DEF ReadableNodes
  <2>5. p # NoNode
    <3>1. n \notin Roots(v)
      BY <1>3, <2>4
    <3>2. p \in v.nodes
      BY <2>4, <3>1 DEF Roots
    <3> QED
      BY <1>1, <3>2 DEF Nodes, NoNode
  <2>6. p \in v.nodes /\ n \notin Lineage(v, p)
    BY <2>4, <2>5 DEF Found
  <2>7. Readable(v, w, p) /\ Lineage(v, p) \subseteq Lineage(v, n)
    BY <2>4, <2>5, ReadableUp
  <2>8. p \notin kept
    <3>1. n \in Range(t.children[p])
      BY <1>1, <2>4, <2>6 DEF Children
    <3>2. p \in kept => n \in Deeper(t, w, kept)
      BY <1>1, <2>4, <3>1 DEF Deeper
    <3> QED
      BY <1>3, <2>4, <3>2
  <2>9. p \in Out
    BY <2>6, <2>7, <2>8 DEF ReadableNodes
  <2>10. Cardinality(Lineage(v, p)) < Cardinality(Lineage(v, n))
    <3>1. Lineage(v, p) \in SUBSET Lineage(v, n) /\ Lineage(v, p) # Lineage(v, n)
      BY <2>2, <2>6, <2>7
    <3>2. /\ IsFiniteSet(Lineage(v, n)) /\ Cardinality(Lineage(v, n)) \in Nat
          /\ Cardinality(Lineage(v, p)) \in Nat
      BY <2>2, <2>9
    <3> QED
      BY <3>1, <3>2, FS_Subset
  <2>11. Cardinality(Lineage(v, n)) <= Cardinality(Lineage(v, p))
    BY <2>3, <2>9
  <2>12. Cardinality(Lineage(v, n)) \in Nat /\ Cardinality(Lineage(v, p)) \in Nat
    BY <2>2, <2>9
  <2> HIDE DEF Out, p
  <2> QED
    BY <2>10, <2>11, <2>12
<1>5. kept = R
  BY <1>3, <1>4
<1>6. VisibleTree(t, w) =
        [nodes    |-> kept,
         roots    |-> Kept(t.roots, kept),
         children |-> [n \in kept |-> Kept(t.children[n], kept)],
         entry    |-> [n \in kept |-> t.entry[n]]]
  BY Zenon, VisibleTreeDef DEF kept
<1> QED
  BY <1>5, <1>6 DEF t
-----------------------------------------------------------------------------
(***************************************************************************)
(* A vault and the same without what w may not read.                       *)
(***************************************************************************)
Alike(v, u, w) ==
    /\ Found(v) /\ w \in Viewers
    /\ u.nodes = ReadableNodes(v, w)
    /\ u.parent = v.parent /\ u.policy = v.policy /\ u.title = v.title /\ u.text = v.text
    /\ u.summary = v.summary /\ u.spelled = v.spelled
    /\ u.versions = v.versions /\ u.size = v.size

LEMMA AlikeLineage ==
    ASSUME NEW v, NEW u, u.parent = v.parent, NEW n
    PROVE  Lineage(u, n) = Lineage(v, n)
<1> DEFINE V(up) == [k \in 0..N |-> IF k = 0 THEN {n}
                       ELSE up[k - 1] \cup ({v.parent[m] : m \in up[k - 1]} \ {NoNode})]
           U(up) == [k \in 0..N |-> IF k = 0 THEN {n}
                       ELSE up[k - 1] \cup ({u.parent[m] : m \in up[k - 1]} \ {NoNode})]
<1>1. \A up : V(up) = U(up)
  OBVIOUS
<1>2. (CHOOSE up : up = V(up)) = (CHOOSE up : up = U(up))
  <2> HIDE DEF V, U
  <2> QED
    BY <1>1
<1>3. Lineage(u, n) = (CHOOSE up : up = U(up))[N]
  BY Zenon DEF Lineage
<1>4. Lineage(v, n) = (CHOOSE up : up = V(up))[N]
  BY Zenon DEF Lineage
<1> QED
  BY <1>2, <1>3, <1>4, Zenon

LEMMA AlikePolicies ==
    ASSUME NEW v, NEW u, NEW w, Alike(v, u, w), NEW n
    PROVE  /\ EffectivePolicy(u, n) = EffectivePolicy(v, n)
           /\ Readable(u, w, n) <=> Readable(v, w, n)
           /\ ReadableNodes(u, w) = ReadableNodes(v, w)
<1>1. u.parent = v.parent /\ u.policy = v.policy /\ u.nodes = ReadableNodes(v, w)
  BY DEF Alike
<1>2. \A m : EffectivePolicy(u, m) = EffectivePolicy(v, m)
  <2> TAKE m
  <2>1. Lineage(u, m) = Lineage(v, m)
    BY <1>1, AlikeLineage
  <2>2. {u.policy[k] : k \in Lineage(u, m)} = {v.policy[k] : k \in Lineage(v, m)}
    BY <1>1, <2>1
  <2> QED
    BY <1>1, <2>2 DEF EffectivePolicy
<1>3. \A m : Readable(u, w, m) <=> Readable(v, w, m)
  BY <1>2 DEF Readable
<1> QED
  BY <1>1, <1>2, <1>3 DEF ReadableNodes

LEMMA AlikeFound ==
    ASSUME NEW v, NEW u, NEW w, Alike(v, u, w), u \in VaultType
    PROVE  Found(u)
<1>1. ASSUME NEW n \in u.nodes, u.parent[n] # NoNode
      PROVE  u.parent[n] \in u.nodes /\ n \notin Lineage(u, u.parent[n])
  <2>1. n \in v.nodes /\ Readable(v, w, n) /\ n \in Nodes /\ u.parent[n] = v.parent[n]
    BY FoundFields DEF Alike, ReadableNodes
  <2>2. v.parent[n] \in v.nodes /\ n \notin Lineage(v, v.parent[n])
    BY <1>1, <2>1 DEF Alike, Found
  <2>3. Readable(v, w, v.parent[n])
    BY <1>1, <2>1, ReadableUp DEF Alike
  <2>4. Lineage(u, u.parent[n]) = Lineage(v, v.parent[n])
    BY <2>1, AlikeLineage DEF Alike
  <2> QED
    BY <2>1, <2>2, <2>3, <2>4 DEF Alike, ReadableNodes
<1> QED
  BY <1>1 DEF Found

LEMMA RevealedIsAlike ==
    ASSUME NEW v, Found(v), NEW w \in Viewers
    PROVE  /\ Alike(v, Revealed(v, w), w) /\ Found(Revealed(v, w))
           /\ ~ w.ai => Revealed(v, w) = v
<1> DEFINE u == Revealed(v, w)
<1>1. v \in VaultType
  BY DEF Found
<1>2. /\ u.nodes = ReadableNodes(v, w)
      /\ u.parent = v.parent /\ u.policy = v.policy /\ u.title = v.title /\ u.text = v.text
      /\ u.summary = v.summary /\ u.spelled = v.spelled
      /\ u.versions = v.versions /\ u.size = v.size
  BY <1>1 DEF Revealed, ReadableNodes, VaultType
<1>3. ASSUME ~ w.ai PROVE u = v
  <2>1. {n \in v.nodes : Readable(v, w, n)} = v.nodes
    BY <1>3 DEF Readable
  <2> QED
    BY <1>1, <2>1 DEF Revealed, VaultType
<1>4. u \in VaultType
  BY <1>1 DEF Revealed, VaultType
<1> HIDE DEF u
<1>5. Alike(v, u, w)
  BY <1>2 DEF Alike
<1>6. Found(u)
  BY <1>4, <1>5, AlikeFound
<1> QED
  BY <1>3, <1>5, <1>6 DEF u

\* Rows that are put in order and then asked for come out the same.
LEMMA AlikeRows ==
    ASSUME NEW R \in SUBSET Nodes, NEW S \in SUBSET Nodes, NEW T \in SUBSET Nodes,
           S \cap R = T \cap R, NEW key \in [Nodes -> Nat]
    PROVE  Kept(InOrder(S, key), R) = Kept(InOrder(T, key), R)
<1>1. Kept(InOrder(S, key), R) = InOrder(S \cap R, key)
  BY InOrderAll
<1>2. Kept(InOrder(T, key), R) = InOrder(T \cap R, key)
  BY InOrderAll
<1> QED
  BY <1>1, <1>2

\* Lists, searches and resolutions.
LEMMA AlikeLists ==
    ASSUME NEW v, NEW u, NEW w, Alike(v, u, w)
    PROVE  GetNodesAsList(u, w) = GetNodesAsList(v, w)
<1> DEFINE R == ReadableNodes(v, w)
<1>1. R \in SUBSET Nodes /\ v.nodes \in SUBSET Nodes /\ v.title \in [Nodes -> Nat]
  BY FoundFields DEF Alike, ReadableNodes
<1>2. ReadableNodes(u, w) = R /\ u.nodes = R /\ u.title = v.title
  BY AlikePolicies DEF Alike
<1>3. v.nodes \cap R = R \cap R
  BY DEF ReadableNodes
<1> HIDE DEF R
<1>4. Kept(InOrder(v.nodes, v.title), R) = Kept(InOrder(R, v.title), R)
  BY <1>1, <1>3, AlikeRows
<1>5. GetNodesAsList(v, w) = [nodes |-> Range(Kept(InOrder(v.nodes, v.title), R)),
                              order |-> Kept(InOrder(v.nodes, v.title), R)]
  BY DEF GetNodesAsList, ByTitle, R
<1>6. GetNodesAsList(u, w) = [nodes |-> Range(Kept(InOrder(R, v.title), R)),
                              order |-> Kept(InOrder(R, v.title), R)]
  BY <1>2 DEF GetNodesAsList, ByTitle
<1> QED
  BY <1>4, <1>5, <1>6

LEMMA AlikeTitles ==
    ASSUME NEW v, NEW u, NEW w, Alike(v, u, w), NEW q \in Nat
    PROVE  FindNodeByTitle(u, w, q) = FindNodeByTitle(v, w, q)
<1> DEFINE R == ReadableNodes(v, w)
           S == {n \in v.nodes : TitleHas(v.title[n], q)}
           T == {n \in R : TitleHas(v.title[n], q)}
           key == [n \in Nodes |-> IF v.title[n] = q THEN 0 ELSE v.title[n]]
           Told(rows) == [nodes |-> IF rows = <<>> THEN {} ELSE {rows[1]}]
<1>1. R \in SUBSET Nodes /\ v.nodes \in SUBSET Nodes /\ v.title \in [Nodes -> Nat]
  BY FoundFields DEF Alike, ReadableNodes
<1>2. ReadableNodes(u, w) = R /\ u.nodes = R /\ u.title = v.title
  BY AlikePolicies DEF Alike
<1>3. S \cap R = T \cap R
  BY DEF ReadableNodes
<1>4. key \in [Nodes -> Nat]
  BY <1>1
<1>5. S \in SUBSET Nodes /\ T \in SUBSET Nodes
  BY <1>1
<1>6. FindNodeByTitle(v, w, q) = Told(Kept(InOrder(S, key), R))
  BY Zenon DEF FindNodeByTitle
<1>7. FindNodeByTitle(u, w, q) = Told(Kept(InOrder(T, key), R))
  BY <1>2 DEF FindNodeByTitle
<1> HIDE DEF R, S, T, key, Told
<1>8. Kept(InOrder(S, key), R) = Kept(InOrder(T, key), R)
  BY <1>1, <1>3, <1>4, <1>5, AlikeRows
<1> QED
  BY <1>6, <1>7, <1>8

LEMMA AlikeSearches ==
    ASSUME NEW v, NEW u, NEW w, Alike(v, u, w), NEW q, NEW limit, NEW root
    PROVE  SearchNodesFulltext(u, w, q, limit, root) = SearchNodesFulltext(v, w, q, limit, root)
<1> DEFINE R == ReadableNodes(v, w)
           S == {n \in v.nodes : Matches(v, n, q)}
           T == {n \in R : Matches(v, n, q)}
           Q == {n \in R : root = NoNode \/ IsInSubtree(v, n, root)}
           key == [n \in Nodes |-> Relevance(v, n, q)]
           Told(rows) == SubSeq(rows, 1, Smaller(limit, Len(rows)))
<1>1. R \in SUBSET Nodes /\ v.nodes \in SUBSET Nodes
  BY FoundFields DEF Alike, ReadableNodes
<1>2. /\ ReadableNodes(u, w) = R /\ u.nodes = R /\ u.title = v.title /\ u.text = v.text
      /\ u.summary = v.summary /\ u.parent = v.parent
  BY AlikePolicies DEF Alike
<1>3. S \cap Q = T \cap Q
  BY DEF ReadableNodes
<1>4. key \in [Nodes -> Nat]
  BY DEF Relevance
<1>5. S \in SUBSET Nodes /\ T \in SUBSET Nodes /\ Q \in SUBSET Nodes
  BY <1>1
<1>6. SearchNodesFulltext(v, w, q, limit, root) = Told(Kept(InOrder(S, key), Q))
  BY Zenon DEF SearchNodesFulltext
<1>7. SearchNodesFulltext(u, w, q, limit, root) = Told(Kept(InOrder(T, key), Q))
  <2>1. \A n : Matches(u, n, q) <=> Matches(v, n, q)
    BY <1>2 DEF Matches, Mentions, Written
  <2>2. {n \in u.nodes : Matches(u, n, q)} = T
    BY <1>2, <2>1
  <2>3. \A n : IsInSubtree(u, n, root) <=> IsInSubtree(v, n, root)
    BY <1>2, AlikeLineage DEF IsInSubtree
  <2>4. {n \in ReadableNodes(u, w) : root = NoNode \/ IsInSubtree(u, n, root)} = Q
    BY <1>2, <2>3
  <2>5. [n \in Nodes |-> Relevance(u, n, q)] = key
    BY <1>2 DEF Relevance
  <2> HIDE DEF T, Q, key
  <2> QED
    BY <2>2, <2>4, <2>5 DEF SearchNodesFulltext
<1> HIDE DEF R, S, T, Q, key, Told
<1>8. Kept(InOrder(S, key), Q) = Kept(InOrder(T, key), Q)
  BY <1>3, <1>4, <1>5, AlikeRows
<1> QED
  BY <1>6, <1>7, <1>8

LEMMA AlikeResolutions ==
    ASSUME NEW v, NEW u, NEW w, Alike(v, u, w), NEW targets
    PROVE  ResolveLinkTargets(u, w, targets) = ResolveLinkTargets(v, w, targets)
<1>1. /\ u.nodes = ReadableNodes(v, w) /\ u.title = v.title
      /\ \A n : Readable(u, w, n) <=> Readable(v, w, n)
  BY AlikePolicies DEF Alike
<1>2. \A target : Resolved(u, w, target) = Resolved(v, w, target)
  <2> TAKE target
  <2> DEFINE V == {n \in v.nodes :
                     /\ IF target.kind = "uuid" THEN n = target.to ELSE v.title[n] = target.to
                     /\ Readable(v, w, n)}
             U == {n \in u.nodes :
                     /\ IF target.kind = "uuid" THEN n = target.to ELSE u.title[n] = target.to
                     /\ Readable(u, w, n)}
             Told(found) == IF found = {} THEN [status |-> "unresolved"]
                            ELSE IF Cardinality(found) > 1
                                 THEN [status |-> "ambiguous", matches |-> Cardinality(found)]
                            ELSE [status |-> "resolved", node |-> CHOOSE n \in found : TRUE]
  <2>1. U = V
    BY <1>1 DEF ReadableNodes
  <2>2. Resolved(u, w, target) = Told(U)
    BY Zenon DEF Resolved
  <2>3. Resolved(v, w, target) = Told(V)
    BY Zenon DEF Resolved
  <2> HIDE DEF U, V, Told
  <2> QED
    BY <2>1, <2>2, <2>3
<1> QED
  BY <1>2 DEF ResolveLinkTargets

LEMMA AlikeAssets ==
    ASSUME NEW v, NEW u, NEW w, Alike(v, u, w), NEW a
    PROVE  AssetReadableByAi(u, w, a) = AssetReadableByAi(v, w, a)
<1>1. /\ u.nodes = ReadableNodes(v, w) /\ u.text = v.text /\ u.summary = v.summary
      /\ \A n : Readable(u, w, n) <=> Readable(v, w, n)
  BY AlikePolicies DEF Alike
<1>2. \A n : ImagesOf(u, n) = ImagesOf(v, n)
  BY <1>1 DEF ImagesOf, Written
<1>3. (\E n \in u.nodes : a \in Range(ImagesOf(u, n)) /\ Readable(u, w, n))
      <=> \E n \in v.nodes : a \in Range(ImagesOf(v, n)) /\ Readable(v, w, n)
  BY <1>1, <1>2 DEF ReadableNodes
<1> QED
  BY <1>3 DEF AssetReadableByAi

LEMMA AlikeTrees ==
    ASSUME NEW v, NEW u, NEW w, Alike(v, u, w), Found(u), w.ai
    PROVE  VisibleTree(BuildTree(u), w) = VisibleTree(BuildTree(v), w)
<1> DEFINE R == ReadableNodes(v, w)
           t == BuildTree(v)
           s == BuildTree(u)
<1>1. /\ ReadableNodes(u, w) = R /\ u.nodes = R /\ u.title = v.title /\ u.parent = v.parent
      /\ Found(v) /\ w \in Viewers
      /\ \A n : EffectivePolicy(u, n) = EffectivePolicy(v, n)
  BY AlikePolicies DEF Alike
<1>2. R \in SUBSET v.nodes /\ R \in SUBSET Nodes /\ v.title \in [Nodes -> Nat]
      /\ v.nodes \in SUBSET Nodes
  BY <1>1, FoundFields DEF ReadableNodes
<1>3. /\ t.roots = InOrder(Roots(v), v.title)
      /\ \A n \in v.nodes :
            /\ t.children[n] = InOrder(Children(v, n), v.title)
            /\ t.entry[n] = [title |-> v.title[n], parent_id |-> v.parent[n],
                             policy |-> EffectivePolicy(v, n)]
  BY <1>1, TreeFields
<1>4. /\ s.roots = InOrder(Roots(u), v.title)
      /\ \A n \in R :
            /\ s.children[n] = InOrder(Children(u, n), v.title)
            /\ s.entry[n] = [title |-> v.title[n], parent_id |-> v.parent[n],
                             policy |-> EffectivePolicy(v, n)]
  <2>1. /\ s.roots = InOrder(Roots(u), u.title)
        /\ \A n \in u.nodes :
              /\ s.children[n] = InOrder(Children(u, n), u.title)
              /\ s.entry[n] = [title |-> u.title[n], parent_id |-> u.parent[n],
                               policy |-> EffectivePolicy(u, n)]
    BY TreeFields
  <2> HIDE DEF s, R
  <2> QED
    BY <1>1, <2>1
<1>5. Roots(v) \cap R = Roots(u) \cap R
  <2>1. \A n \in R : v.parent[n] \in v.nodes <=> v.parent[n] \in R
    <3> TAKE n \in R
    <3>1. SUFFICES ASSUME v.parent[n] \in v.nodes PROVE v.parent[n] \in R
      BY <1>2
    <3>2. v.parent[n] # NoNode
      BY <1>2, <3>1 DEF Nodes, NoNode
    <3>3. Readable(v, w, n) /\ n \in Nodes
      BY <1>2 DEF ReadableNodes
    <3>4. Readable(v, w, v.parent[n])
      BY <1>1, <3>2, <3>3, ReadableUp
    <3> QED
      BY <3>1, <3>4 DEF ReadableNodes
  <2> HIDE DEF R
  <2> QED
    BY <1>1, <1>2, <2>1 DEF Roots
<1>6. \A n : Children(v, n) \cap R = Children(u, n) \cap R
  BY <1>1, <1>2 DEF Children
<1> HIDE DEF R, s, t
<1>7. Kept(s.roots, R) = Kept(t.roots, R)
  <2>1. Roots(v) \in SUBSET Nodes /\ Roots(u) \in SUBSET Nodes
    BY <1>1, <1>2 DEF Roots
  <2> QED
    BY <1>2, <1>3, <1>4, <1>5, <2>1, AlikeRows
<1>8. \A n \in R : Kept(s.children[n], R) = Kept(t.children[n], R)
  <2> TAKE n \in R
  <2>1. Children(v, n) \in SUBSET Nodes /\ Children(u, n) \in SUBSET Nodes
    BY <1>1, <1>2 DEF Children
  <2>2. Kept(InOrder(Children(u, n), v.title), R) = Kept(InOrder(Children(v, n), v.title), R)
    BY <1>2, <1>6, <2>1, AlikeRows
  <2> QED
    BY <1>2, <1>3, <1>4, <2>2
<1>9. \A n \in R : s.entry[n] = t.entry[n]
  BY <1>2, <1>3, <1>4
<1>10. VisibleTree(t, w) = [nodes |-> R, roots |-> Kept(t.roots, R),
                            children |-> [n \in R |-> Kept(t.children[n], R)],
                            entry |-> [n \in R |-> t.entry[n]]]
  BY <1>1, TreeIsReadable DEF t, R
<1>11. VisibleTree(s, w) = [nodes |-> R, roots |-> Kept(s.roots, R),
                            children |-> [n \in R |-> Kept(s.children[n], R)],
                            entry |-> [n \in R |-> s.entry[n]]]
  <2> DEFINE T == ReadableNodes(u, w)
  <2>1. VisibleTree(s, w) = [nodes |-> T, roots |-> Kept(s.roots, T),
                             children |-> [n \in T |-> Kept(s.children[n], T)],
                             entry |-> [n \in T |-> s.entry[n]]]
    BY <1>1, TreeIsReadable DEF s
  <2>2. T = R
    BY <1>1
  <2> HIDE DEF T
  <2> QED
    BY <2>1, <2>2
<1> QED
  BY <1>7, <1>8, <1>9, <1>10, <1>11 DEF s, t

-----------------------------------------------------------------------------
\* What a bundle finds beside a node.
LEMMA AlikeMeant ==
    ASSUME NEW v, NEW u, NEW w, Alike(v, u, w)
    PROVE  /\ \A mark : Meant(u, w, mark) = Meant(v, w, mark)
           /\ \A mark, n : LeadsTo(u, mark, n) <=> LeadsTo(v, mark, n)
           /\ \A n : Links(u, n) = Links(v, n)
<1>1. /\ u.nodes = ReadableNodes(v, w) /\ u.title = v.title /\ u.text = v.text
      /\ \A n : Readable(u, w, n) <=> Readable(v, w, n)
  BY AlikePolicies DEF Alike
<1>2. ASSUME NEW mark PROVE Meant(u, w, mark) = Meant(v, w, mark)
  <2> DEFINE V == {m \in v.nodes :
                     /\ IF mark.kind = "uuid" THEN m = mark.to ELSE v.title[m] = mark.to
                     /\ Readable(v, w, m)}
             U == {m \in u.nodes :
                     /\ IF mark.kind = "uuid" THEN m = mark.to ELSE u.title[m] = mark.to
                     /\ Readable(u, w, m)}
  <2>1. U = V
    BY <1>1 DEF ReadableNodes
  <2>2. Meant(u, w, mark) = IF Cardinality(U) = 1 THEN U ELSE {}
    BY Zenon DEF Meant
  <2>3. Meant(v, w, mark) = IF Cardinality(V) = 1 THEN V ELSE {}
    BY Zenon DEF Meant
  <2> HIDE DEF U, V
  <2> QED
    BY <2>1, <2>2, <2>3
<1>3. \A mark, n : LeadsTo(u, mark, n) <=> LeadsTo(v, mark, n)
  BY <1>1 DEF LeadsTo
<1>4. \A n : Links(u, n) = Links(v, n)
  BY <1>1 DEF Links
<1> QED
  BY <1>2, <1>3, <1>4

LEMMA AlikeNeighbours ==
    ASSUME NEW v, NEW u, NEW w, Alike(v, u, w), NEW n, NEW kinds
    PROVE  Neighbours(u, w, n, kinds) = Neighbours(v, w, n, kinds)
<1> DEFINE The(S) == CHOOSE m \in S : TRUE
           First(x, m) == CHOOSE i \in DOMAIN x.text[m] :
                            /\ LeadsTo(x, x.text[m][i], n)
                            /\ \A j \in 1..(i - 1) : ~ LeadsTo(x, x.text[m][j], n)
           Up(x) == IF x.parent[n] \in ReadableNodes(x, w) THEN <<x.parent[n]>> ELSE <<>>
           Down(x) == Kept(ByTitle(x, Children(x, n)), ReadableNodes(x, w))
           Out(x) == Kept(Links(x, n),
                          {i \in DOMAIN x.text[n] : Meant(x, w, x.text[n][i]) \ {n} # {}})
           To(x) == {m \in x.nodes \ {n} : LinksBack(x, m, n)}
           Back(x) == Kept(ByTitle(x, To(x)), ReadableNodes(x, w))
           Of(relation, edges) == IF relation \in kinds THEN edges ELSE <<>>
           OutEdge(x, i) == Edge(The(Meant(x, w, x.text[n][Out(x)[i]])), "outlink", n, n, Out(x)[i])
           BackEdge(x, i) == Edge(Back(x)[i], "backlink", n, Back(x)[i], First(x, Back(x)[i]))
           All(x) == Of("parent", [i \in DOMAIN Up(x) |-> Edge(Up(x)[i], "parent", n, NoNode, 0)])
                     \o Of("child", [i \in DOMAIN Down(x) |-> Edge(Down(x)[i], "child", n, NoNode, 0)])
                     \o Of("outlink", [i \in DOMAIN Out(x) |-> OutEdge(x, i)])
                     \o Of("backlink", [i \in DOMAIN Back(x) |-> BackEdge(x, i)])
<1>1. Neighbours(u, w, n, kinds) = All(u) /\ Neighbours(v, w, n, kinds) = All(v)
  BY Zenon DEF Neighbours
<1>2. /\ ReadableNodes(u, w) = ReadableNodes(v, w) /\ u.nodes = ReadableNodes(v, w)
      /\ u.title = v.title /\ u.text = v.text /\ u.parent = v.parent /\ u.spelled = v.spelled
      /\ \A mark : Meant(u, w, mark) = Meant(v, w, mark)
      /\ \A mark : LeadsTo(u, mark, n) <=> LeadsTo(v, mark, n)
      /\ Links(u, n) = Links(v, n)
  BY AlikePolicies, AlikeMeant DEF Alike
<1>3. /\ ReadableNodes(v, w) \in SUBSET Nodes /\ v.nodes \in SUBSET Nodes
      /\ v.title \in [Nodes -> Nat] /\ ReadableNodes(v, w) \subseteq v.nodes
  BY FoundFields DEF Alike, ReadableNodes
<1>4. Up(u) = Up(v)
  BY <1>2
<1>5. Down(u) = Down(v)
  <2>1. Children(u, n) \cap ReadableNodes(v, w) = Children(v, n) \cap ReadableNodes(v, w)
    BY <1>2, <1>3 DEF Children
  <2>2. Children(u, n) \in SUBSET Nodes /\ Children(v, n) \in SUBSET Nodes
    BY <1>2, <1>3 DEF Children
  <2> QED
    BY <1>2, <1>3, <2>1, <2>2, AlikeRows DEF ByTitle
<1>6. Out(u) = Out(v)
  BY <1>2
<1>7. Back(u) = Back(v)
  <2>1. \A m : LinksBack(u, m, n) <=> LinksBack(v, m, n)
    BY <1>2 DEF LinksBack
  <2>2. To(u) \cap ReadableNodes(v, w) = To(v) \cap ReadableNodes(v, w)
    BY <1>2, <1>3, <2>1
  <2>3. To(u) \in SUBSET Nodes /\ To(v) \in SUBSET Nodes
    BY <1>2, <1>3
  <2> HIDE DEF To
  <2> QED
    BY <1>2, <1>3, <2>2, <2>3, AlikeRows DEF ByTitle
<1>8. \A m : First(u, m) = First(v, m)
  <2> TAKE m
  <2> DEFINE F(i) == i \in DOMAIN u.text[m] /\ LeadsTo(u, u.text[m][i], n)
                     /\ \A j \in 1..(i - 1) : ~ LeadsTo(u, u.text[m][j], n)
             H(i) == i \in DOMAIN v.text[m] /\ LeadsTo(v, v.text[m][i], n)
                     /\ \A j \in 1..(i - 1) : ~ LeadsTo(v, v.text[m][j], n)
  <2>1. \A i : F(i) <=> H(i)
    BY <1>2
  <2>2. First(u, m) = (CHOOSE i : F(i)) /\ First(v, m) = (CHOOSE i : H(i))
    OBVIOUS
  <2> HIDE DEF F, H, First
  <2>3. (CHOOSE i : F(i)) = (CHOOSE i : H(i))
    BY <2>1
  <2> QED
    BY <2>2, <2>3
<1> HIDE DEF The, First, Up, Down, Out, Back, To
<1>9. \A i : OutEdge(u, i) = OutEdge(v, i)
  BY <1>2, <1>6
<1>10. \A i : BackEdge(u, i) = BackEdge(v, i)
  BY <1>7, <1>8
<1> HIDE DEF OutEdge, BackEdge
<1>11. All(u) = All(v)
  BY <1>4, <1>5, <1>6, <1>7, <1>9, <1>10
<1> HIDE DEF All
<1> QED
  BY <1>1, <1>11

LEMMA AlikeEdges ==
    ASSUME NEW v, NEW u, NEW w, Alike(v, u, w), NEW r, NEW frontier
    PROVE  EdgesOf(u, w, r, frontier) = EdgesOf(v, w, r, frontier)
<1>1. \A n : Neighbours(u, w, n, r.kinds) = Neighbours(v, w, n, r.kinds)
  BY AlikeNeighbours
<1>2. [i \in DOMAIN frontier |-> Neighbours(u, w, frontier[i], r.kinds)]
      = [i \in DOMAIN frontier |-> Neighbours(v, w, frontier[i], r.kinds)]
  BY <1>1
<1> QED
  BY <1>2, Zenon DEF EdgesOf, InRelationOrder

\* What a builder does with a node is asked of its row and its policy alone.
LEMMA AlikeItems ==
    ASSUME NEW v, NEW u, NEW w, Alike(v, u, w), NEW r
    PROVE  /\ \A b, n : Describe(u, r, b, n) = Describe(v, r, b, n)
           /\ \A b, n : TextFor(u, r, b, n) = TextFor(v, r, b, n)
           /\ \A b, e, d : Visit(u, r, b, e, d) = Visit(v, r, b, e, d)
           /\ \A b, n : Seed(u, r, b, n) = Seed(v, r, b, n)
<1>1. /\ u.title = v.title /\ u.parent = v.parent /\ u.versions = v.versions /\ u.size = v.size
      /\ \A n : EffectivePolicy(u, n) = EffectivePolicy(v, n)
  BY AlikePolicies DEF Alike
<1>2. \A n : Wanted(u, r, n) = Wanted(v, r, n)
  BY <1>1, Zenon DEF Wanted
<1>3. \A b, n : Allowed(u, r, b, n) = Allowed(v, r, b, n)
  BY <1>2, Zenon DEF Allowed
<1>4. \A b, n : Describe(u, r, b, n) = Describe(v, r, b, n)
  BY <1>1, <1>3, Zenon DEF Describe
<1>5. \A b, n : TextFor(u, r, b, n) = TextFor(v, r, b, n)
  <2> DEFINE Text(b, a, c) == [b EXCEPT !.chars_left = @ - a, !.exhausted = @ \/ a < c]
  <2>1. \A x, b, n : TextFor(x, r, b, n) = Text(b, Allowed(x, r, b, n), Wanted(x, r, n))
    BY Zenon DEF TextFor
  <2> HIDE DEF Text
  <2> QED
    BY <1>2, <1>3, <2>1
<1>6. \A b, e, d : Add(u, r, b, e, d) = Add(v, r, b, e, d)
  BY <1>4, <1>5, Zenon DEF Add
<1>7. \A b, e, d : Visit(u, r, b, e, d) = Visit(v, r, b, e, d)
  BY <1>6, Zenon DEF Visit
<1>8. \A b, n : Seed(u, r, b, n) = Seed(v, r, b, n)
  BY <1>6, Zenon DEF Seed
<1> QED
  BY <1>4, <1>5, <1>7, <1>8

LEMMA AlikeVisits ==
    ASSUME NEW v, NEW u, NEW w, Alike(v, u, w), NEW r
    PROVE  \A b, edges, d : VisitAll(u, r, b, edges, d) = VisitAll(v, r, b, edges, d)
<1> TAKE b, edges, d
<1> DEFINE U(met) == [i \in 0..Len(edges) |->
                        IF i = 0 THEN b ELSE Visit(u, r, met[i - 1], edges[i], d)]
           V(met) == [i \in 0..Len(edges) |->
                        IF i = 0 THEN b ELSE Visit(v, r, met[i - 1], edges[i], d)]
<1>1. \A met : U(met) = V(met)
  BY AlikeItems
<1>2. (CHOOSE met : met = U(met)) = (CHOOSE met : met = V(met))
  <2> HIDE DEF U, V
  <2> QED
    BY <1>1
<1>3. VisitAll(u, r, b, edges, d) = (CHOOSE met : met = U(met))[Len(edges)]
  BY Zenon DEF VisitAll
<1>4. VisitAll(v, r, b, edges, d) = (CHOOSE met : met = V(met))[Len(edges)]
  BY Zenon DEF VisitAll
<1> QED
  BY <1>2, <1>3, <1>4, Zenon

LEMMA AlikeExpansions ==
    ASSUME NEW v, NEW u, NEW w, Alike(v, u, w), NEW r, NEW start, NEW seeds
    PROVE  Expand(u, w, r, start, seeds) = Expand(v, w, r, start, seeds)
<1> DEFINE Next1(x, b, d) == VisitAll(x, r, [b EXCEPT !.frontier = <<>>],
                                      EdgesOf(x, w, r, b.frontier), d)
           U(level) == [d \in 0..r.depth |->
               IF d = 0 THEN [start EXCEPT !.seen = @ \cup Range(seeds), !.frontier = seeds]
               ELSE Next1(u, level[d - 1], d)]
           V(level) == [d \in 0..r.depth |->
               IF d = 0 THEN [start EXCEPT !.seen = @ \cup Range(seeds), !.frontier = seeds]
               ELSE Next1(v, level[d - 1], d)]
<1>1. \A b, d : Next1(u, b, d) = Next1(v, b, d)
  <2> TAKE b, d
  <2>1. EdgesOf(u, w, r, b.frontier) = EdgesOf(v, w, r, b.frontier)
    BY AlikeEdges
  <2>2. \A c, edges : VisitAll(u, r, c, edges, d) = VisitAll(v, r, c, edges, d)
    BY AlikeVisits
  <2> QED
    BY <2>1, <2>2
<1>2. Expand(u, w, r, start, seeds) = (CHOOSE level : level = U(level))[r.depth]
  BY Zenon DEF Expand
<1>3. Expand(v, w, r, start, seeds) = (CHOOSE level : level = V(level))[r.depth]
  BY Zenon DEF Expand
<1> HIDE DEF Next1
<1>4. \A level : U(level) = V(level)
  BY <1>1
<1>5. (CHOOSE level : level = U(level)) = (CHOOSE level : level = V(level))
  <2> HIDE DEF U, V
  <2> QED
    BY <1>4
<1> QED
  BY <1>2, <1>3, <1>5, Zenon

LEMMA AlikeBundles ==
    ASSUME NEW v, NEW u, NEW w, Alike(v, u, w), NEW r
    PROVE  /\ \A root : root \in v.nodes /\ Readable(v, w, root) =>
                 BuildContextBundle(u, w, r, root) = BuildContextBundle(v, w, r, root)
           /\ \A query, subtree : BuildSearchContextBundle(u, w, r, query, subtree)
                                  = BuildSearchContextBundle(v, w, r, query, subtree)
<1>1. ASSUME NEW root \in v.nodes, Readable(v, w, root)
      PROVE  BuildContextBundle(u, w, r, root) = BuildContextBundle(v, w, r, root)
  <2> DEFINE B(x) == Expand(x, w, r, TextFor(x, r, NewBuilder(r), root), <<root>>)
             A(x) == [nodes |-> {root} \cup NodesOf(B(x)), root |-> Describe(x, r, NewBuilder(r), root),
                      assets |-> ImagesOf(x, root), bundle |-> Envelope(B(x))]
  <2>1. root \in u.nodes /\ Readable(u, w, root) /\ ImagesOf(u, root) = ImagesOf(v, root)
    BY <1>1, AlikePolicies DEF Alike, ReadableNodes, ImagesOf, Written
  <2>2. B(u) = B(v)
    <3>1. TextFor(u, r, NewBuilder(r), root) = TextFor(v, r, NewBuilder(r), root)
      BY AlikeItems
    <3>2. \A start, seeds : Expand(u, w, r, start, seeds) = Expand(v, w, r, start, seeds)
      BY AlikeExpansions
    <3> QED
      BY <3>1, <3>2
  <2>3. Describe(u, r, NewBuilder(r), root) = Describe(v, r, NewBuilder(r), root)
    BY AlikeItems
  <2>4. \A x : root \in x.nodes /\ Readable(x, w, root) => BuildContextBundle(x, w, r, root) = A(x)
    BY Zenon DEF BuildContextBundle, WithNode
  <2> HIDE DEF B
  <2>5. A(u) = A(v)
    BY <2>1, <2>2, <2>3
  <2> HIDE DEF A
  <2> QED
    BY <1>1, <2>1, <2>4, <2>5
<1>2. ASSUME NEW query, NEW subtree
      PROVE  BuildSearchContextBundle(u, w, r, query, subtree)
             = BuildSearchContextBundle(v, w, r, query, subtree)
  <2> DEFINE hits == SearchNodesFulltext(v, w, query, r.seed_limit, subtree)
             S(x, q) == CHOOSE seeded : seeded = [k \in 0..Len(q) |->
                           IF k = 0 THEN NewBuilder(r) ELSE Seed(x, r, seeded[k - 1], q[k])]
             Start(x, q) == S(x, q)[Len(q)]
             B(x, q) == Expand(x, w, r, Start(x, q), Start(x, q).frontier)
             A(x, q) == [nodes |-> NodesOf(B(x, q)), hits |-> q,
                         seed_count |-> Len(Start(x, q).frontier), bundle |-> Envelope(B(x, q))]
  <2>1. \A x : BuildSearchContextBundle(x, w, r, query, subtree)
               = A(x, SearchNodesFulltext(x, w, query, r.seed_limit, subtree))
    BY Zenon DEF BuildSearchContextBundle
  <2>2. SearchNodesFulltext(u, w, query, r.seed_limit, subtree) = hits
    BY AlikeSearches
  <2> HIDE DEF hits
  <2>3. S(u, hits) = S(v, hits)
    <3> DEFINE U(seeded) == [k \in 0..Len(hits) |->
                  IF k = 0 THEN NewBuilder(r) ELSE Seed(u, r, seeded[k - 1], hits[k])]
               V(seeded) == [k \in 0..Len(hits) |->
                  IF k = 0 THEN NewBuilder(r) ELSE Seed(v, r, seeded[k - 1], hits[k])]
    <3>1. \A seeded : U(seeded) = V(seeded)
      BY AlikeItems
    <3>2. S(u, hits) = (CHOOSE seeded : seeded = U(seeded))
          /\ S(v, hits) = (CHOOSE seeded : seeded = V(seeded))
      BY Zenon
    <3> HIDE DEF S, U, V
    <3> QED
      BY <3>1, <3>2
  <2> HIDE DEF S
  <2>4. Start(u, hits) = Start(v, hits)
    BY <2>3
  <2> HIDE DEF Start
  <2>5. B(u, hits) = B(v, hits)
    BY <2>4, AlikeExpansions
  <2> HIDE DEF B
  <2>6. A(u, hits) = A(v, hits)
    BY <2>4, <2>5
  <2> HIDE DEF A
  <2> QED
    BY <2>1, <2>2, <2>6 DEF hits
<1> QED
  BY <1>1, <1>2

\* Over the vault without what w may not read, what w is answered is the same.
LEMMA RevealedAnswers ==
    ASSUME NEW v, Found(v), NEW w \in Viewers
    PROVE  LET u == Revealed(v, w)
           IN  /\ \A etag : GetNodesAsTree(u, w, etag) = GetNodesAsTree(v, w, etag)
               /\ GetNodesAsList(u, w) = GetNodesAsList(v, w)
               /\ \A q \in Nat : FindNodeByTitle(u, w, q) = FindNodeByTitle(v, w, q)
               /\ \A q, limit, root : SearchNodesFulltext(u, w, q, limit, root)
                                      = SearchNodesFulltext(v, w, q, limit, root)
               /\ \A targets : ResolveLinkTargets(u, w, targets) = ResolveLinkTargets(v, w, targets)
               /\ \A a : AssetReadableByAi(u, w, a) = AssetReadableByAi(v, w, a)
               /\ \A r, root : "refused" \notin DOMAIN BuildContextBundle(v, w, r, root) =>
                     BuildContextBundle(u, w, r, root) = BuildContextBundle(v, w, r, root)
               /\ \A r, query, subtree : BuildSearchContextBundle(u, w, r, query, subtree)
                                         = BuildSearchContextBundle(v, w, r, query, subtree)
<1> DEFINE u == Revealed(v, w)
<1>1. Alike(v, u, w) /\ Found(u) /\ (~ w.ai => u = v)
  BY RevealedIsAlike
<1> HIDE DEF u
<1>2. VisibleTree(BuildTree(u), w) = VisibleTree(BuildTree(v), w)
  BY <1>1, AlikeTrees
<1>3. \A etag : GetNodesAsTree(u, w, etag) = GetNodesAsTree(v, w, etag)
  BY <1>2 DEF GetNodesAsTree
<1>4. ASSUME NEW r, NEW root, "refused" \notin DOMAIN BuildContextBundle(v, w, r, root)
      PROVE  BuildContextBundle(u, w, r, root) = BuildContextBundle(v, w, r, root)
  <2>1. "refused" \in DOMAIN Absent /\ "refused" \in DOMAIN Refused
    BY DEF Absent, Refused
  <2>2. root \notin v.nodes => BuildContextBundle(v, w, r, root) = Absent
    BY Zenon DEF BuildContextBundle, WithNode
  <2>3. root \in v.nodes /\ ~ Readable(v, w, root) => BuildContextBundle(v, w, r, root) = Refused
    BY Zenon DEF BuildContextBundle, WithNode
  <2>4. root \in v.nodes /\ Readable(v, w, root)
    BY <1>4, <2>1, <2>2, <2>3
  <2> QED
    BY <1>1, <2>4, AlikeBundles
<1>5. GetNodesAsList(u, w) = GetNodesAsList(v, w)
  BY <1>1, AlikeLists
<1>6. \A q \in Nat : FindNodeByTitle(u, w, q) = FindNodeByTitle(v, w, q)
  BY <1>1, AlikeTitles
<1>7. \A q, limit, root : SearchNodesFulltext(u, w, q, limit, root)
                          = SearchNodesFulltext(v, w, q, limit, root)
  BY <1>1, AlikeSearches
<1>8. \A targets : ResolveLinkTargets(u, w, targets) = ResolveLinkTargets(v, w, targets)
  BY <1>1, AlikeResolutions
<1>9. \A a : AssetReadableByAi(u, w, a) = AssetReadableByAi(v, w, a)
  BY <1>1, AlikeAssets
<1>10. \A r, query, subtree : BuildSearchContextBundle(u, w, r, query, subtree)
                              = BuildSearchContextBundle(v, w, r, query, subtree)
  BY <1>1, AlikeBundles
<1> QED
  BY <1>3, <1>4, <1>5, <1>6, <1>7, <1>8, <1>9, <1>10 DEF u

TracedOps == {"tree", "list", "title", "search", "resolve", "asset", "bundle", "search bundle"}

\* The vault that a request is answered of.
Over(op, r) == IF op = "tree" THEN r.built ELSE vault

LEMMA RepliesAreTraceless ==
    ASSUME NEW op, NEW w, NEW r, NEW reply, Reply(op, w, r, reply),
           op \in TracedOps /\ "refused" \notin DOMAIN reply =>
             reply = AnswerOver(Revealed(Over(op, r), w),
                                [op |-> op, viewer |-> w, request |-> r, reply |-> reply])
    PROVE  HiddenLeaveNoTrace'
<1> DEFINE a == [op |-> op, viewer |-> w, request |-> r, reply |-> reply]
<1>1. /\ answer' = a /\ vault' = vault
      /\ a.op = op /\ a.viewer = w /\ a.request = r /\ a.reply = reply
  BY DEF Reply
<1>2. op \in TracedOps /\ "refused" \notin DOMAIN reply => reply = AnswerOver(Revealed(Over(op, r), w), a)
  OBVIOUS
<1> HIDE DEF a
<1>3. SUFFICES ASSUME a.op \in TracedOps, "refused" \notin DOMAIN a.reply
               PROVE  a.reply = AnswerOver(Revealed(Over(op, r), a.viewer), a)
  <2>1. Basis(answer)' = Over(op, r)
    BY <1>1 DEF Basis, Over
  <2> QED
    BY <1>1, <2>1 DEF HiddenLeaveNoTrace, Replied, TracedOps
<1> QED
  BY <1>1, <1>2, <1>3

LEMMA AnswersOver ==
    ASSUME NEW u, NEW w, NEW r, NEW reply
    PROVE  LET a(op) == [op |-> op, viewer |-> w, request |-> r, reply |-> reply]
           IN  /\ AnswerOver(u, a("tree")) = GetNodesAsTree(u, w, r.etag)
               /\ AnswerOver(u, a("list")) = GetNodesAsList(u, w)
               /\ AnswerOver(u, a("title")) = FindNodeByTitle(u, w, r.query)
               /\ AnswerOver(u, a("search")) =
                     [nodes |-> Range(SearchNodesFulltext(u, w, r.query, r.limit, r.subtree)),
                      order |-> SearchNodesFulltext(u, w, r.query, r.limit, r.subtree)]
               /\ AnswerOver(u, a("resolve")) = ResolveLinkTargets(u, w, r.targets)
               /\ AnswerOver(u, a("asset")) = AssetReadableByAi(u, w, r.asset)
               /\ AnswerOver(u, a("bundle")) = BuildContextBundle(u, w, r.limits, r.root)
               /\ AnswerOver(u, a("search bundle"))
                     = BuildSearchContextBundle(u, w, r.limits, r.query, r.subtree)
  BY DEF AnswerOver

\* Whatever is not asked of the cached tree is asked of the vault.
LEMMA OverRows == \A op, r : op # "tree" => Over(op, r) = vault
  BY DEF Over

\* What a tree may have been built of is as a vault may be found.
LEMMA BuiltOfFound ==
    ASSUME vault \in VaultStates, NEW built \in {vault} \cup {v \in CachedStates : v.nodes # {}}
    PROVE  Found(built)
  BY VaultsAssumption, CachedAssumption DEF Found

\* What is kept of a request until its answer is read.
Traced == vault \in VaultStates /\ HiddenLeaveNoTrace

LEMMA TracedStep == Traced /\ [Next]_vars => Traced'
<1> SUFFICES ASSUME Traced, [Next]_vars PROVE Traced'
  OBVIOUS
<1> DEFINE v == vault
           a(op, w, r, reply) == [op |-> op, viewer |-> w, request |-> r, reply |-> reply]
<1>1. Found(v)
  BY VaultsAssumption DEF Traced, Found
<1>2. Queries \subseteq Nat
  BY RequestsAssumption DEF Titles
<1>3. ASSUME NEW w \in Viewers, GetTree(w) PROVE HiddenLeaveNoTrace'
  <2>1. PICK built \in {v} \cup {x \in CachedStates : x.nodes # {}} :
          \E etag : Reply("tree", w, [etag |-> etag, built |-> built], GetNodesAsTree(built, w, etag))
    BY <1>3, Zenon DEF GetTree
  <2>2. PICK etag :
          Reply("tree", w, [etag |-> etag, built |-> built], GetNodesAsTree(built, w, etag))
    BY <2>1
  <2> DEFINE r == [etag |-> etag, built |-> built]
             reply == GetNodesAsTree(built, w, etag)
             u == Revealed(built, w)
  <2>3. Found(built)
    BY BuiltOfFound DEF Traced
  <2>4. GetNodesAsTree(u, w, r.etag) = reply
    BY <2>3, RevealedAnswers
  <2>5. Over("tree", r) = built
    BY DEF Over
  <2> HIDE DEF reply, r, u
  <2>6. AnswerOver(u, a("tree", w, r, reply)) = GetNodesAsTree(u, w, r.etag)
    BY AnswersOver, ZenonT(60)
  <2>7. reply = AnswerOver(Revealed(Over("tree", r), w), a("tree", w, r, reply))
    BY <2>4, <2>5, <2>6 DEF u
  <2>8. Reply("tree", w, r, reply)
    BY <2>2 DEF r, reply
  <2> QED
    BY <2>7, <2>8, RepliesAreTraceless
<1>4. ASSUME NEW w \in Viewers, GetList(w) PROVE HiddenLeaveNoTrace'
  <2> DEFINE r == [etag |-> NoReply]
             reply == GetNodesAsList(v, w)
  <2>1. Reply("list", w, r, reply)
    BY <1>4 DEF GetList
  <2>2. GetNodesAsList(Revealed(v, w), w) = reply
    BY <1>1, RevealedAnswers
  <2> HIDE DEF reply, r
  <2>3. AnswerOver(Revealed(v, w), a("list", w, r, reply)) = GetNodesAsList(Revealed(v, w), w)
    BY AnswersOver
  <2> QED
    BY <2>1, <2>2, <2>3, RepliesAreTraceless, OverRows
<1>5. ASSUME NEW w \in Viewers, GetByTitle(w) PROVE HiddenLeaveNoTrace'
  <2>1. PICK q \in Queries : Reply("title", w, [query |-> q], FindNodeByTitle(v, w, q))
    BY <1>5 DEF GetByTitle
  <2> DEFINE r == [query |-> q]
             reply == FindNodeByTitle(v, w, q)
  <2>2. FindNodeByTitle(Revealed(v, w), w, r.query) = reply
    BY <1>1, <1>2, RevealedAnswers
  <2> HIDE DEF reply, r
  <2>3. AnswerOver(Revealed(v, w), a("title", w, r, reply)) = FindNodeByTitle(Revealed(v, w), w, r.query)
    BY AnswersOver, ZenonT(60)
  <2> QED
    BY <2>1, <2>2, <2>3, RepliesAreTraceless, OverRows DEF r, reply
<1>6. ASSUME NEW w \in Viewers, FullTextSearch(w) PROVE HiddenLeaveNoTrace'
  <2>1. PICK q \in Queries, limit \in Limits, root \in v.nodes \cup {NoNode} :
           Reply("search", w, [query |-> q, limit |-> limit, subtree |-> root],
                 [nodes |-> Range(SearchNodesFulltext(v, w, q, limit, root)),
                  order |-> SearchNodesFulltext(v, w, q, limit, root)])
    BY <1>6 DEF FullTextSearch
  <2> DEFINE r == [query |-> q, limit |-> limit, subtree |-> root]
             found(x) == SearchNodesFulltext(x, w, r.query, r.limit, r.subtree)
             reply == [nodes |-> Range(SearchNodesFulltext(v, w, q, limit, root)),
                       order |-> SearchNodesFulltext(v, w, q, limit, root)]
  <2>2. found(Revealed(v, w)) = SearchNodesFulltext(v, w, q, limit, root)
    BY <1>1, RevealedAnswers
  <2> HIDE DEF r, reply
  <2>3. AnswerOver(Revealed(v, w), a("search", w, r, reply))
        = [nodes |-> Range(found(Revealed(v, w))), order |-> found(Revealed(v, w))]
    BY AnswersOver, ZenonT(60)
  <2> HIDE DEF found
  <2>4. AnswerOver(Revealed(v, w), a("search", w, r, reply)) = reply
    BY <2>2, <2>3 DEF reply
  <2> QED
    BY <2>1, <2>4, RepliesAreTraceless, OverRows DEF r, reply
<1>7. ASSUME NEW w \in Viewers, ResolveInternalLinks(w) PROVE HiddenLeaveNoTrace'
  <2>1. PICK targets : Reply("resolve", w, [targets |-> targets], ResolveLinkTargets(v, w, targets))
    BY <1>7, Zenon DEF ResolveInternalLinks
  <2> DEFINE r == [targets |-> targets]
             reply == ResolveLinkTargets(v, w, targets)
  <2>2. ResolveLinkTargets(Revealed(v, w), w, r.targets) = reply
    BY <1>1, RevealedAnswers
  <2> HIDE DEF reply, r
  <2>3. AnswerOver(Revealed(v, w), a("resolve", w, r, reply))
        = ResolveLinkTargets(Revealed(v, w), w, r.targets)
    BY ZenonT(60), AnswersOver
  <2> QED
    BY <2>1, <2>2, <2>3, RepliesAreTraceless, OverRows DEF r, reply
<1>8. ASSUME NEW w \in Viewers, GetAsset(w) PROVE HiddenLeaveNoTrace'
  <2>1. PICK b : Reply("asset", w, [asset |-> b], AssetReadableByAi(v, w, b))
    BY <1>8 DEF GetAsset
  <2> DEFINE r == [asset |-> b]
             reply == AssetReadableByAi(v, w, b)
  <2>2. AssetReadableByAi(Revealed(v, w), w, r.asset) = reply
    BY <1>1, RevealedAnswers
  <2> HIDE DEF reply, r
  <2>3. AnswerOver(Revealed(v, w), a("asset", w, r, reply))
        = AssetReadableByAi(Revealed(v, w), w, r.asset)
    BY AnswersOver
  <2> QED
    BY <2>1, <2>2, <2>3, RepliesAreTraceless, OverRows DEF r, reply
<1>9. ASSUME NEW w \in Viewers, GetContextBundle(w) PROVE HiddenLeaveNoTrace'
  <2>1. PICK limits \in BundleRequests, n \in Nodes :
           Reply("bundle", w, [limits |-> limits, root |-> n], BuildContextBundle(v, w, limits, n))
    BY <1>9 DEF GetContextBundle
  <2> DEFINE r == [limits |-> limits, root |-> n]
             reply == BuildContextBundle(v, w, limits, n)
  <2>2. "refused" \notin DOMAIN reply => BuildContextBundle(Revealed(v, w), w, r.limits, r.root) = reply
    BY <1>1, RevealedAnswers
  <2> HIDE DEF reply, r
  <2>3. AnswerOver(Revealed(v, w), a("bundle", w, r, reply))
        = BuildContextBundle(Revealed(v, w), w, r.limits, r.root)
    BY AnswersOver
  <2> QED
    BY <2>1, <2>2, <2>3, RepliesAreTraceless, OverRows DEF r, reply
<1>10. ASSUME NEW w \in Viewers, SearchContextBundle(w) PROVE HiddenLeaveNoTrace'
  <2>1. PICK limits \in BundleRequests, q \in Queries, root \in {NoNode, 1} :
           Reply("search bundle", w, [limits |-> limits, query |-> q, subtree |-> root],
                 BuildSearchContextBundle(v, w, limits, q, root))
    BY <1>10 DEF SearchContextBundle
  <2> DEFINE r == [limits |-> limits, query |-> q, subtree |-> root]
             reply == BuildSearchContextBundle(v, w, limits, q, root)
  <2>2. BuildSearchContextBundle(Revealed(v, w), w, r.limits, r.query, r.subtree) = reply
    BY <1>1, RevealedAnswers
  <2> HIDE DEF reply, r
  <2>3. AnswerOver(Revealed(v, w), a("search bundle", w, r, reply))
        = BuildSearchContextBundle(Revealed(v, w), w, r.limits, r.query, r.subtree)
    BY AnswersOver
  <2> QED
    BY <2>1, <2>2, <2>3, RepliesAreTraceless, OverRows DEF r, reply
<1>11. ASSUME NEW w \in Viewers,
              \/ SearchNodesByTitle(w) \/ GetMultipleNodes(w) \/ PostNodesContent(w)
              \/ GetSingleNode(w) \/ GetNodeVersionsRoute(w) \/ GetSingleVersion(w)
              \/ ListNodeAssetsRoute(w) \/ GetNodeAssetRoute(w)
       PROVE  HiddenLeaveNoTrace'
  <2>1. \E op \in {"autocomplete", "read"} : \E r, reply : Reply(op, w, r, reply)
    BY <1>11, Zenon DEF SearchNodesByTitle, GetMultipleNodes, PostNodesContent, GetSingleNode,
       GetNodeVersionsRoute, GetSingleVersion, ListNodeAssetsRoute, GetNodeAssetRoute
  <2> QED
    BY <2>1, RepliesAreTraceless, OverRows DEF TracedOps
<1>12. ASSUME Deliver \/ UNCHANGED vars PROVE HiddenLeaveNoTrace'
  <2>1. CASE Deliver
    BY <2>1 DEF Deliver, HiddenLeaveNoTrace, Replied
  <2>2. CASE UNCHANGED vars
    BY <2>2 DEF vars, Traced, HiddenLeaveNoTrace, Replied, Basis
  <2> QED
    BY <1>12, <2>1, <2>2
<1>13. vault' = vault
  BY DEF Next, vars, Deliver, Reply, GetTree, GetList, GetByTitle, SearchNodesByTitle, FullTextSearch,
     ResolveInternalLinks, GetMultipleNodes, PostNodesContent, GetSingleNode, GetNodeVersionsRoute,
     GetSingleVersion, ListNodeAssetsRoute, GetNodeAssetRoute, GetAsset, GetContextBundle,
     SearchContextBundle
<1>14. HiddenLeaveNoTrace'
  BY <1>3, <1>4, <1>5, <1>6, <1>7, <1>8, <1>9, <1>10, <1>11, <1>12 DEF Next
<1> QED
  BY <1>13, <1>14 DEF Traced

\* Nodes hidden from the caller leave no trace in what a tree, a list, a search,
\* a resolution, an image's URL or a bundle answers, whatever the vault holds:
\* the answer is that of a vault without them.  A tree is answered of its cached
\* copy, and leaves no trace of what is hidden by the policies cached in that;
\* a node that was hidden since is shown until the copy is built anew.
THEOREM NoTraceIsLeft == Spec => []HiddenLeaveNoTrace
<1>1. Init => Traced
  BY DEF Init, Traced, HiddenLeaveNoTrace, Replied
<1>2. Traced => HiddenLeaveNoTrace
  BY DEF Traced
<1> QED
  BY <1>1, <1>2, TracedStep, PTL DEF Spec

-----------------------------------------------------------------------------
(***************************************************************************)
(* What a builder holds: items of nodes that may be read, and a budget     *)
(* that is what its texts have left of max_chars.                          *)
(***************************************************************************)
LeadsOn(next, n, X) == \A i \in 1..n : \A x \in X : next[i][x] \in X

LEMMA Runs ==
    ASSUME NEW X, NEW x0 \in X, NEW n \in Nat, NEW next, LeadsOn(next, n, X)
    PROVE  \E f : IsRun(f, n, X, x0, next)
<1> DEFINE more == [i \in Nat |-> [x \in X |-> IF i \in 1..n THEN next[i][x] ELSE x]]
<1>1. more \in [Nat -> [X -> X]]
  BY DEF LeadsOn
<1>2. \A i \in 1..n : \A x \in X : more[i][x] = next[i][x]
  OBVIOUS
<1> HIDE DEF more
<1>3. PICK f : IsRun(f, n, X, x0, more)
  BY <1>1, Iterates
<1>4. f \in [0..n -> X] /\ f[0] = x0 /\ \A i \in 1..n : f[i] = more[i][f[i - 1]]
  BY <1>3 DEF IsRun
<1>5. \A i \in 1..n : f[i - 1] \in X
  <2> TAKE i \in 1..n
  <2>1. i - 1 \in 0..n
    OBVIOUS
  <2> QED
    BY <1>4, <2>1
<1> QED
  BY <1>2, <1>4, <1>5 DEF IsRun

\* The edges a bundle may follow.
EdgesBeside(v, w, r) == UNION {Range(Neighbours(v, w, n, r.kinds)) : n \in ReadableNodes(v, w)}
SeedEdges(v, w) == {Edge(n, "seed", NoNode, NoNode, 0) : n \in ReadableNodes(v, w)}
EdgesIn(v, w, r) == EdgesBeside(v, w, r) \cup SeedEdges(v, w)

LEMMA PieceIsSeq ==
    ASSUME NEW n \in Nat, NEW R, NEW f, f = [i \in 1..n |-> f[i]], \A i \in 1..n : f[i].node \in R
    PROVE  LET Z == {f[i] : i \in 1..n}
           IN  f \in Seq(Z) /\ \A e \in Z : e.node \in R
<1> DEFINE Z == {f[i] : i \in 1..n}
<1>1. f \in [1..n -> Z] /\ \A e \in Z : e.node \in R
  OBVIOUS
<1> HIDE DEF Z
<1>2. f \in Seq(Z)
  BY <1>1
<1> QED
  BY <1>1, <1>2 DEF Z

LEMMA NeighboursAreReadable ==
    ASSUME NEW v, Found(v), NEW w \in Viewers, NEW n \in Nodes, NEW kinds
    PROVE  \E Z : Neighbours(v, w, n, kinds) \in Seq(Z)
                  /\ \A e \in Z : e.node \in ReadableNodes(v, w)
<1> DEFINE R == ReadableNodes(v, w)
           The(S) == CHOOSE m \in S : TRUE
           First(m) == CHOOSE i \in DOMAIN v.text[m] :
                            /\ LeadsTo(v, v.text[m][i], n)
                            /\ \A j \in 1..(i - 1) : ~ LeadsTo(v, v.text[m][j], n)
           up == IF v.parent[n] \in R THEN <<v.parent[n]>> ELSE <<>>
           down == Kept(ByTitle(v, Children(v, n)), R)
           far == {i \in DOMAIN v.text[n] : Meant(v, w, v.text[n][i]) \ {n} # {}}
           out == Kept(Links(v, n), far)
           back == Kept(ByTitle(v, {m \in v.nodes \ {n} : LinksBack(v, m, n)}), R)
           Of(relation, edges) == IF relation \in kinds THEN edges ELSE <<>>
           ups == [i \in DOMAIN up |-> Edge(up[i], "parent", n, NoNode, 0)]
           downs == [i \in DOMAIN down |-> Edge(down[i], "child", n, NoNode, 0)]
           outs == [i \in DOMAIN out |->
                      Edge(The(Meant(v, w, v.text[n][out[i]])), "outlink", n, n, out[i])]
           backs == [i \in DOMAIN back |-> Edge(back[i], "backlink", n, back[i], First(back[i]))]
<1>1. Neighbours(v, w, n, kinds)
      = Of("parent", ups) \o Of("child", downs) \o Of("outlink", outs) \o Of("backlink", backs)
  BY Zenon DEF Neighbours
<1>2. v.title \in [Nodes -> Nat] /\ v.nodes \in SUBSET Nodes /\ v.text[n] \in Seq(Marks)
  BY FoundFields
<1>3. up \in Seq(R)
  OBVIOUS
<1>4. down \in Seq(R)
  <2>1. Children(v, n) \in SUBSET Nodes
    BY <1>2 DEF Children
  <2>2. ByTitle(v, Children(v, n)) \in Seq(Children(v, n))
    BY <1>2, <2>1, InOrderAll DEF ByTitle
  <2>3. down \in Seq(Children(v, n) \cap R)
    BY <2>2, KeptRange
  <2> HIDE DEF down, R
  <2> QED
    BY <2>3, SeqMonotonic
<1>5. out \in Seq(far)
  <2> DEFINE places == [i \in DOMAIN v.text[n] |-> i]
             links == {i \in DOMAIN v.text[n] : v.text[n][i].kind \in {"uuid", "title"}}
  <2>1. places \in Seq(Nat)
    BY <1>2
  <2>2. Links(v, n) = Kept(places, links)
    BY DEF Links
  <2> HIDE DEF places, links, far
  <2>3. Links(v, n) \in Seq(Nat \cap links)
    BY <2>1, <2>2, KeptRange
  <2>4. out \in Seq((Nat \cap links) \cap far)
    BY <2>3, KeptRange
  <2> HIDE DEF out
  <2> QED
    BY <2>4, SeqMonotonic
<1>6. back \in Seq(R)
  <2> DEFINE To == {m \in v.nodes \ {n} : LinksBack(v, m, n)}
  <2>1. To \in SUBSET Nodes
    BY <1>2
  <2>2. back = Kept(ByTitle(v, To), R)
    OBVIOUS
  <2> HIDE DEF To, back, R
  <2>3. ByTitle(v, To) \in Seq(To)
    BY <1>2, <2>1, InOrderAll DEF ByTitle
  <2>4. back \in Seq(To \cap R)
    BY <2>2, <2>3, KeptRange
  <2> QED
    BY <2>4, SeqMonotonic
<1>7. \A i \in far : The(Meant(v, w, v.text[n][i])) \in R
  <2> TAKE i \in far
  <2>1. Meant(v, w, v.text[n][i]) # {}
    OBVIOUS
  <2>2. Meant(v, w, v.text[n][i]) \subseteq R
    BY DEF Meant, ReadableNodes
  <2> DEFINE M == Meant(v, w, v.text[n][i])
  <2> HIDE DEF M, R
  <2>3. The(M) \in M
    BY <2>1 DEF M
  <2> QED
    BY <2>2, <2>3 DEF M
<1> HIDE DEF up, down, out, back, The, First, far, R
<1> DEFINE Zu == {ups[i] : i \in 1..Len(up)}
           Zd == {downs[i] : i \in 1..Len(down)}
           Zo == {outs[i] : i \in 1..Len(out)}
           Zb == {backs[i] : i \in 1..Len(back)}
           Z == Zu \cup Zd \cup Zo \cup Zb
<1>8. ups \in Seq(Zu) /\ \A e \in Zu : e.node \in R
  <2>1. Len(up) \in Nat /\ DOMAIN up = 1..Len(up) /\ \A i \in 1..Len(up) : up[i] \in R
    BY <1>3, LenProperties, ElementOfSeq
  <2>2. ups = [i \in 1..Len(up) |-> ups[i]] /\ \A i \in 1..Len(up) : ups[i].node \in R
    BY <2>1 DEF Edge
  <2> HIDE DEF ups
  <2> QED
    BY <2>1, <2>2, PieceIsSeq
<1>9. downs \in Seq(Zd) /\ \A e \in Zd : e.node \in R
  <2>1. Len(down) \in Nat /\ DOMAIN down = 1..Len(down) /\ \A i \in 1..Len(down) : down[i] \in R
    BY <1>4, LenProperties, ElementOfSeq
  <2>2. downs = [i \in 1..Len(down) |-> downs[i]] /\ \A i \in 1..Len(down) : downs[i].node \in R
    BY <2>1 DEF Edge
  <2> HIDE DEF downs
  <2> QED
    BY <2>1, <2>2, PieceIsSeq
<1>10. outs \in Seq(Zo) /\ \A e \in Zo : e.node \in R
  <2>1. Len(out) \in Nat /\ DOMAIN out = 1..Len(out) /\ \A i \in 1..Len(out) : out[i] \in far
    BY <1>5, LenProperties, ElementOfSeq
  <2>2. outs = [i \in 1..Len(out) |-> outs[i]] /\ \A i \in 1..Len(out) : outs[i].node \in R
    BY <1>7, <2>1 DEF Edge
  <2> HIDE DEF outs
  <2> QED
    BY <2>1, <2>2, PieceIsSeq
<1>11. backs \in Seq(Zb) /\ \A e \in Zb : e.node \in R
  <2>1. Len(back) \in Nat /\ DOMAIN back = 1..Len(back) /\ \A i \in 1..Len(back) : back[i] \in R
    BY <1>6, LenProperties, ElementOfSeq
  <2>2. backs = [i \in 1..Len(back) |-> backs[i]] /\ \A i \in 1..Len(back) : backs[i].node \in R
    BY <2>1 DEF Edge
  <2> HIDE DEF backs
  <2> QED
    BY <2>1, <2>2, PieceIsSeq
<1> HIDE DEF ups, downs, outs, backs, Zu, Zd, Zo, Zb
<1>12. \A e \in Z : e.node \in R
  BY <1>8, <1>9, <1>10, <1>11
<1>13. /\ Zu \subseteq Z /\ Zd \subseteq Z /\ Zo \subseteq Z /\ Zb \subseteq Z
  OBVIOUS
<1> HIDE DEF Z
<1>14. ups \in Seq(Z) /\ downs \in Seq(Z) /\ outs \in Seq(Z) /\ backs \in Seq(Z) /\ <<>> \in Seq(Z)
  BY <1>8, <1>9, <1>10, <1>11, <1>13, SeqMonotonic
<1>15. Of("parent", ups) \in Seq(Z) /\ Of("child", downs) \in Seq(Z)
       /\ Of("outlink", outs) \in Seq(Z) /\ Of("backlink", backs) \in Seq(Z)
  BY <1>14
<1> HIDE DEF Of
<1>16. Neighbours(v, w, n, kinds) \in Seq(Z)
  BY <1>1, <1>15, ConcatProperties
<1> QED
  BY <1>12, <1>16 DEF R

LEMMA EdgesAreReadable ==
    ASSUME NEW v, Found(v), NEW w \in Viewers, NEW r
    PROVE  /\ \A e \in EdgesIn(v, w, r) : e.node \in ReadableNodes(v, w)
           /\ \A frontier \in Seq(ReadableNodes(v, w)) :
                 EdgesOf(v, w, r, frontier) \in Seq(EdgesIn(v, w, r))
<1> DEFINE R == ReadableNodes(v, w)
           E == EdgesIn(v, w, r)
           All(n) == Neighbours(v, w, n, r.kinds)
           A == EdgesBeside(v, w, r)
           B == SeedEdges(v, w)
<1>1. R \in SUBSET Nodes
  BY FoundFields DEF ReadableNodes
<1>2. ASSUME NEW n \in R
      PROVE  All(n) \in Seq(Range(All(n))) /\ \A e \in Range(All(n)) : e.node \in R
  <2>1. PICK Z : All(n) \in Seq(Z) /\ \A e \in Z : e.node \in R
    BY <1>1, NeighboursAreReadable
  <2> HIDE DEF All, R
  <2> QED
    BY <2>1, SeqOfRange, RangeOfSeq
<1>3. E = A \cup B
  BY DEF EdgesIn
<1> HIDE DEF E
<1>4. \A e \in E : e.node \in R
  <2>1. \A n : Edge(n, "seed", NoNode, NoNode, 0).node = n
    BY DEF Edge
  <2> TAKE e \in E
  <2>2. CASE \E n \in R : e \in Range(All(n))
    BY <1>2, <2>2
  <2>3. CASE \E n \in R : e = Edge(n, "seed", NoNode, NoNode, 0)
    BY <2>1, <2>3
  <2>4. e \in A => \E n \in R : e \in Range(All(n))
    BY Zenon DEF EdgesBeside
  <2>5. e \in B => \E n \in R : e = Edge(n, "seed", NoNode, NoNode, 0)
    BY Zenon DEF SeedEdges
  <2>7. e \in A \/ e \in B
    BY <1>3
  <2> QED
    BY <2>2, <2>3, <2>4, <2>5, <2>7, Zenon
<1>5. \A n \in R : All(n) \in Seq(E)
  <2> TAKE n \in R
  <2>1. \A e \in Range(All(n)) : e \in A
    BY Zenon DEF EdgesBeside
  <2> HIDE DEF A, B
  <2>2. Range(All(n)) \subseteq E
    BY <1>3, <2>1
  <2> QED
    BY <1>2, <2>2, SeqMonotonic
<1> HIDE DEF All
<1>6. ASSUME NEW frontier \in Seq(R) PROVE EdgesOf(v, w, r, frontier) \in Seq(E)
  <2> DEFINE seqs == [i \in DOMAIN frontier |-> All(frontier[i])]
             found == FlattenSeq(seqs)
             Of(relation) == Kept(found, {e \in Range(found) : e.relation = relation})
  <2>1. EdgesOf(v, w, r, frontier) = Of("parent") \o Of("child") \o Of("outlink") \o Of("backlink")
    BY Zenon DEF EdgesOf, InRelationOrder, All
  <2>2. seqs \in Seq(Seq(E))
    <3>1. Len(frontier) \in Nat /\ DOMAIN frontier = 1..Len(frontier)
          /\ \A i \in 1..Len(frontier) : frontier[i] \in R
      BY LenProperties, ElementOfSeq
    <3>2. seqs \in [1..Len(frontier) -> Seq(E)]
      BY <1>5, <3>1
    <3> HIDE DEF seqs
    <3> QED
      BY <3>1, <3>2
  <2> HIDE DEF seqs
  <2>3. found \in Seq(E)
    BY <2>2, Flattened
  <2> HIDE DEF found
  <2>4. \A relation : Of(relation) \in Seq(E)
    <3> TAKE relation
    <3> DEFINE S == {e \in Range(found) : e.relation = relation}
    <3> HIDE DEF S
    <3>1. Kept(found, S) \in Seq(E \cap S)
      BY <2>3, KeptRange
    <3>2. Kept(found, S) \in Seq(E)
      BY <3>1, SeqMonotonic
    <3> QED
      BY <3>2 DEF S
  <2> HIDE DEF Of
  <2> QED
    BY <2>1, <2>4, ConcatProperties
<1> QED
  BY <1>4, <1>6 DEF E

\* The texts that add up: the budget spent on one more is spent on that one.
LEMMA SpentSteps ==
    ASSUME NEW X, \A x \in X : x.shown.content \in Nat, NEW items \in Seq(X), NEW own \in Nat
    PROVE  \E total \in [0..Len(items) -> Nat] :
              /\ total[0] = own /\ Spent(own, items) = total[Len(items)]
              /\ \A i \in 1..Len(items) : total[i] = total[i - 1] + items[i].shown.content
<1> DEFINE n == Len(items)
           Step(i, s) == s + items[i].shown.content
           next == [i \in 1..n |-> [s \in Nat |-> Step(i, s)]]
           Way(total) == total = [i \in 0..n |-> IF i = 0 THEN own ELSE Step(i, total[i - 1])]
<1>1. n \in Nat /\ \A i \in 1..n : items[i] \in X
  BY LenProperties, ElementOfSeq
<1>2. \A i \in 1..n, s \in Nat : Step(i, s) \in Nat
  BY <1>1
<1> HIDE DEF n
<1>3. PICK f \in [0..n -> Nat] : f[0] = own /\ \A i \in 1..n : f[i] = next[i][f[i - 1]]
  <2>1. LeadsOn(next, n, Nat)
    <3> HIDE DEF Step
    <3> QED
      BY <1>2 DEF LeadsOn
  <2>2. n \in Nat
    BY <1>1
  <2> HIDE DEF next
  <2>3. PICK f : IsRun(f, n, Nat, own, next)
    BY <2>1, <2>2, Runs
  <2> QED
    BY <2>3 DEF IsRun
<1>4. \A i \in 1..n : f[i] = Step(i, f[i - 1])
  <2> TAKE i \in 1..n
  <2>1. i - 1 \in 0..n
    BY <1>1
  <2>2. f[i - 1] \in Nat
    BY <2>1
  <2> HIDE DEF Step
  <2> QED
    BY <1>3, <2>2
<1>5. Way(f)
  <2>1. ASSUME NEW i \in 0..n PROVE f[i] = IF i = 0 THEN own ELSE Step(i, f[i - 1])
    <3>1. i # 0 => i \in 1..n
      BY <1>1
    <3> HIDE DEF Step
    <3> QED
      BY <1>3, <1>4, <3>1
  <2>2. f = [i \in 0..n |-> f[i]]
    OBVIOUS
  <2> HIDE DEF Step
  <2> QED
    BY <2>1, <2>2
<1> DEFINE total == CHOOSE total : Way(total)
<1>6. Way(total)
  <2> HIDE DEF Way
  <2> QED
    BY <1>5
<1>7. Spent(own, items) = total[n]
  BY Zenon DEF Spent, n
<1> HIDE DEF total
<1>8. total[0] = own /\ \A i \in 1..n : total[i] = Step(i, total[i - 1])
  <2>1. 0 \in 0..n /\ \A i \in 1..n : i \in 0..n /\ i # 0
    BY <1>1
  <2> HIDE DEF Step
  <2> QED
    BY <1>6, <2>1
<1>9. \A i \in 0..n : total[i] \in Nat
  <2>1. \A i \in 1..n : total[i - 1] \in Nat => total[i] \in Nat
    <3> HIDE DEF Step
    <3> QED
      BY <1>2, <1>8
  <2> QED
    BY <1>1, <1>8, <2>1, Stays
<1>10. total \in [0..n -> Nat]
  <2>1. total = [i \in 0..n |-> total[i]]
    <3>1. DOMAIN total = 0..n
      BY <1>6
    <3> HIDE DEF Step
    <3> QED
      BY <1>6, <3>1
  <2> QED
    BY <1>9, <2>1
<1> QED
  BY <1>7, <1>8, <1>10 DEF n

LEMMA SpentOnNone == \A own : Spent(own, <<>>) = own
<1> TAKE own
<1> DEFINE none == <<>>
           Way(total) == total = [i \in 0..Len(none) |->
                            IF i = 0 THEN own ELSE total[i - 1] + none[i].shown.content]
<1>1. Len(none) = 0
  OBVIOUS
<1>2. Way([i \in 0..Len(none) |-> own])
  BY <1>1
<1> DEFINE total == CHOOSE total : Way(total)
<1>3. Way(total)
  <2> HIDE DEF Way
  <2> QED
    BY <1>2
<1>4. Spent(own, none) = total[Len(none)]
  BY Zenon DEF Spent
<1> HIDE DEF total
<1> QED
  BY <1>1, <1>3, <1>4

LEMMA SpentOnMore ==
    ASSUME NEW X, \A x \in X : x.shown.content \in Nat, NEW items \in Seq(X), NEW own \in Nat,
           NEW x \in X
    PROVE  /\ Spent(own, <<>>) = own
           /\ Spent(own, items) \in Nat
           /\ Spent(own, Append(items, x)) = Spent(own, items) + x.shown.content
<1> DEFINE more == Append(items, x)
           n == Len(items)
<1>1. more \in Seq(X) /\ Len(more) = n + 1 /\ more[n + 1] = x /\ \A i \in 1..n : more[i] = items[i]
  BY AppendProperties
<1>2. n \in Nat
  OBVIOUS
<1> HIDE DEF more
<1>3. PICK f \in [0..n -> Nat] :
           /\ f[0] = own /\ Spent(own, items) = f[n]
           /\ \A i \in 1..n : f[i] = f[i - 1] + items[i].shown.content
  BY SpentSteps
<1>4. PICK g \in [0..(n + 1) -> Nat] :
           /\ g[0] = own /\ Spent(own, more) = g[n + 1]
           /\ \A i \in 1..(n + 1) : g[i] = g[i - 1] + more[i].shown.content
  <2>1. \E g \in [0..Len(more) -> Nat] :
           /\ g[0] = own /\ Spent(own, more) = g[Len(more)]
           /\ \A i \in 1..Len(more) : g[i] = g[i - 1] + more[i].shown.content
    BY <1>1, SpentSteps
  <2> QED
    BY <1>1, <2>1
<1> HIDE DEF n
<1> DEFINE Same == {i \in 0..n : f[i] = g[i]}
<1>5. \A i \in 0..n : i \in Same
  <2>1. 0 \in Same
    BY <1>2, <1>3, <1>4
  <2>2. ASSUME NEW i \in 1..n, i - 1 \in Same PROVE i \in Same
    <3>1. i \in 0..n /\ i - 1 \in 0..n /\ i \in 1..(n + 1)
      BY <1>2
    <3> QED
      BY <1>1, <1>3, <1>4, <2>2, <3>1
  <2> HIDE DEF Same
  <2> QED
    BY <1>2, <2>1, <2>2, Upwards
<1>6. g[n] = f[n] /\ f[n] \in Nat
  BY <1>2, <1>5
<1>7. g[n + 1] = g[n] + x.shown.content
  <2>1. n + 1 \in 1..(n + 1) /\ (n + 1) - 1 = n
    BY <1>2
  <2> QED
    BY <1>1, <1>4, <2>1
<1>8. Spent(own, <<>>) = own
  BY SpentOnNone
<1> QED
  BY <1>3, <1>4, <1>6, <1>7, <1>8 DEF more

LEMMA SpentTheSame ==
    ASSUME NEW items, NEW others, Len(items) = Len(others), NEW own,
           \A i \in 1..Len(items) : items[i].shown = others[i].shown, Len(items) \in Nat
    PROVE  Spent(own, items) = Spent(own, others)
<1> DEFINE n == Len(items)
           V(total) == [i \in 0..n |-> IF i = 0 THEN own ELSE total[i - 1] + items[i].shown.content]
           U(total) == [i \in 0..n |-> IF i = 0 THEN own ELSE total[i - 1] + others[i].shown.content]
<1>1. \A total : V(total) = U(total)
  <2> TAKE total
  <2>1. ASSUME NEW i \in 0..n
        PROVE  (IF i = 0 THEN own ELSE total[i - 1] + items[i].shown.content)
               = IF i = 0 THEN own ELSE total[i - 1] + others[i].shown.content
    <3>1. i # 0 => i \in 1..n
      BY DEF n
    <3> QED
      BY <3>1
  <2> HIDE DEF n
  <2> QED
    BY <2>1
<1>2. Spent(own, items) = (CHOOSE total : total = V(total))[n]
  BY Zenon DEF Spent
<1>3. Spent(own, others) = (CHOOSE total : total = U(total))[Len(others)]
  BY Zenon DEF Spent
<1>4. (CHOOSE total : total = V(total)) = (CHOOSE total : total = U(total))
  <2> HIDE DEF U, V
  <2> QED
    BY <1>1
<1> HIDE DEF U, V
<1> QED
  BY <1>2, <1>3, <1>4

-----------------------------------------------------------------------------
\* An item, and a builder on its way: own is what the root's text took of the
\* budget, and cut whether that text was cut.
Texts(v, w) ==
    [node : ReadableNodes(v, w), title : Nat, parent_id : Nat, version : Nat,
     policy : {EffectivePolicy(v, n) : n \in ReadableNodes(v, w)}, content : Nat,
     content_chars : Nat]

ItemsOf(v, w, r) ==
    [node : ReadableNodes(v, w), edge : EdgesIn(v, w, r), distance : Nat,
     other_relations : SUBSET [edge : EdgesIn(v, w, r), distance : Nat], shown : Texts(v, w)]

BuilderType(v, w, r) ==
    [items : Seq(ItemsOf(v, w, r)), seen : SUBSET ReadableNodes(v, w), omitted : Nat,
     chars_left : Nat, exhausted : BOOLEAN, frontier : Seq(ReadableNodes(v, w))]

\* A text that is shorter than it was wanted.
IsCut(v, r, text) == text.content < Wanted(v, r, text.node)

\* What is left of a budget, and whether it has been felt.
Balanced(v, r, own, cut, items, left, exhausted) ==
    /\ Spent(own, items) + left = r.max_chars
    /\ exhausted <=> cut \/ \E i \in DOMAIN items : IsCut(v, r, items[i].shown)
    /\ exhausted => left = 0

Builders(v, w, r, own, cut) ==
    {b \in BuilderType(v, w, r) : Balanced(v, r, own, cut, b.items, b.chars_left, b.exhausted)}

\* What is asked of a bundle.
IsLimits(r) ==
    /\ r.depth \in Nat /\ r.max_items \in Nat /\ r.seed_limit \in Nat /\ r.max_chars \in Nat
    /\ r.mode \in {"none", "snippets", "full"}

LEMMA TextsFit ==
    ASSUME NEW v, Found(v), NEW w \in Viewers, NEW r, IsLimits(r), NEW b, b.chars_left \in Nat,
           NEW n \in ReadableNodes(v, w)
    PROVE  /\ Wanted(v, r, n) \in Nat
           /\ Describe(v, r, b, n) \in Texts(v, w) /\ Describe(v, r, b, n).node = n
           /\ Describe(v, r, b, n).content = Allowed(v, r, b, n)
           /\ Allowed(v, r, b, n) \in Nat /\ Allowed(v, r, b, n) <= b.chars_left
           /\ Allowed(v, r, b, n) < Wanted(v, r, n) => Allowed(v, r, b, n) = b.chars_left
<1>1. n \in Nodes /\ v.size[n] \in Nat /\ v.title[n] \in Nat /\ v.parent[n] \in Nat
      /\ v.versions[n] \in Nat
  <2>1. n \in Nodes
    BY FoundFields DEF ReadableNodes
  <2>2. v.parent[n] \in Nodes \cup {NoNode}
    BY <2>1, FoundFields
  <2>3. Nodes \subseteq Nat /\ NoNode \in Nat
    BY DEF Nodes, NoNode
  <2>4. v.size[n] \in Nat /\ v.title[n] \in Nat /\ v.versions[n] \in Nat
    BY <2>1, FoundFields
  <2> QED
    BY <2>1, <2>2, <2>3, <2>4
<1>2. Wanted(v, r, n) \in Nat
  <2>1. SnippetChars \in Nat
    BY RequestsAssumption
  <2>2. Smaller(v.size[n], SnippetChars) \in Nat
    BY <1>1, <2>1 DEF Smaller
  <2>3. r.mode = "none" \/ r.mode = "snippets" \/ r.mode = "full"
    BY DEF IsLimits
  <2> QED
    BY <1>1, <2>2, <2>3 DEF Wanted
<1>3. /\ Allowed(v, r, b, n) \in Nat /\ Allowed(v, r, b, n) <= b.chars_left
      /\ Allowed(v, r, b, n) < Wanted(v, r, n) => Allowed(v, r, b, n) = b.chars_left
  <2> DEFINE x == Wanted(v, r, n)
  <2>1. Allowed(v, r, b, n) = IF x < b.chars_left THEN x ELSE b.chars_left
    BY DEF Allowed, Smaller
  <2>2. x \in Nat
    BY <1>2
  <2> HIDE DEF x
  <2>3. /\ Allowed(v, r, b, n) \in Nat /\ Allowed(v, r, b, n) <= b.chars_left
        /\ Allowed(v, r, b, n) < x => Allowed(v, r, b, n) = b.chars_left
    BY <2>1, <2>2
  <2> QED
    BY <2>3 DEF x
<1>4. Describe(v, r, b, n) \in Texts(v, w) /\ Describe(v, r, b, n).node = n
      /\ Describe(v, r, b, n).content = Allowed(v, r, b, n)
  <2> DEFINE policy == EffectivePolicy(v, n)
             content == Allowed(v, r, b, n)
             P == {EffectivePolicy(v, m) : m \in ReadableNodes(v, w)}
  <2>1. policy \in P /\ content \in Nat
    BY <1>3
  <2>2. Describe(v, r, b, n) =
           [node |-> n, title |-> v.title[n], parent_id |-> v.parent[n], version |-> v.versions[n],
            policy |-> policy, content |-> content, content_chars |-> v.size[n]]
    BY DEF Describe
  <2>3. Texts(v, w) =
           [node : ReadableNodes(v, w), title : Nat, parent_id : Nat, version : Nat,
            policy : P, content : Nat, content_chars : Nat]
    BY DEF Texts
  <2> HIDE DEF policy, content, P
  <2>4. Describe(v, r, b, n) \in Texts(v, w) /\ Describe(v, r, b, n).node = n
        /\ Describe(v, r, b, n).content = content
    BY <1>1, <2>1, <2>2, <2>3
  <2> QED
    BY <2>4 DEF content
<1> QED
  BY <1>2, <1>3, <1>4

LEMMA BuilderFields ==
    ASSUME NEW v, NEW w, NEW r, NEW own, NEW cut, NEW b \in Builders(v, w, r, own, cut)
    PROVE  /\ b = [items |-> b.items, seen |-> b.seen, omitted |-> b.omitted,
                   chars_left |-> b.chars_left, exhausted |-> b.exhausted, frontier |-> b.frontier]
           /\ b.items \in Seq(ItemsOf(v, w, r)) /\ b.seen \in SUBSET ReadableNodes(v, w)
           /\ b.omitted \in Nat /\ b.chars_left \in Nat /\ b.exhausted \in BOOLEAN
           /\ b.frontier \in Seq(ReadableNodes(v, w))
<1> DEFINE I == ItemsOf(v, w, r)
           R == ReadableNodes(v, w)
<1>1. b \in [items : Seq(I), seen : SUBSET R, omitted : Nat,
             chars_left : Nat, exhausted : BOOLEAN, frontier : Seq(R)]
  BY DEF Builders, BuilderType
<1> HIDE DEF I, R
<1>2. /\ b = [items |-> b.items, seen |-> b.seen, omitted |-> b.omitted,
              chars_left |-> b.chars_left, exhausted |-> b.exhausted, frontier |-> b.frontier]
      /\ b.items \in Seq(I) /\ b.seen \in SUBSET R /\ b.omitted \in Nat /\ b.chars_left \in Nat
      /\ b.exhausted \in BOOLEAN /\ b.frontier \in Seq(R)
  BY <1>1
<1> QED
  BY <1>2 DEF I, R

\* A builder of these parts.
Made(items, seen, omitted, chars_left, exhausted, frontier) ==
    [items |-> items, seen |-> seen, omitted |-> omitted, chars_left |-> chars_left,
     exhausted |-> exhausted, frontier |-> frontier]

IsMade(b, items, seen, omitted, chars_left, exhausted, frontier) ==
    /\ b = [i \in {"items", "seen", "omitted", "chars_left", "exhausted", "frontier"} |-> b[i]]
    /\ b.items = items /\ b.seen = seen /\ b.omitted = omitted /\ b.chars_left = chars_left
    /\ b.exhausted = exhausted /\ b.frontier = frontier

LEMMA MadeIs ==
    ASSUME NEW b, NEW items, NEW seen, NEW omitted, NEW chars_left, NEW exhausted, NEW frontier,
           IsMade(b, items, seen, omitted, chars_left, exhausted, frontier)
    PROVE  b = Made(items, seen, omitted, chars_left, exhausted, frontier)
  BY DEF IsMade, Made

LEMMA MadeFits ==
    ASSUME NEW v, NEW w, NEW r, NEW own, NEW cut,
           NEW items \in Seq(ItemsOf(v, w, r)), NEW seen \in SUBSET ReadableNodes(v, w),
           NEW omitted \in Nat, NEW chars_left \in Nat, NEW exhausted \in BOOLEAN,
           NEW frontier \in Seq(ReadableNodes(v, w)),
           Balanced(v, r, own, cut, items, chars_left, exhausted)
    PROVE  Made(items, seen, omitted, chars_left, exhausted, frontier) \in Builders(v, w, r, own, cut)
<1> DEFINE b == Made(items, seen, omitted, chars_left, exhausted, frontier)
           I == ItemsOf(v, w, r)
           R == ReadableNodes(v, w)
<1>1. /\ b.items = items /\ b.seen = seen /\ b.omitted = omitted /\ b.chars_left = chars_left
      /\ b.exhausted = exhausted /\ b.frontier = frontier
  BY DEF Made
<1>2. items \in Seq(I) /\ seen \in SUBSET R /\ frontier \in Seq(R)
  OBVIOUS
<1>3. b \in BuilderType(v, w, r)
  <2> HIDE DEF I, R
  <2>1. b \in [items : Seq(I), seen : SUBSET R, omitted : Nat,
               chars_left : Nat, exhausted : BOOLEAN, frontier : Seq(R)]
    BY <1>2 DEF Made
  <2> QED
    BY <2>1 DEF BuilderType, I, R
<1> HIDE DEF b
<1> QED
  BY <1>1, <1>3 DEF Builders, b

LEMMA ItemsShow ==
    ASSUME NEW v, NEW w, NEW r
    PROVE  \A x \in ItemsOf(v, w, r) :
              x.shown.content \in Nat /\ x.node \in ReadableNodes(v, w)
  BY DEF ItemsOf, Texts

LEMMA AddFits ==
    ASSUME NEW v, Found(v), NEW w \in Viewers, NEW r, IsLimits(r), NEW own \in Nat, NEW cut \in BOOLEAN,
           NEW b \in Builders(v, w, r, own, cut), NEW e \in EdgesIn(v, w, r), NEW d \in Nat
    PROVE  Add(v, r, b, e, d) \in Builders(v, w, r, own, cut)
<1> DEFINE n == e.node
           R == ReadableNodes(v, w)
           E == EdgesIn(v, w, r)
           I == ItemsOf(v, w, r)
           text == Describe(v, r, b, n)
           a == Allowed(v, r, b, n)
           k == Wanted(v, r, n)
           x == [node |-> n, edge |-> e, distance |-> d, other_relations |-> {}, shown |-> text]
           items == Append(b.items, x)
           left == b.chars_left - a
           exhausted == b.exhausted \/ a < k
           frontier == Append(b.frontier, n)
<1>1. n \in R
  BY EdgesAreReadable
<1>2. /\ b = [items |-> b.items, seen |-> b.seen, omitted |-> b.omitted,
              chars_left |-> b.chars_left, exhausted |-> b.exhausted, frontier |-> b.frontier]
      /\ b.items \in Seq(I) /\ b.seen \in SUBSET R /\ b.omitted \in Nat /\ b.chars_left \in Nat
      /\ b.exhausted \in BOOLEAN /\ b.frontier \in Seq(R)
  BY BuilderFields
<1>3. /\ k \in Nat /\ text \in Texts(v, w) /\ text.node = n /\ text.content = a
      /\ a \in Nat /\ a <= b.chars_left /\ (a < k => a = b.chars_left)
  BY <1>1, <1>2, TextsFit
<1>4. /\ Spent(own, b.items) + b.chars_left = r.max_chars
      /\ b.exhausted <=> cut \/ \E i \in DOMAIN b.items : IsCut(v, r, b.items[i].shown)
      /\ b.exhausted => b.chars_left = 0
  BY DEF Builders, Balanced
<1>5. Add(v, r, b, e, d) = Made(items, b.seen, b.omitted, left, exhausted, frontier)
  <2> HIDE DEF a, k, text
  <2>1. Add(v, r, b, e, d) =
           [[b EXCEPT !.chars_left = @ - a, !.exhausted = @ \/ a < k] EXCEPT
              !.items = Append(@, x), !.frontier = Append(@, n)]
    BY DEF Add, TextFor, a, k, text
  <2> DEFINE z == b.exhausted \/ a < k
             c == Made(b.items, b.seen, b.omitted, b.chars_left, b.exhausted, b.frontier)
  <2>2. b = c
    BY <1>2 DEF Made
  <2>3. [c EXCEPT !.chars_left = @ - a, !.exhausted = @ \/ a < k]
        = [c EXCEPT !.chars_left = b.chars_left - a, !.exhausted = z]
    BY DEF Made
  <2>4. [c EXCEPT !.chars_left = b.chars_left - a, !.exhausted = z]
        = Made(b.items, b.seen, b.omitted, b.chars_left - a, z, b.frontier)
    <3> HIDE DEF z
    <3>1. IsMade([c EXCEPT !.chars_left = b.chars_left - a, !.exhausted = z],
                 b.items, b.seen, b.omitted, b.chars_left - a, z, b.frontier)
      BY DEF Made, IsMade
    <3> HIDE DEF c
    <3> QED
      BY <3>1, MadeIs
  <2> DEFINE f == Made(b.items, b.seen, b.omitted, b.chars_left - a, z, b.frontier)
             p == Append(b.items, x)
             q == Append(b.frontier, n)
  <2>5. [f EXCEPT !.items = Append(@, x), !.frontier = Append(@, n)]
        = [f EXCEPT !.items = p, !.frontier = q]
    BY DEF Made
  <2>6. [f EXCEPT !.items = p, !.frontier = q]
        = Made(p, b.seen, b.omitted, b.chars_left - a, z, q)
    <3> HIDE DEF p, q, z
    <3>1. IsMade([f EXCEPT !.items = p, !.frontier = q],
                 p, b.seen, b.omitted, b.chars_left - a, z, q)
      BY DEF Made, IsMade
    <3> HIDE DEF f
    <3> QED
      BY <3>1, MadeIs
  <2> HIDE DEF c, f, x
  <2>7. [b EXCEPT !.chars_left = @ - a, !.exhausted = @ \/ a < k] = f
    BY <2>2, <2>3, <2>4 DEF f
  <2> QED
    BY <2>1, <2>5, <2>6, <2>7
<1>6. x \in I
  <2> HIDE DEF text, E, R
  <2> DEFINE T == Texts(v, w)
  <2>1. I = [node : R, edge : E, distance : Nat,
             other_relations : SUBSET [edge : E, distance : Nat], shown : T]
    BY DEF ItemsOf, E, R
  <2>2. text \in T /\ e \in E
    BY <1>3 DEF E
  <2> HIDE DEF T, I
  <2> QED
    BY <1>1, <2>1, <2>2
<1>7. /\ items \in Seq(I) /\ Len(items) = Len(b.items) + 1 /\ Len(b.items) \in Nat
      /\ items[Len(b.items) + 1] = x /\ \A i \in 1..Len(b.items) : items[i] = b.items[i]
  <2> HIDE DEF x, I
  <2> QED
    BY <1>2, <1>6, AppendProperties, LenProperties
<1>8. Spent(own, items) = Spent(own, b.items) + a /\ Spent(own, b.items) \in Nat
  <2>1. \A y \in I : y.shown.content \in Nat
    BY ItemsShow
  <2>2. x.shown.content = a
    BY <1>3
  <2> HIDE DEF x, I, a
  <2> QED
    BY <1>2, <1>6, <2>1, <2>2, SpentOnMore
<1>9. exhausted <=> cut \/ \E i \in DOMAIN items : IsCut(v, r, items[i].shown)
  <2>1. DOMAIN items = 1..(Len(b.items) + 1) /\ DOMAIN b.items = 1..Len(b.items)
    <3> HIDE DEF items, I
    <3> QED
      BY <1>2, <1>7, LenProperties
  <2>2. IsCut(v, r, x.shown) <=> a < k
    BY <1>3 DEF IsCut
  <2>3. (\E i \in DOMAIN items : IsCut(v, r, items[i].shown))
        <=> (\E i \in DOMAIN b.items : IsCut(v, r, b.items[i].shown)) \/ IsCut(v, r, x.shown)
    <3> DEFINE m == Len(b.items)
    <3>1. \A i \in 1..(m + 1) : i \in 1..m \/ i = m + 1
      BY <1>7
    <3>2. \A i \in 1..m : i \in 1..(m + 1)
      BY <1>7
    <3>3. m + 1 \in 1..(m + 1)
      BY <1>7
    <3> HIDE DEF x, items, m, I
    <3> QED
      BY <1>7, <2>1, <3>1, <3>2, <3>3 DEF m
  <2> HIDE DEF x, items, a, k
  <2> QED
    BY <1>4, <2>2, <2>3
<1>10. frontier \in Seq(R)
  <2> HIDE DEF n, R
  <2> QED
    BY <1>1, <1>2, AppendProperties
<1> HIDE DEF a, k, items, x, text, frontier, R
<1>11. left \in Nat /\ Spent(own, items) + left = r.max_chars /\ (exhausted => left = 0)
       /\ exhausted \in BOOLEAN
  BY <1>2, <1>3, <1>4, <1>8
<1> HIDE DEF left, exhausted
<1>12. items \in Seq(ItemsOf(v, w, r)) /\ frontier \in Seq(ReadableNodes(v, w))
       /\ b.seen \in SUBSET ReadableNodes(v, w)
  BY <1>2, <1>7, <1>10 DEF R
<1>13. Balanced(v, r, own, cut, items, left, exhausted)
  BY <1>9, <1>11 DEF Balanced
<1> QED
  BY <1>2, <1>5, <1>11, <1>12, <1>13, MadeFits

\* What a builder has seen, left out or is about to expand costs nothing.
LEMMA OtherFieldsFit ==
    ASSUME NEW v, NEW w, NEW r, NEW own, NEW cut, NEW b \in Builders(v, w, r, own, cut),
           NEW seen \in SUBSET ReadableNodes(v, w), NEW omitted \in Nat,
           NEW frontier \in Seq(ReadableNodes(v, w))
    PROVE  Made(b.items, seen, omitted, b.chars_left, b.exhausted, frontier)
           \in Builders(v, w, r, own, cut)
<1>1. /\ b.items \in Seq(ItemsOf(v, w, r)) /\ b.chars_left \in Nat /\ b.exhausted \in BOOLEAN
  BY BuilderFields
<1>2. Balanced(v, r, own, cut, b.items, b.chars_left, b.exhausted)
  BY DEF Builders
<1> QED
  BY <1>1, <1>2, MadeFits

LEMMA AlsoFits ==
    ASSUME NEW v, NEW w \in Viewers, NEW r, NEW own \in Nat, NEW cut \in BOOLEAN,
           NEW b \in Builders(v, w, r, own, cut), NEW e \in EdgesIn(v, w, r), NEW d \in Nat
    PROVE  [b EXCEPT !.items = [i \in DOMAIN @ |-> Noted(@[i], e, d)]]
           \in Builders(v, w, r, own, cut)
<1> DEFINE also == [edge |-> e, distance |-> d]
           I == ItemsOf(v, w, r)
           n == Len(b.items)
           items == [i \in DOMAIN b.items |-> Noted(b.items[i], e, d)]
<1>1. b.items \in Seq(I) /\ b.chars_left \in Nat /\ b.exhausted \in BOOLEAN
      /\ b.seen \in SUBSET ReadableNodes(v, w) /\ b.omitted \in Nat
      /\ b.frontier \in Seq(ReadableNodes(v, w))
  BY BuilderFields
<1>2. n \in Nat /\ DOMAIN b.items = 1..n /\ \A i \in 1..n : b.items[i] \in I
  <2> HIDE DEF I
  <2> QED
    BY <1>1, LenProperties, ElementOfSeq
<1>3. \A x \in I : Noted(x, e, d) \in I /\ Noted(x, e, d).shown = x.shown
  <2> DEFINE R == ReadableNodes(v, w)
             E == EdgesIn(v, w, r)
             T == Texts(v, w)
             A == [edge : E, distance : Nat]
  <2>1. I = [node : R, edge : E, distance : Nat, other_relations : SUBSET A, shown : T]
    BY DEF ItemsOf
  <2>2. also \in A
    OBVIOUS
  <2>3. \A x : Noted(x, e, d) = x \/ Noted(x, e, d) = [x EXCEPT !.other_relations = @ \cup {also}]
    BY DEF Noted
  <2> HIDE DEF R, E, T, A, also, I
  <2>4. \A x \in I : /\ [x EXCEPT !.other_relations = @ \cup {also}] \in I
                      /\ [x EXCEPT !.other_relations = @ \cup {also}].shown = x.shown
    BY <2>1, <2>2
  <2> QED
    BY <2>3, <2>4
<1>4. items \in Seq(I) /\ Len(items) = n /\ DOMAIN items = 1..n
      /\ \A i \in 1..n : items[i].shown = b.items[i].shown
  <2> HIDE DEF n, I
  <2>1. items \in [1..n -> I]
    BY <1>2, <1>3
  <2>2. \A i \in 1..n : items[i].shown = b.items[i].shown
    BY <1>2, <1>3
  <2>3. DOMAIN items = 1..n
    BY <1>2
  <2> HIDE DEF items
  <2> QED
    BY <1>2, <2>1, <2>2, <2>3
<1>5. /\ Spent(own, b.items) + b.chars_left = r.max_chars
      /\ b.exhausted <=> cut \/ \E i \in DOMAIN b.items : IsCut(v, r, b.items[i].shown)
      /\ b.exhausted => b.chars_left = 0
  BY DEF Builders, Balanced
<1>6. [b EXCEPT !.items = [i \in DOMAIN @ |-> Noted(@[i], e, d)]] = [b EXCEPT !.items = items]
  OBVIOUS
<1> HIDE DEF items, n, also
<1>7. [b EXCEPT !.items = items]
      = Made(items, b.seen, b.omitted, b.chars_left, b.exhausted, b.frontier)
  <2>1. b = Made(b.items, b.seen, b.omitted, b.chars_left, b.exhausted, b.frontier)
    BY BuilderFields DEF Made
  <2>2. IsMade([b EXCEPT !.items = items],
               items, b.seen, b.omitted, b.chars_left, b.exhausted, b.frontier)
    BY <2>1 DEF Made, IsMade
  <2> QED
    BY <2>2, MadeIs
<1>8. Spent(own, items) = Spent(own, b.items)
  <2> DEFINE p == b.items
  <2>1. Len(items) = Len(p) /\ Len(p) \in Nat /\ \A i \in 1..Len(items) : items[i].shown = p[i].shown
    BY <1>2, <1>4 DEF n
  <2> HIDE DEF p
  <2>2. Spent(own, items) = Spent(own, p)
    BY <2>1, SpentTheSame
  <2> QED
    BY <2>2 DEF p
<1>9. b.exhausted <=> cut \/ \E i \in DOMAIN items : IsCut(v, r, items[i].shown)
  BY <1>2, <1>4, <1>5
<1>10. Made(items, b.seen, b.omitted, b.chars_left, b.exhausted, b.frontier)
       \in Builders(v, w, r, own, cut)
  <2>1. Balanced(v, r, own, cut, items, b.chars_left, b.exhausted)
    BY <1>5, <1>8, <1>9 DEF Balanced
  <2> QED
    BY <1>1, <1>4, <2>1, MadeFits
<1> QED
  BY <1>6, <1>7, <1>10

LEMMA VisitFits ==
    ASSUME NEW v, Found(v), NEW w \in Viewers, NEW r, IsLimits(r), NEW own \in Nat, NEW cut \in BOOLEAN,
           NEW b \in Builders(v, w, r, own, cut), NEW e \in EdgesIn(v, w, r), NEW d \in Nat
    PROVE  Visit(v, r, b, e, d) \in Builders(v, w, r, own, cut)
<1> DEFINE X == Builders(v, w, r, own, cut)
           seen == b.seen \cup {e.node}
<1>1. b.seen \in SUBSET ReadableNodes(v, w) /\ b.omitted \in Nat
      /\ b.frontier \in Seq(ReadableNodes(v, w))
  BY BuilderFields
<1>2. seen \in SUBSET ReadableNodes(v, w)
  BY <1>1, EdgesAreReadable
<1>3. b = Made(b.items, b.seen, b.omitted, b.chars_left, b.exhausted, b.frontier)
  BY BuilderFields DEF Made
<1> HIDE DEF seen
<1>4. CASE e.node \in b.seen
  BY <1>4, AlsoFits DEF Visit
<1>5. CASE e.node \notin b.seen /\ Len(b.items) >= r.max_items
  <2>1. Visit(v, r, b, e, d) = [b EXCEPT !.seen = seen, !.omitted = b.omitted + 1]
    BY <1>5 DEF Visit, seen
  <2>2. IsMade([b EXCEPT !.seen = seen, !.omitted = b.omitted + 1],
               b.items, seen, b.omitted + 1, b.chars_left, b.exhausted, b.frontier)
    BY <1>3 DEF Made, IsMade
  <2>3. Visit(v, r, b, e, d)
        = Made(b.items, seen, b.omitted + 1, b.chars_left, b.exhausted, b.frontier)
    BY <2>1, <2>2, MadeIs
  <2>4. b.omitted + 1 \in Nat
    BY <1>1
  <2> QED
    BY <1>1, <1>2, <2>3, <2>4, OtherFieldsFit
<1>6. CASE e.node \notin b.seen /\ ~ (Len(b.items) >= r.max_items)
  <2> DEFINE c == [b EXCEPT !.seen = seen]
  <2>1. Visit(v, r, b, e, d) = Add(v, r, c, e, d)
    BY <1>6 DEF Visit, seen
  <2>2. IsMade(c, b.items, seen, b.omitted, b.chars_left, b.exhausted, b.frontier)
    BY <1>3 DEF Made, IsMade
  <2>3. c = Made(b.items, seen, b.omitted, b.chars_left, b.exhausted, b.frontier)
    BY <2>2, MadeIs
  <2> HIDE DEF c
  <2>4. c \in X
    BY <1>1, <1>2, <2>3, OtherFieldsFit
  <2> QED
    BY <2>1, <2>4, AddFits
<1> QED
  BY <1>4, <1>5, <1>6

LEMMA SeedFits ==
    ASSUME NEW v, Found(v), NEW w \in Viewers, NEW r, IsLimits(r), NEW own \in Nat, NEW cut \in BOOLEAN,
           NEW b \in Builders(v, w, r, own, cut), NEW n \in ReadableNodes(v, w)
    PROVE  Seed(v, r, b, n) \in Builders(v, w, r, own, cut)
<1>1. b.seen \in SUBSET ReadableNodes(v, w) /\ b.omitted \in Nat
      /\ b.frontier \in Seq(ReadableNodes(v, w))
  BY BuilderFields
<1>2. b = Made(b.items, b.seen, b.omitted, b.chars_left, b.exhausted, b.frontier)
  BY BuilderFields DEF Made
<1>3. CASE Len(b.items) >= r.max_items
  <2>1. Seed(v, r, b, n) = [b EXCEPT !.omitted = b.omitted + 1]
    BY <1>3 DEF Seed
  <2>2. IsMade([b EXCEPT !.omitted = b.omitted + 1],
               b.items, b.seen, b.omitted + 1, b.chars_left, b.exhausted, b.frontier)
    BY <1>2 DEF Made, IsMade
  <2>3. Seed(v, r, b, n)
        = Made(b.items, b.seen, b.omitted + 1, b.chars_left, b.exhausted, b.frontier)
    BY <2>1, <2>2, MadeIs
  <2>4. b.omitted + 1 \in Nat
    BY <1>1
  <2> QED
    BY <1>1, <2>3, <2>4, OtherFieldsFit
<1>4. CASE ~ (Len(b.items) >= r.max_items)
  <2> DEFINE e == Edge(n, "seed", NoNode, NoNode, 0)
  <2>1. Seed(v, r, b, n) = Add(v, r, b, e, 0)
    BY <1>4 DEF Seed
  <2>2. e \in EdgesIn(v, w, r)
    BY Zenon DEF EdgesIn, SeedEdges
  <2> HIDE DEF e
  <2>3. 0 \in Nat
    OBVIOUS
  <2> QED
    BY <2>1, <2>2, <2>3, AddFits
<1> QED
  BY <1>3, <1>4

LEMMA VisitAllFits ==
    ASSUME NEW v, Found(v), NEW w \in Viewers, NEW r, IsLimits(r), NEW own \in Nat, NEW cut \in BOOLEAN,
           NEW b \in Builders(v, w, r, own, cut), NEW edges \in Seq(EdgesIn(v, w, r)), NEW d \in Nat
    PROVE  VisitAll(v, r, b, edges, d) \in Builders(v, w, r, own, cut)
<1> DEFINE X == Builders(v, w, r, own, cut)
           E == EdgesIn(v, w, r)
           n == Len(edges)
           Step(i, c) == Visit(v, r, c, edges[i], d)
           next == [i \in 1..n |-> [c \in X |-> Step(i, c)]]
           Way(met) == met = [i \in 0..n |-> IF i = 0 THEN b ELSE Step(i, met[i - 1])]
<1>1. n \in Nat /\ \A i \in 1..n : edges[i] \in E
  BY LenProperties, ElementOfSeq
<1>2. \A i \in 1..n : \A c \in X : Step(i, c) \in X
  <2> TAKE i \in 1..n
  <2>1. edges[i] \in E
    BY <1>1
  <2> HIDE DEF n
  <2> QED
    BY <2>1, VisitFits
<1>3. b \in X
  OBVIOUS
<1> HIDE DEF n, X, Step
<1>4. PICK f : IsRun(f, n, X, b, next)
  <2>1. LeadsOn(next, n, X)
    BY <1>2 DEF LeadsOn
  <2> HIDE DEF next
  <2> QED
    BY <1>1, <1>3, <2>1, Runs
<1>5. f \in [0..n -> X] /\ f[0] = b /\ \A i \in 1..n : f[i] = Step(i, f[i - 1])
  <2>1. f \in [0..n -> X] /\ f[0] = b /\ \A i \in 1..n : f[i] = next[i][f[i - 1]]
    <3> HIDE DEF next
    <3> QED
      BY <1>4 DEF IsRun
  <2>2. ASSUME NEW i \in 1..n PROVE f[i - 1] \in X
    <3>1. i - 1 \in 0..n
      BY <1>1
    <3> QED
      BY <2>1, <3>1
  <2> QED
    BY <2>1, <2>2
<1>6. Way(f)
  <2>1. ASSUME NEW i \in 0..n PROVE f[i] = IF i = 0 THEN b ELSE Step(i, f[i - 1])
    <3>1. i # 0 => i \in 1..n
      BY <1>1
    <3> QED
      BY <1>5, <3>1
  <2>2. f = [i \in 0..n |-> f[i]]
    BY <1>5
  <2> QED
    BY <2>1, <2>2
<1> DEFINE met == CHOOSE met : Way(met)
<1>7. Way(met)
  <2> HIDE DEF Way
  <2> QED
    BY <1>6
<1>8. VisitAll(v, r, b, edges, d) = met[n]
  BY Zenon DEF VisitAll, n, Step
<1> HIDE DEF met
<1>9. met[0] \in X /\ \A i \in 1..n : met[i - 1] \in X => met[i] \in X
  <2>1. 0 \in 0..n /\ \A i \in 1..n : i \in 0..n /\ i # 0
    BY <1>1
  <2> QED
    BY <1>2, <1>3, <1>7, <2>1
<1>10. \A i \in 0..n : met[i] \in X
  BY <1>1, <1>9, Stays
<1> QED
  BY <1>1, <1>8, <1>10 DEF X

LEMMA ExpandFits ==
    ASSUME NEW v, Found(v), NEW w \in Viewers, NEW r, IsLimits(r), NEW own \in Nat, NEW cut \in BOOLEAN,
           NEW start \in Builders(v, w, r, own, cut), NEW seeds \in Seq(ReadableNodes(v, w))
    PROVE  Expand(v, w, r, start, seeds) \in Builders(v, w, r, own, cut)
<1> DEFINE X == Builders(v, w, r, own, cut)
           n == r.depth
           b == [start EXCEPT !.seen = @ \cup Range(seeds), !.frontier = seeds]
           Step(d, c) == VisitAll(v, r, [c EXCEPT !.frontier = <<>>],
                                  EdgesOf(v, w, r, c.frontier), d)
           next == [d \in 1..n |-> [c \in X |-> Step(d, c)]]
           Way(level) == level = [d \in 0..n |-> IF d = 0 THEN b ELSE Step(d, level[d - 1])]
<1>1. n \in Nat
  BY DEF IsLimits
<1>2. \A d \in 1..n : \A c \in X : Step(d, c) \in X
  <2> TAKE d \in 1..n
  <2> TAKE c \in X
  <2> DEFINE bare == [c EXCEPT !.frontier = <<>>]
             edges == EdgesOf(v, w, r, c.frontier)
  <2>1. c = Made(c.items, c.seen, c.omitted, c.chars_left, c.exhausted, c.frontier)
        /\ c.frontier \in Seq(ReadableNodes(v, w))
        /\ c.seen \in SUBSET ReadableNodes(v, w) /\ c.omitted \in Nat
    BY BuilderFields DEF Made
  <2>2. <<>> \in Seq(ReadableNodes(v, w)) /\ d \in Nat
    BY <1>1
  <2>3. bare \in X
    <3>1. IsMade(bare, c.items, c.seen, c.omitted, c.chars_left, c.exhausted, <<>>)
      BY <2>1 DEF Made, IsMade
    <3>2. bare = Made(c.items, c.seen, c.omitted, c.chars_left, c.exhausted, <<>>)
      BY <3>1, MadeIs
    <3> HIDE DEF bare
    <3> QED
      BY <2>1, <2>2, <3>2, OtherFieldsFit
  <2>4. edges \in Seq(EdgesIn(v, w, r))
    BY <2>1, EdgesAreReadable
  <2> HIDE DEF bare, edges, n
  <2>5. VisitAll(v, r, bare, edges, d) \in X
    BY <2>2, <2>3, <2>4, VisitAllFits
  <2> QED
    BY <2>5 DEF bare, edges
<1>3. b \in X
  <2> DEFINE seen == start.seen \cup Range(seeds)
  <2>1. start = Made(start.items, start.seen, start.omitted, start.chars_left, start.exhausted,
                     start.frontier)
        /\ start.seen \in SUBSET ReadableNodes(v, w) /\ start.omitted \in Nat
    BY BuilderFields DEF Made
  <2>2. seen \in SUBSET ReadableNodes(v, w)
    BY <2>1, RangeOfSeq
  <2>3. b = [start EXCEPT !.seen = seen, !.frontier = seeds]
    OBVIOUS
  <2> HIDE DEF seen, b
  <2>4. IsMade([start EXCEPT !.seen = seen, !.frontier = seeds],
               start.items, seen, start.omitted, start.chars_left, start.exhausted, seeds)
    BY <2>1 DEF Made, IsMade
  <2>5. b = Made(start.items, seen, start.omitted, start.chars_left, start.exhausted, seeds)
    BY <2>3, <2>4, MadeIs
  <2> QED
    BY <2>1, <2>2, <2>5, OtherFieldsFit
<1> HIDE DEF n, X, Step, b
<1>4. PICK f : IsRun(f, n, X, b, next)
  <2>1. LeadsOn(next, n, X)
    BY <1>2 DEF LeadsOn
  <2> HIDE DEF next
  <2> QED
    BY <1>1, <1>3, <2>1, Runs
<1>5. f \in [0..n -> X] /\ f[0] = b /\ \A i \in 1..n : f[i] = Step(i, f[i - 1])
  <2>1. f \in [0..n -> X] /\ f[0] = b /\ \A i \in 1..n : f[i] = next[i][f[i - 1]]
    <3> HIDE DEF next
    <3> QED
      BY <1>4 DEF IsRun
  <2>2. ASSUME NEW i \in 1..n PROVE f[i - 1] \in X
    <3>1. i - 1 \in 0..n
      BY <1>1
    <3> QED
      BY <2>1, <3>1
  <2> QED
    BY <2>1, <2>2
<1>6. Way(f)
  <2>1. ASSUME NEW i \in 0..n PROVE f[i] = IF i = 0 THEN b ELSE Step(i, f[i - 1])
    <3>1. i # 0 => i \in 1..n
      BY <1>1
    <3> QED
      BY <1>5, <3>1
  <2>2. f = [i \in 0..n |-> f[i]]
    BY <1>5
  <2> QED
    BY <2>1, <2>2
<1> DEFINE level == CHOOSE level : Way(level)
<1>7. Way(level)
  <2> HIDE DEF Way
  <2> QED
    BY <1>6
<1>8. Expand(v, w, r, start, seeds) = level[n]
  BY Zenon DEF Expand, n, Step, b
<1> HIDE DEF level
<1>9. level[0] \in X /\ \A i \in 1..n : level[i - 1] \in X => level[i] \in X
  <2>1. 0 \in 0..n /\ \A i \in 1..n : i \in 0..n /\ i # 0
    BY <1>1
  <2> QED
    BY <1>2, <1>3, <1>7, <2>1
<1>10. \A i \in 0..n : level[i] \in X
  BY <1>1, <1>9, Stays
<1> QED
  BY <1>1, <1>8, <1>10 DEF X

LEMMA LimitsAsked == \A r \in BundleRequests : IsLimits(r)
<1> TAKE r \in BundleRequests
<1>1. r.depth \in 0..3 /\ r.max_items \in 1..100 /\ r.seed_limit \in 1..20 /\ r.max_chars \in Nat
      /\ r.mode \in {"none", "snippets", "full"}
  BY RequestsAssumption
<1> QED
  BY <1>1 DEF IsLimits

LEMMA RootFits ==
    ASSUME NEW v, Found(v), NEW w \in Viewers, NEW r, IsLimits(r), NEW root \in ReadableNodes(v, w)
    PROVE  LET start == NewBuilder(r)
               text == Describe(v, r, start, root)
           IN  Expand(v, w, r, TextFor(v, r, start, root), <<root>>)
               \in Builders(v, w, r, text.content, IsCut(v, r, text)) /\ text.content \in Nat
<1> DEFINE start == NewBuilder(r)
           text == Describe(v, r, start, root)
           a == Allowed(v, r, start, root)
           k == Wanted(v, r, root)
           cut == a < k
           first == TextFor(v, r, start, root)
           R == ReadableNodes(v, w)
           I == ItemsOf(v, w, r)
<1>1. start = Made(<<>>, {}, 0, r.max_chars, FALSE, <<>>) /\ start.chars_left = r.max_chars
      /\ r.max_chars \in Nat
  BY DEF NewBuilder, Made, IsLimits
<1>2. k \in Nat /\ text.node = root /\ text.content = a /\ a \in Nat /\ a <= r.max_chars
      /\ (a < k => a = r.max_chars)
  <2>1. start.chars_left \in Nat
    BY <1>1
  <2> HIDE DEF start
  <2>2. k \in Nat /\ text.node = root /\ text.content = a /\ a \in Nat /\ a <= start.chars_left
        /\ (a < k => a = start.chars_left)
    BY <2>1, TextsFit
  <2> HIDE DEF a, k, text
  <2> QED
    BY <1>1, <2>2
<1>3. first = Made(<<>>, {}, 0, r.max_chars - a, cut, <<>>)
  <2>1. start.exhausted = FALSE
    BY DEF NewBuilder
  <2>2. first = [start EXCEPT !.chars_left = r.max_chars - a, !.exhausted = FALSE \/ a < k]
    BY <1>1, <2>1 DEF TextFor
  <2> HIDE DEF a, k, start
  <2>3. (FALSE \/ a < k) = cut
    OBVIOUS
  <2>4. first = [start EXCEPT !.chars_left = r.max_chars - a, !.exhausted = cut]
    BY <2>2, <2>3
  <2> HIDE DEF cut, first
  <2>5. IsMade(first, <<>>, {}, 0, r.max_chars - a, cut, <<>>)
    BY <1>1, <2>4 DEF Made, IsMade
  <2> QED
    BY <2>5, MadeIs
<1>4. first \in Builders(v, w, r, a, cut)
  <2> DEFINE none == <<>>
             left == r.max_chars - a
  <2>1. none \in Seq(I) /\ none \in Seq(R) /\ {} \in SUBSET R /\ 0 \in Nat /\ DOMAIN none = {}
    OBVIOUS
  <2>2. Spent(a, none) = a
    BY SpentOnNone
  <2>3. left \in Nat /\ (cut => left = 0) /\ a + left = r.max_chars
    <3> HIDE DEF a, k, text, start
    <3> QED
      BY <1>1, <1>2
  <2>4. cut <=> cut \/ \E i \in DOMAIN none : IsCut(v, r, none[i].shown)
    BY <2>1
  <2>5. cut \in BOOLEAN
    OBVIOUS
  <2>6. first = Made(none, {}, 0, left, cut, none)
    BY <1>3
  <2> HIDE DEF none, left, cut, a, first
  <2>7. Spent(a, none) + left = r.max_chars
    BY <2>2, <2>3
  <2>8. none \in Seq(ItemsOf(v, w, r)) /\ none \in Seq(ReadableNodes(v, w))
        /\ {} \in SUBSET ReadableNodes(v, w)
    BY <2>1
  <2>9. Balanced(v, r, a, cut, none, left, cut)
    BY <2>3, <2>4, <2>7 DEF Balanced
  <2> QED
    BY <2>1, <2>3, <2>5, <2>6, <2>8, <2>9, MadeFits
<1>5. IsCut(v, r, text) = cut
  BY <1>2 DEF IsCut
<1>6. cut \in BOOLEAN /\ <<root>> \in Seq(R)
  OBVIOUS
<1> HIDE DEF cut, first, a
<1>7. Expand(v, w, r, first, <<root>>) \in Builders(v, w, r, a, cut)
  BY <1>2, <1>4, <1>6, ExpandFits
<1> QED
  BY <1>2, <1>5, <1>7 DEF first

LEMMA HitsAreReadable ==
    ASSUME NEW v, Found(v), NEW w \in Viewers, NEW q, NEW limit \in Nat, NEW root
    PROVE  SearchNodesFulltext(v, w, q, limit, root) \in Seq(ReadableNodes(v, w))
<1> DEFINE R == ReadableNodes(v, w)
           S == {n \in v.nodes : Matches(v, n, q)}
           T == {n \in R : root = NoNode \/ IsInSubtree(v, n, root)}
           key == [n \in Nodes |-> Relevance(v, n, q)]
           hits == InOrder(S, key)
           results == Kept(hits, T)
           m == Smaller(limit, Len(results))
<1>1. SearchNodesFulltext(v, w, q, limit, root) = SubSeq(results, 1, m)
  BY Zenon DEF SearchNodesFulltext
<1>2. S \in SUBSET Nodes /\ key \in [Nodes -> Nat]
  BY FoundFields DEF Relevance
<1>3. T \subseteq R
  OBVIOUS
<1> HIDE DEF S, T, key, R
<1>4. hits \in Seq(S)
  BY <1>2, InOrderAll
<1> HIDE DEF hits
<1>5. results \in Seq(S \cap T)
  BY <1>4, KeptRange
<1> HIDE DEF results
<1>6. results \in Seq(R)
  BY <1>3, <1>5, SeqMonotonic
<1>7. Len(results) \in Nat /\ m \in Int /\ m <= Len(results)
  BY <1>6, LenProperties DEF Smaller
<1> HIDE DEF m
<1>8. \A i \in 1..m : results[i] \in R
  <2> TAKE i \in 1..m
  <2>1. i \in 1..Len(results)
    BY <1>7
  <2> QED
    BY <1>6, <2>1, ElementOfSeq
<1>9. SubSeq(results, 1, m) \in Seq(R)
  <2>1. 1 \in Int
    OBVIOUS
  <2> QED
    BY <1>7, <1>8, <2>1, SubSeqProperties
<1> QED
  BY <1>1, <1>9 DEF R

\* The hits of a search are as many items, and then the bundle is expanded.
SeedsOf(v, r, hits) ==
    CHOOSE seeded : seeded = [k \in 0..Len(hits) |->
        IF k = 0 THEN NewBuilder(r) ELSE Seed(v, r, seeded[k - 1], hits[k])]

LEMMA SeedsFit ==
    ASSUME NEW v, Found(v), NEW w \in Viewers, NEW r, IsLimits(r), NEW hits \in Seq(ReadableNodes(v, w)),
           NEW cut \in BOOLEAN, cut = FALSE
    PROVE  SeedsOf(v, r, hits)[Len(hits)] \in Builders(v, w, r, 0, cut)
<1> DEFINE X == Builders(v, w, r, 0, cut)
           n == Len(hits)
           b == NewBuilder(r)
           Step(i, c) == Seed(v, r, c, hits[i])
           next == [i \in 1..n |-> [c \in X |-> Step(i, c)]]
           Way(seeded) == seeded = [i \in 0..n |-> IF i = 0 THEN b ELSE Step(i, seeded[i - 1])]
<1>1. n \in Nat /\ \A i \in 1..n : hits[i] \in ReadableNodes(v, w)
  BY LenProperties, ElementOfSeq
<1>2. \A i \in 1..n : \A c \in X : Step(i, c) \in X
  <2> TAKE i \in 1..n
  <2>1. hits[i] \in ReadableNodes(v, w) /\ 0 \in Nat
    BY <1>1
  <2> HIDE DEF n
  <2> QED
    BY <2>1, SeedFits
<1>3. b \in X
  <2> DEFINE none == <<>>
             left == r.max_chars
  <2>1. none \in Seq(ItemsOf(v, w, r)) /\ none \in Seq(ReadableNodes(v, w)) /\ DOMAIN none = {}
        /\ {} \in SUBSET ReadableNodes(v, w) /\ 0 \in Nat
    OBVIOUS
  <2>2. left \in Nat /\ Spent(0, none) = 0
    BY SpentOnNone DEF IsLimits
  <2>3. Spent(0, none) + left = r.max_chars
    BY <2>2
  <2>4. b = Made(none, {}, 0, left, cut, none)
    BY DEF NewBuilder, Made
  <2> HIDE DEF none, b
  <2>5. /\ cut <=> cut \/ \E i \in DOMAIN none : IsCut(v, r, none[i].shown)
        /\ cut => left = 0
    BY <2>1
  <2> HIDE DEF left
  <2>6. Balanced(v, r, 0, cut, none, left, cut)
    BY <2>3, <2>5 DEF Balanced
  <2> QED
    BY <2>1, <2>2, <2>4, <2>6, MadeFits
<1> HIDE DEF n, X, Step, b
<1>4. PICK f : IsRun(f, n, X, b, next)
  <2>1. LeadsOn(next, n, X)
    BY <1>2 DEF LeadsOn
  <2> HIDE DEF next
  <2> QED
    BY <1>1, <1>3, <2>1, Runs
<1>5. f \in [0..n -> X] /\ f[0] = b /\ \A i \in 1..n : f[i] = Step(i, f[i - 1])
  <2>1. f \in [0..n -> X] /\ f[0] = b /\ \A i \in 1..n : f[i] = next[i][f[i - 1]]
    <3> HIDE DEF next
    <3> QED
      BY <1>4 DEF IsRun
  <2>2. ASSUME NEW i \in 1..n PROVE f[i - 1] \in X
    <3>1. i - 1 \in 0..n
      BY <1>1
    <3> QED
      BY <2>1, <3>1
  <2> QED
    BY <2>1, <2>2
<1>6. Way(f)
  <2>1. ASSUME NEW i \in 0..n PROVE f[i] = IF i = 0 THEN b ELSE Step(i, f[i - 1])
    <3>1. i # 0 => i \in 1..n
      BY <1>1
    <3> QED
      BY <1>5, <3>1
  <2>2. f = [i \in 0..n |-> f[i]]
    BY <1>5
  <2> QED
    BY <2>1, <2>2
<1> DEFINE seeded == CHOOSE seeded : Way(seeded)
<1>7. Way(seeded)
  <2> HIDE DEF Way
  <2> QED
    BY <1>6
<1>8. SeedsOf(v, r, hits) = seeded
  BY Zenon DEF SeedsOf, n, Step, b
<1> HIDE DEF seeded
<1>9. seeded[0] \in X /\ \A i \in 1..n : seeded[i - 1] \in X => seeded[i] \in X
  <2>1. 0 \in 0..n /\ \A i \in 1..n : i \in 0..n /\ i # 0
    BY <1>1
  <2> QED
    BY <1>2, <1>3, <1>7, <2>1
<1>10. \A i \in 0..n : seeded[i] \in X
  BY <1>1, <1>9, Stays
<1>11. seeded[n] \in X
  BY <1>1, <1>10
<1> QED
  BY <1>8, <1>11 DEF X, n

\* What either bundle is.
LEMMA BundleIsBuilt ==
    ASSUME NEW v, Found(v), NEW w \in Viewers, NEW r \in BundleRequests, NEW root,
           NEW reply, reply = BuildContextBundle(v, w, r, root), "refused" \notin DOMAIN reply
    PROVE  /\ root \in ReadableNodes(v, w)
           /\ \E own \in Nat, cut \in BOOLEAN : \E b \in Builders(v, w, r, own, cut) :
                 /\ reply.nodes = {root} \cup NodesOf(b) /\ reply.bundle = Envelope(b)
                 /\ own = reply.root.content /\ cut = IsCut(v, r, reply.root)
<1> DEFINE start == NewBuilder(r)
           text == Describe(v, r, start, root)
           b == Expand(v, w, r, TextFor(v, r, start, root), <<root>>)
<1>1. "refused" \in DOMAIN Absent /\ "refused" \in DOMAIN Refused
  BY DEF Absent, Refused
<1>2. root \notin v.nodes => reply = Absent
  BY Zenon DEF BuildContextBundle, WithNode
<1>3. root \in v.nodes /\ ~ Readable(v, w, root) => reply = Refused
  BY Zenon DEF BuildContextBundle, WithNode
<1>4. root \in v.nodes /\ Readable(v, w, root)
  BY <1>1, <1>2, <1>3
<1>5. root \in ReadableNodes(v, w)
  BY <1>4 DEF ReadableNodes
<1>6. reply = [nodes |-> {root} \cup NodesOf(b), root |-> text, assets |-> ImagesOf(v, root),
               bundle |-> Envelope(b)]
  BY <1>4, Zenon DEF BuildContextBundle, WithNode
<1>7. b \in Builders(v, w, r, text.content, IsCut(v, r, text)) /\ text.content \in Nat
  BY <1>5, LimitsAsked, RootFits
<1>8. IsCut(v, r, text) \in BOOLEAN
  BY DEF IsCut
<1> HIDE DEF b, text
<1>9. reply.nodes = {root} \cup NodesOf(b) /\ reply.bundle = Envelope(b) /\ reply.root = text
  BY <1>6
<1> QED
  BY <1>5, <1>7, <1>8, <1>9

\* A builder of a search: no root has spent anything.
SearchBuilt(v, w, r, b) == \E cut \in BOOLEAN : cut = FALSE /\ b \in Builders(v, w, r, 0, cut)

LEMMA SearchBundleIsBuilt ==
    ASSUME NEW v, Found(v), NEW w \in Viewers, NEW r \in BundleRequests, NEW query, NEW subtree,
           NEW reply, reply = BuildSearchContextBundle(v, w, r, query, subtree)
    PROVE  \E b : /\ SearchBuilt(v, w, r, b)
                  /\ reply.nodes = NodesOf(b) /\ reply.bundle = Envelope(b)
<1> DEFINE hits == SearchNodesFulltext(v, w, query, r.seed_limit, subtree)
           start == SeedsOf(v, r, hits)[Len(hits)]
           b == Expand(v, w, r, start, start.frontier)
<1>1. reply = [nodes |-> NodesOf(b), hits |-> hits, seed_count |-> Len(start.frontier),
               bundle |-> Envelope(b)]
  BY Zenon DEF BuildSearchContextBundle, SeedsOf
<1>2. IsLimits(r) /\ r.seed_limit \in Nat
  BY LimitsAsked DEF IsLimits
<1>3. hits \in Seq(ReadableNodes(v, w))
  BY <1>2, HitsAreReadable
<1>4. PICK cut \in BOOLEAN : cut = FALSE
  OBVIOUS
<1> HIDE DEF hits
<1>5. start \in Builders(v, w, r, 0, cut)
  BY <1>2, <1>3, <1>4, SeedsFit
<1> HIDE DEF start
<1>6. start.frontier \in Seq(ReadableNodes(v, w)) /\ 0 \in Nat
  BY <1>5, BuilderFields
<1>7. b \in Builders(v, w, r, 0, cut)
  BY <1>2, <1>5, <1>6, ExpandFits
<1> HIDE DEF b
<1>8. reply.nodes = NodesOf(b) /\ reply.bundle = Envelope(b)
  BY <1>1
<1>9. SearchBuilt(v, w, r, b)
  BY <1>4, <1>7 DEF SearchBuilt
<1> QED
  BY <1>8, <1>9

-----------------------------------------------------------------------------
\* The budget of a bundle that was built of these items and these root texts.
WithinBudget(v, r, items, roots, own, exhausted) ==
    LET shown == {items[i].shown : i \in DOMAIN items} \cup roots
        spent == Spent(own, items)
        cut == {text \in shown : text.content < Wanted(v, r, text.node)}
    IN  /\ spent <= r.max_chars
        /\ exhausted = (cut # {})
        /\ cut # {} => spent = r.max_chars

LEMMA BuiltWithinBudget ==
    ASSUME NEW v, NEW w, NEW r, IsLimits(r), NEW own \in Nat, NEW cut \in BOOLEAN,
           NEW b \in Builders(v, w, r, own, cut), NEW roots,
           cut <=> \E text \in roots : IsCut(v, r, text)
    PROVE  WithinBudget(v, r, b.items, roots, own, b.exhausted)
<1> DEFINE shown == {b.items[i].shown : i \in DOMAIN b.items} \cup roots
           short == {text \in shown : text.content < Wanted(v, r, text.node)}
           spent == Spent(own, b.items)
<1>1. /\ b.items \in Seq(ItemsOf(v, w, r)) /\ b.chars_left \in Nat /\ b.exhausted \in BOOLEAN
  BY BuilderFields
<1>2. /\ spent + b.chars_left = r.max_chars
      /\ b.exhausted <=> cut \/ \E i \in DOMAIN b.items : IsCut(v, r, b.items[i].shown)
      /\ b.exhausted => b.chars_left = 0
  BY DEF Builders, Balanced
<1>3. b.exhausted <=> short # {}
  BY <1>2 DEF IsCut
<1>4. spent \in Nat
  <2> DEFINE X == ItemsOf(v, w, r)
  <2>1. \A x \in X : x.shown.content \in Nat
    BY ItemsShow
  <2>2. b.items \in Seq(X)
    BY <1>1
  <2> HIDE DEF X
  <2>3. \E total \in [0..Len(b.items) -> Nat] : Spent(own, b.items) = total[Len(b.items)]
    BY <2>1, <2>2, SpentSteps, ZenonT(60)
  <2>4. Len(b.items) \in 0..Len(b.items)
    BY <2>2, LenProperties
  <2> QED
    BY <2>3, <2>4
<1>5. r.max_chars \in Nat
  BY DEF IsLimits
<1> HIDE DEF short, spent
<1>6. spent <= r.max_chars /\ b.exhausted = (short # {}) /\ (short # {} => spent = r.max_chars)
  BY <1>1, <1>2, <1>3, <1>4, <1>5
<1> QED
  BY <1>6 DEF WithinBudget, short, spent

LEMMA BundleWithinBudget ==
    ASSUME NEW v, Found(v), NEW w \in Viewers, NEW r \in BundleRequests, NEW root,
           NEW reply, reply = BuildContextBundle(v, w, r, root), "refused" \notin DOMAIN reply
    PROVE  WithinBudget(v, r, reply.bundle.items, {reply.root}, reply.root.content,
                        reply.bundle.content_budget_exhausted)
<1>1. PICK own \in Nat, cut \in BOOLEAN : \E b \in Builders(v, w, r, own, cut) :
           /\ reply.nodes = {root} \cup NodesOf(b) /\ reply.bundle = Envelope(b)
           /\ own = reply.root.content /\ cut = IsCut(v, r, reply.root)
  BY BundleIsBuilt
<1>2. PICK b \in Builders(v, w, r, own, cut) :
           reply.bundle = Envelope(b) /\ own = reply.root.content /\ cut = IsCut(v, r, reply.root)
  BY <1>1
<1>3. reply.bundle.items = b.items /\ reply.bundle.content_budget_exhausted = b.exhausted
  BY <1>2 DEF Envelope
<1>4. cut <=> \E text \in {reply.root} : IsCut(v, r, text)
  BY <1>2
<1>5. WithinBudget(v, r, b.items, {reply.root}, own, b.exhausted)
  BY <1>4, LimitsAsked, BuiltWithinBudget
<1> QED
  BY <1>2, <1>3, <1>5

LEMMA SearchWithinBudget ==
    ASSUME NEW v, Found(v), NEW w \in Viewers, NEW r \in BundleRequests, NEW query, NEW subtree,
           NEW reply, reply = BuildSearchContextBundle(v, w, r, query, subtree)
    PROVE  WithinBudget(v, r, reply.bundle.items, {}, 0, reply.bundle.content_budget_exhausted)
<1>1. PICK b : SearchBuilt(v, w, r, b) /\ reply.bundle = Envelope(b)
  BY SearchBundleIsBuilt
<1>2. PICK cut \in BOOLEAN : cut = FALSE /\ b \in Builders(v, w, r, 0, cut)
  BY <1>1 DEF SearchBuilt
<1>3. reply.bundle.items = b.items /\ reply.bundle.content_budget_exhausted = b.exhausted
  BY <1>1 DEF Envelope
<1>4. 0 \in Nat /\ (cut <=> \E text \in {} : IsCut(v, r, text))
  BY <1>2
<1>5. WithinBudget(v, r, b.items, {}, 0, b.exhausted)
  BY <1>2, <1>4, LimitsAsked, BuiltWithinBudget
<1> QED
  BY <1>3, <1>5

LEMMA StepsOnlyRead ==
    ASSUME [Next]_vars
    PROVE  /\ vault' = vault
           /\ \/ answer' = answer \/ answer' = NoReply
              \/ \E w \in Viewers : \E r \in BundleRequests, n \in Nodes :
                    Reply("bundle", w, [limits |-> r, root |-> n], BuildContextBundle(vault, w, r, n))
              \/ \E w \in Viewers : \E r \in BundleRequests, q \in Queries, root \in {NoNode, 1} :
                    Reply("search bundle", w, [limits |-> r, query |-> q, subtree |-> root],
                          BuildSearchContextBundle(vault, w, r, q, root))
              \/ \E op \in {"tree", "list", "title", "autocomplete", "search", "resolve", "read", "asset"} :
                    \E w, r, reply : Reply(op, w, r, reply)
<1>1. vault' = vault
  BY DEF Next, vars, Deliver, Reply, GetTree, GetList, GetByTitle, SearchNodesByTitle, FullTextSearch,
     ResolveInternalLinks, GetMultipleNodes, PostNodesContent, GetSingleNode, GetNodeVersionsRoute,
     GetSingleVersion, ListNodeAssetsRoute, GetNodeAssetRoute, GetAsset, GetContextBundle,
     SearchContextBundle
<1>2. CASE UNCHANGED vars
  BY <1>1, <1>2 DEF vars
<1>3. CASE Deliver
  BY <1>1, <1>3 DEF Deliver
<1>4. ASSUME NEW w \in Viewers, GetContextBundle(w)
      PROVE  \E r \in BundleRequests, n \in Nodes :
                Reply("bundle", w, [limits |-> r, root |-> n], BuildContextBundle(vault, w, r, n))
  BY <1>4 DEF GetContextBundle
<1>5. ASSUME NEW w \in Viewers, SearchContextBundle(w)
      PROVE  \E r \in BundleRequests, q \in Queries, root \in {NoNode, 1} :
                Reply("search bundle", w, [limits |-> r, query |-> q, subtree |-> root],
                      BuildSearchContextBundle(vault, w, r, q, root))
  BY <1>5 DEF SearchContextBundle
<1> DEFINE Others == {"tree", "list", "title", "autocomplete", "search", "resolve", "read", "asset"}
<1>6. ASSUME NEW w \in Viewers,
             \/ GetTree(w) \/ GetList(w) \/ GetByTitle(w) \/ SearchNodesByTitle(w)
             \/ FullTextSearch(w) \/ ResolveInternalLinks(w) \/ GetMultipleNodes(w)
             \/ PostNodesContent(w) \/ GetSingleNode(w) \/ GetNodeVersionsRoute(w)
             \/ GetSingleVersion(w) \/ ListNodeAssetsRoute(w) \/ GetNodeAssetRoute(w) \/ GetAsset(w)
      PROVE  \E op \in Others : \E r, reply : Reply(op, w, r, reply)
  <2>1. CASE GetTree(w) \/ GetList(w) \/ GetByTitle(w) \/ SearchNodesByTitle(w)
    BY <2>1, Zenon DEF GetTree, GetList, GetByTitle, SearchNodesByTitle
  <2>2. CASE FullTextSearch(w) \/ ResolveInternalLinks(w) \/ GetAsset(w)
    BY <2>2, Zenon DEF FullTextSearch, ResolveInternalLinks, GetAsset
  <2>3. CASE \/ GetMultipleNodes(w) \/ PostNodesContent(w) \/ GetSingleNode(w)
             \/ GetNodeVersionsRoute(w) \/ GetSingleVersion(w) \/ ListNodeAssetsRoute(w)
             \/ GetNodeAssetRoute(w)
    BY <2>3, Zenon DEF GetMultipleNodes, PostNodesContent, GetSingleNode, GetNodeVersionsRoute,
       GetSingleVersion, ListNodeAssetsRoute, GetNodeAssetRoute
  <2> QED
    BY <1>6, <2>1, <2>2, <2>3
<1> QED
  BY <1>1, <1>2, <1>3, <1>4, <1>5, <1>6, Zenon DEF Next

\* What BudgetKept asks of an answer.
BudgetRight(a) ==
    WithinBudget(vault, a.request.limits, a.reply.bundle.items,
                 IF a.op = "bundle" THEN {a.reply.root} ELSE {},
                 IF a.op = "bundle" THEN a.reply.root.content ELSE 0,
                 a.reply.bundle.content_budget_exhausted)

LEMMA RightAnswersKeepBudget ==
    ASSUME NEW a, answer' = a, vault' = vault, "refused" \notin DOMAIN a.reply => BudgetRight(a)
    PROVE  BudgetKept'
  BY DEF BudgetKept, Replied, BudgetRight, WithinBudget

Budgeted == vault \in VaultStates /\ BudgetKept

LEMMA BudgetedStep == Budgeted /\ [Next]_vars => Budgeted'
<1> SUFFICES ASSUME Budgeted, [Next]_vars PROVE Budgeted'
  OBVIOUS
<1>1. Found(vault)
  BY VaultsAssumption DEF Budgeted, Found
<1>2. vault' = vault
  BY StepsOnlyRead
<1>3. CASE answer' = answer
  BY <1>2, <1>3 DEF Budgeted, BudgetKept, Replied
<1>4. CASE answer' = NoReply
  BY <1>2, <1>4 DEF Budgeted, BudgetKept, Replied
<1>5. ASSUME NEW w \in Viewers, NEW r \in BundleRequests, NEW n \in Nodes,
             Reply("bundle", w, [limits |-> r, root |-> n], BuildContextBundle(vault, w, r, n))
      PROVE  BudgetKept'
  <2> DEFINE reply == BuildContextBundle(vault, w, r, n)
             a == [op |-> "bundle", viewer |-> w, request |-> [limits |-> r, root |-> n],
                   reply |-> reply]
  <2>1. answer' = a
    BY <1>5 DEF Reply
  <2>2. "refused" \notin DOMAIN reply =>
           WithinBudget(vault, r, reply.bundle.items, {reply.root}, reply.root.content,
                        reply.bundle.content_budget_exhausted)
    BY <1>1, BundleWithinBudget
  <2> HIDE DEF reply
  <2>3. a.op = "bundle" /\ a.reply = reply /\ a.request.limits = r
    OBVIOUS
  <2> HIDE DEF a
  <2>4. "refused" \notin DOMAIN a.reply => BudgetRight(a)
    BY <2>2, <2>3 DEF BudgetRight
  <2> QED
    BY <1>2, <2>1, <2>4, RightAnswersKeepBudget
<1>6. ASSUME NEW w \in Viewers, NEW r \in BundleRequests, NEW q \in Queries, NEW root \in {NoNode, 1},
             Reply("search bundle", w, [limits |-> r, query |-> q, subtree |-> root],
                   BuildSearchContextBundle(vault, w, r, q, root))
      PROVE  BudgetKept'
  <2> DEFINE reply == BuildSearchContextBundle(vault, w, r, q, root)
             a == [op |-> "search bundle", viewer |-> w,
                   request |-> [limits |-> r, query |-> q, subtree |-> root], reply |-> reply]
  <2>1. answer' = a
    BY <1>6 DEF Reply
  <2>2. WithinBudget(vault, r, reply.bundle.items, {}, 0, reply.bundle.content_budget_exhausted)
    BY <1>1, SearchWithinBudget
  <2> HIDE DEF reply
  <2>3. a.op = "search bundle" /\ a.reply = reply /\ a.request.limits = r
    OBVIOUS
  <2> HIDE DEF a
  <2>4. "refused" \notin DOMAIN a.reply => BudgetRight(a)
    BY <2>2, <2>3 DEF BudgetRight
  <2> QED
    BY <1>2, <2>1, <2>4, RightAnswersKeepBudget
<1>7. ASSUME NEW op \in {"tree", "list", "title", "autocomplete", "search", "resolve", "read", "asset"},
             NEW w, NEW r, NEW reply, Reply(op, w, r, reply)
      PROVE  BudgetKept'
  <2>1. answer' # NoReply => answer'.op = op
    BY <1>7 DEF Reply
  <2> QED
    BY <2>1 DEF BudgetKept, Replied
<1>8. BudgetKept'
  BY <1>3, <1>4, <1>5, <1>6, <1>7, StepsOnlyRead DEF Budgeted
<1> QED
  BY <1>2, <1>8 DEF Budgeted

\* The texts of a bundle together are no longer than max_chars, a text is cut
\* only where the budget ends, and the caller is told of it.
THEOREM BudgetIsKept == Spec => []BudgetKept
<1>1. Init => Budgeted
  BY DEF Init, Budgeted, BudgetKept, Replied
<1>2. Budgeted => BudgetKept
  BY DEF Budgeted
<1> QED
  BY <1>1, <1>2, BudgetedStep, PTL DEF Spec

-----------------------------------------------------------------------------
\* What each operation names.
LEMMA RefusalsSaySo == "refused" \in DOMAIN Absent /\ "refused" \in DOMAIN Refused
  BY DEF Absent, Refused

LEMMA OneNodeIsReadable ==
    ASSUME NEW v, NEW w, NEW n, NEW reply, "refused" \notin DOMAIN WithNode(v, w, n, reply)
    PROVE  n \in ReadableNodes(v, w) /\ WithNode(v, w, n, reply) = reply
<1>1. n \in v.nodes /\ Readable(v, w, n)
  BY RefusalsSaySo DEF WithNode
<1> QED
  BY <1>1 DEF WithNode, ReadableNodes

LEMMA TreeShowsReadable ==
    ASSUME NEW v, Found(v), NEW w \in Viewers, NEW etag
    PROVE  LET reply == GetNodesAsTree(v, w, etag)
           IN  /\ reply.nodes \subseteq ReadableNodes(v, w)
               /\ "not_modified" \notin DOMAIN reply => reply.nodes = ReadableNodes(v, w)
<1> DEFINE t == VisibleTree(BuildTree(v), w)
           R == ReadableNodes(v, w)
<1>1. t.nodes = R
  <2>1. CASE w.ai
    BY <2>1, TreeIsReadable
  <2>2. CASE ~ w.ai
    <3>1. t = BuildTree(v)
      BY <2>2 DEF VisibleTree
    <3>2. BuildTree(v).nodes = v.nodes
      BY DEF BuildTree
    <3>3. R = v.nodes
      BY <2>2 DEF ReadableNodes, Readable
    <3> QED
      BY <3>1, <3>2, <3>3
  <2> QED
    BY <2>1, <2>2
<1>2. GetNodesAsTree(v, w, etag) = IF etag = t THEN [nodes |-> {}, not_modified |-> TRUE] ELSE t
  BY Zenon DEF GetNodesAsTree
<1> HIDE DEF t, R
<1>3. GetNodesAsTree(v, w, etag).nodes \subseteq R
      /\ ("not_modified" \notin DOMAIN GetNodesAsTree(v, w, etag) =>
             GetNodesAsTree(v, w, etag).nodes = R)
  BY <1>1, <1>2
<1> QED
  BY <1>3 DEF R

LEMMA RowsAreReadable ==
    ASSUME NEW v, Found(v), NEW w
    PROVE  /\ GetNodesAsList(v, w).nodes = ReadableNodes(v, w)
           /\ \A q \in Nat : FindNodeByTitle(v, w, q).nodes \subseteq ReadableNodes(v, w)
           /\ \A q : Autocomplete(v, w, q).nodes \subseteq ReadableNodes(v, w)
<1> DEFINE R == ReadableNodes(v, w)
<1>1. v.nodes \in SUBSET Nodes /\ v.title \in [Nodes -> Nat] /\ R \subseteq v.nodes
  BY FoundFields DEF ReadableNodes
<1>2. GetNodesAsList(v, w).nodes = R
  <2>1. ByTitle(v, v.nodes) \in Seq(v.nodes) /\ Range(ByTitle(v, v.nodes)) = v.nodes
    BY <1>1, InOrderAll DEF ByTitle
  <2> DEFINE rows == ByTitle(v, v.nodes)
  <2>2. GetNodesAsList(v, w).nodes = Range(Kept(rows, R))
    BY DEF GetNodesAsList
  <2> HIDE DEF rows, R
  <2>3. rows \in Seq(v.nodes) /\ Range(rows) = v.nodes
    BY <2>1 DEF rows
  <2>4. Range(Kept(rows, R)) = Range(rows) \cap R
    BY <2>3, KeptRange
  <2> QED
    BY <1>1, <2>2, <2>3, <2>4
<1>3. ASSUME NEW q \in Nat PROVE FindNodeByTitle(v, w, q).nodes \subseteq R
  <2> DEFINE S == {n \in v.nodes : TitleHas(v.title[n], q)}
             key == [n \in Nodes |-> IF v.title[n] = q THEN 0 ELSE v.title[n]]
             rows == Kept(InOrder(S, key), R)
  <2>1. FindNodeByTitle(v, w, q) = [nodes |-> IF rows = <<>> THEN {} ELSE {rows[1]}]
    BY Zenon DEF FindNodeByTitle
  <2>2. S \in SUBSET Nodes /\ key \in [Nodes -> Nat]
    BY <1>1
  <2> HIDE DEF S, key, R
  <2>3. InOrder(S, key) \in Seq(S)
    BY <2>2, InOrderAll
  <2>4. rows \in Seq(S \cap R)
    BY <2>3, KeptRange
  <2> HIDE DEF rows
  <2>5. rows # <<>> => rows[1] \in R
    <3> SUFFICES ASSUME rows # <<>> PROVE rows[1] \in R
      OBVIOUS
    <3>1. Len(rows) \in Nat \ {0}
      BY <2>4, EmptySeq
    <3>2. 1 \in 1..Len(rows)
      BY <3>1
    <3>3. rows[1] \in S \cap R
      BY <2>4, <3>2, ElementOfSeq
    <3> QED
      BY <3>3
  <2> QED
    BY <2>1, <2>5
<1>4. ASSUME NEW q PROVE Autocomplete(v, w, q).nodes \subseteq R
  <2> DEFINE S == {n \in v.nodes : TitleHas(v.title[n], q)}
             rows == ByTitle(v, S)
             m == Smaller(AutocompleteLimit, Len(rows))
             some == SubSeq(rows, 1, m)
  <2>1. Autocomplete(v, w, q).nodes = Range(Kept(some, R))
    BY DEF Autocomplete
  <2>2. rows \in Seq(S)
    <3>1. S \in SUBSET Nodes
      BY <1>1
    <3> HIDE DEF S
    <3> QED
      BY <1>1, <3>1, InOrderAll DEF ByTitle
  <2> HIDE DEF S, rows, R
  <2>3. Len(rows) \in Nat /\ m \in Int /\ m <= Len(rows) /\ 1 \in Int
    BY <2>2, LenProperties, SizeAssumption DEF Smaller
  <2> HIDE DEF m
  <2>4. \A i \in 1..m : rows[i] \in S
    <3> TAKE i \in 1..m
    <3>1. i \in 1..Len(rows)
      BY <2>3
    <3> QED
      BY <2>2, <3>1, ElementOfSeq
  <2>5. some \in Seq(S)
    BY <2>3, <2>4, SubSeqProperties
  <2> HIDE DEF some
  <2>6. Range(Kept(some, R)) = Range(some) \cap R
    BY <2>5, KeptRange
  <2> QED
    BY <2>1, <2>6
<1> QED
  BY <1>2, <1>3, <1>4

LEMMA TargetsAreReadable ==
    ASSUME NEW v, NEW w, NEW targets
    PROVE  ResolveLinkTargets(v, w, targets).nodes \subseteq ReadableNodes(v, w)
<1>1. ASSUME NEW t, Resolved(v, w, t).status = "resolved"
      PROVE  Resolved(v, w, t).node \in ReadableNodes(v, w)
  <2> DEFINE found == {n \in v.nodes :
                         /\ IF t.kind = "uuid" THEN n = t.to ELSE v.title[n] = t.to
                         /\ Readable(v, w, n)}
             The == CHOOSE n \in found : TRUE
  <2>1. Resolved(v, w, t) =
           IF found = {} THEN [status |-> "unresolved"]
           ELSE IF Cardinality(found) > 1 THEN [status |-> "ambiguous", matches |-> Cardinality(found)]
           ELSE [status |-> "resolved", node |-> The]
    BY Zenon DEF Resolved
  <2>2. found \subseteq ReadableNodes(v, w)
    BY DEF ReadableNodes
  <2>3. found # {} => The \in found
    <3> HIDE DEF found
    <3> QED
      OBVIOUS
  <2> HIDE DEF found, The
  <2>4. found # {} /\ Resolved(v, w, t).node = The
    BY <1>1, <2>1
  <2> QED
    BY <2>2, <2>3, <2>4
<1> QED
  BY <1>1 DEF ResolveLinkTargets

LEMMA BatchesAreReadable ==
    ASSUME NEW v, NEW w
    PROVE  /\ \A ids : "refused" \notin DOMAIN GetNodesByIds(v, w, ids) =>
                 GetNodesByIds(v, w, ids).nodes \subseteq ReadableNodes(v, w)
           /\ \A ids : "refused" \notin DOMAIN GetContentForNodes(v, w, ids) =>
                 GetContentForNodes(v, w, ids).nodes \subseteq ReadableNodes(v, w)
<1>1. ASSUME NEW ids, "refused" \notin DOMAIN GetNodesByIds(v, w, ids)
      PROVE  ids \subseteq ReadableNodes(v, w) /\ GetNodesByIds(v, w, ids).nodes = ids
  <2>1. ids \subseteq v.nodes /\ \A n \in ids : Readable(v, w, n)
    BY <1>1, RefusalsSaySo DEF GetNodesByIds
  <2> QED
    BY <2>1 DEF GetNodesByIds, ReadableNodes
<1>2. ASSUME NEW ids, "refused" \notin DOMAIN GetContentForNodes(v, w, ids)
      PROVE  GetContentForNodes(v, w, ids).nodes \subseteq ReadableNodes(v, w)
  <2> DEFINE bulk == GetNodesByIds(v, w, Range(ids))
             rest == [nodes |-> Range(ids), content |-> [i \in 1..Len(ids) |-> v.text[ids[i]]]]
  <2>1. GetContentForNodes(v, w, ids) = IF "refused" \in DOMAIN bulk THEN bulk ELSE rest
    BY Zenon DEF GetContentForNodes
  <2>2. rest.nodes = Range(ids)
    OBVIOUS
  <2> HIDE DEF rest
  <2>3. "refused" \notin DOMAIN bulk /\ GetContentForNodes(v, w, ids) = rest
    BY <1>2, <2>1
  <2> QED
    BY <1>1, <2>2, <2>3
<1> QED
  BY <1>1, <1>2

LEMMA OneNodeReads ==
    ASSUME NEW v, NEW w, NEW n
    PROVE  /\ \A version : "refused" \notin DOMAIN GetNodeById(v, w, n, version) =>
                 GetNodeById(v, w, n, version).nodes \subseteq ReadableNodes(v, w)
           /\ "refused" \notin DOMAIN GetNodeVersions(v, w, n) =>
                 GetNodeVersions(v, w, n).nodes \subseteq ReadableNodes(v, w)
           /\ \A id : "refused" \notin DOMAIN GetVersionById(v, w, n, id) =>
                 GetVersionById(v, w, n, id).nodes \subseteq ReadableNodes(v, w)
           /\ "refused" \notin DOMAIN ListNodeAssets(v, w, n) =>
                 ListNodeAssets(v, w, n).nodes \subseteq ReadableNodes(v, w)
           /\ \A a : "refused" \notin DOMAIN GetNodeAsset(v, w, n, a) =>
                 GetNodeAsset(v, w, n, a).nodes \subseteq ReadableNodes(v, w)
<1> DEFINE R == ReadableNodes(v, w)
           Of(reply) == WithNode(v, w, n, reply)
<1>1. ASSUME NEW reply, "refused" \notin DOMAIN reply => reply.nodes = {n},
             "refused" \notin DOMAIN Of(reply)
      PROVE  Of(reply).nodes \subseteq R
  BY <1>1, OneNodeIsReadable
<1>2. ASSUME NEW version, "refused" \notin DOMAIN GetNodeById(v, w, n, version)
      PROVE  GetNodeById(v, w, n, version).nodes \subseteq R
  <2> DEFINE one == [nodes |-> {n},
                     version |-> IF version = 0 THEN v.versions[n] ELSE version,
                     summary |-> version \in {0, v.versions[n]},
                     policy |-> EffectivePolicy(v, n),
                     version_count |-> v.versions[n]]
             reply == IF version > v.versions[n] THEN Absent ELSE one
  <2>1. GetNodeById(v, w, n, version) = Of(reply)
    BY Zenon DEF GetNodeById
  <2>2. one.nodes = {n}
    OBVIOUS
  <2> HIDE DEF one
  <2>3. "refused" \notin DOMAIN reply => reply.nodes = {n}
    BY <2>2, RefusalsSaySo
  <2> HIDE DEF reply, Of, R
  <2> QED
    BY <1>1, <1>2, <2>1, <2>3
<1>3. ASSUME "refused" \notin DOMAIN GetNodeVersions(v, w, n)
      PROVE  GetNodeVersions(v, w, n).nodes \subseteq R
  <2> DEFINE reply == [nodes |-> {n}, versions |-> [i \in 1..v.versions[n] |-> v.versions[n] + 1 - i]]
  <2>1. GetNodeVersions(v, w, n) = Of(reply)
    BY Zenon DEF GetNodeVersions
  <2>2. reply.nodes = {n}
    OBVIOUS
  <2> HIDE DEF reply, Of, R
  <2> QED
    BY <1>1, <1>3, <2>1, <2>2
<1>4. ASSUME NEW id, "refused" \notin DOMAIN GetVersionById(v, w, n, id)
      PROVE  GetVersionById(v, w, n, id).nodes \subseteq R
  <2> DEFINE one == [nodes |-> {n}, version |-> id[2]]
             reply == IF id[1] = n /\ id[2] \in 1..v.versions[n] THEN one ELSE Absent
  <2>1. GetVersionById(v, w, n, id) = Of(reply)
    BY Zenon DEF GetVersionById
  <2>2. one.nodes = {n}
    OBVIOUS
  <2> HIDE DEF one
  <2>3. "refused" \notin DOMAIN reply => reply.nodes = {n}
    BY <2>2, RefusalsSaySo
  <2> HIDE DEF reply, Of, R
  <2> QED
    BY <1>1, <1>4, <2>1, <2>3
<1>5. ASSUME "refused" \notin DOMAIN ListNodeAssets(v, w, n)
      PROVE  ListNodeAssets(v, w, n).nodes \subseteq R
  <2> DEFINE reply == [nodes |-> {n}, assets |-> ImagesOf(v, n)]
  <2>1. ListNodeAssets(v, w, n) = Of(reply)
    BY Zenon DEF ListNodeAssets
  <2>2. reply.nodes = {n}
    OBVIOUS
  <2> HIDE DEF reply, Of, R
  <2> QED
    BY <1>1, <1>5, <2>1, <2>2
<1>6. ASSUME NEW a, "refused" \notin DOMAIN GetNodeAsset(v, w, n, a)
      PROVE  GetNodeAsset(v, w, n, a).nodes \subseteq R
  <2> DEFINE one == [nodes |-> {n}, asset |-> a]
             reply == IF a \in Range(ImagesOf(v, n)) THEN one ELSE Absent
  <2>1. GetNodeAsset(v, w, n, a) = Of(reply)
    BY Zenon DEF GetNodeAsset
  <2>2. one.nodes = {n}
    OBVIOUS
  <2> HIDE DEF one
  <2>3. "refused" \notin DOMAIN reply => reply.nodes = {n}
    BY <2>2, RefusalsSaySo
  <2> HIDE DEF reply, Of, R
  <2> QED
    BY <1>1, <1>6, <2>1, <2>3
<1> QED
  BY <1>2, <1>3, <1>4, <1>5, <1>6

LEMMA AssetThroughNode ==
    ASSUME NEW v, NEW w, NEW a, "refused" \notin DOMAIN AssetReadableByAi(v, w, a)
    PROVE  /\ AssetReadableByAi(v, w, a).nodes = {}
           /\ w.ai => \E n \in ReadableNodes(v, w) : "asset" \in DOMAIN GetNodeAsset(v, w, n, a)
<1>1. ~ w.ai \/ \E n \in v.nodes : a \in Range(ImagesOf(v, n)) /\ Readable(v, w, n)
  BY RefusalsSaySo DEF AssetReadableByAi
<1>2. AssetReadableByAi(v, w, a).nodes = {}
  BY <1>1 DEF AssetReadableByAi
<1>3. ASSUME w.ai PROVE \E n \in ReadableNodes(v, w) : "asset" \in DOMAIN GetNodeAsset(v, w, n, a)
  <2>1. PICK n \in v.nodes : a \in Range(ImagesOf(v, n)) /\ Readable(v, w, n)
    BY <1>1, <1>3
  <2>2. GetNodeAsset(v, w, n, a) = [nodes |-> {n}, asset |-> a]
    BY <2>1 DEF GetNodeAsset, WithNode
  <2>3. n \in ReadableNodes(v, w)
    BY <2>1 DEF ReadableNodes
  <2> QED
    BY <2>2, <2>3
<1> QED
  BY <1>2, <1>3

LEMMA BundlesAreReadable ==
    ASSUME NEW v, Found(v), NEW w \in Viewers, NEW r \in BundleRequests
    PROVE  /\ \A root : "refused" \notin DOMAIN BuildContextBundle(v, w, r, root) =>
                 BuildContextBundle(v, w, r, root).nodes \subseteq ReadableNodes(v, w)
           /\ \A query, subtree : BuildSearchContextBundle(v, w, r, query, subtree).nodes
                                  \subseteq ReadableNodes(v, w)
<1>1. ASSUME NEW own, NEW cut, NEW b \in Builders(v, w, r, own, cut)
      PROVE  NodesOf(b) \subseteq ReadableNodes(v, w)
  <2> DEFINE I == ItemsOf(v, w, r)
  <2>1. b.items \in Seq(I) /\ \A x \in I : x.node \in ReadableNodes(v, w)
    BY BuilderFields, ItemsShow
  <2> HIDE DEF I
  <2>2. \A i \in DOMAIN b.items : b.items[i] \in I
    BY <2>1, LenProperties, ElementOfSeq
  <2> QED
    BY <2>1, <2>2 DEF NodesOf
<1>2. ASSUME NEW root, "refused" \notin DOMAIN BuildContextBundle(v, w, r, root)
      PROVE  BuildContextBundle(v, w, r, root).nodes \subseteq ReadableNodes(v, w)
  <2> DEFINE reply == BuildContextBundle(v, w, r, root)
  <2>1. "refused" \notin DOMAIN reply
    BY <1>2
  <2> HIDE DEF reply
  <2>2. root \in ReadableNodes(v, w)
        /\ \E own \in Nat, cut \in BOOLEAN : \E b \in Builders(v, w, r, own, cut) :
              reply.nodes = {root} \cup NodesOf(b)
    BY <2>1, BundleIsBuilt DEF reply
  <2>3. PICK own \in Nat, cut \in BOOLEAN : \E b \in Builders(v, w, r, own, cut) :
              reply.nodes = {root} \cup NodesOf(b)
    BY <2>2
  <2> QED
    BY <1>1, <2>2, <2>3 DEF reply
<1>3. ASSUME NEW query, NEW subtree
      PROVE  BuildSearchContextBundle(v, w, r, query, subtree).nodes \subseteq ReadableNodes(v, w)
  <2> DEFINE reply == BuildSearchContextBundle(v, w, r, query, subtree)
  <2>1. PICK b : SearchBuilt(v, w, r, b) /\ reply.nodes = NodesOf(b)
    BY SearchBundleIsBuilt
  <2> HIDE DEF reply
  <2>2. PICK cut \in BOOLEAN : b \in Builders(v, w, r, 0, cut)
    BY <2>1 DEF SearchBuilt
  <2> QED
    BY <1>1, <2>1, <2>2 DEF reply
<1> QED
  BY <1>2, <1>3

\* What AllAndOnlyReadable asks of a reply.
ReadsRight(op, w, r, reply) ==
    LET readable == ReadableNodes(Over(op, r), w)
    IN  "refused" \notin DOMAIN reply =>
           /\ reply.nodes \subseteq readable
           /\ op \in {"list", "tree"} /\ "not_modified" \notin DOMAIN reply => reply.nodes = readable
           /\ op = "asset" /\ w.ai
                 => \E n \in readable : "asset" \in DOMAIN GetNodeAsset(vault, w, n, r.asset)

LEMMA RepliesAreReadable ==
    ASSUME NEW op, NEW w, NEW r, NEW reply, Reply(op, w, r, reply), ReadsRight(op, w, r, reply)
    PROVE  AllAndOnlyReadable'
<1> DEFINE a == [op |-> op, viewer |-> w, request |-> r, reply |-> reply]
<1>1. answer' = a /\ vault' = vault
  BY DEF Reply
<1>2. a.op = op /\ a.viewer = w /\ a.request = r /\ a.reply = reply
  OBVIOUS
<1> HIDE DEF a
<1>3. Basis(answer)' = Over(op, r)
  BY <1>1, <1>2 DEF Basis, Over
<1> QED
  BY <1>1, <1>2, <1>3 DEF AllAndOnlyReadable, Replied, ReadsRight

LEMMA ManyAreReadable ==
    ASSUME vault \in VaultStates, Found(vault), NEW w \in Viewers,
           \/ GetTree(w) \/ GetList(w) \/ GetByTitle(w) \/ SearchNodesByTitle(w)
           \/ FullTextSearch(w) \/ ResolveInternalLinks(w)
    PROVE  AllAndOnlyReadable'
<1> DEFINE v == vault
<1>1. CASE GetTree(w)
  <2>1. PICK built \in {v} \cup {x \in CachedStates : x.nodes # {}} :
          \E etag : Reply("tree", w, [etag |-> etag, built |-> built], GetNodesAsTree(built, w, etag))
    BY <1>1, Zenon DEF GetTree
  <2>2. PICK etag :
          Reply("tree", w, [etag |-> etag, built |-> built], GetNodesAsTree(built, w, etag))
    BY <2>1
  <2> DEFINE r == [etag |-> etag, built |-> built]
             reply == GetNodesAsTree(built, w, etag)
  <2>3. Found(built)
    BY BuiltOfFound
  <2>4. /\ reply.nodes \subseteq ReadableNodes(built, w)
        /\ "not_modified" \notin DOMAIN reply => reply.nodes = ReadableNodes(built, w)
    BY <2>3, TreeShowsReadable
  <2>5. Over("tree", r) = built
    BY DEF Over
  <2> HIDE DEF reply, r
  <2>6. ReadsRight("tree", w, r, reply)
    BY <2>4, <2>5 DEF ReadsRight
  <2>7. Reply("tree", w, r, reply)
    BY <2>2 DEF r, reply
  <2> QED
    BY <2>6, <2>7, RepliesAreReadable
<1>2. CASE GetList(w)
  <2> DEFINE reply == GetNodesAsList(v, w)
  <2>1. Reply("list", w, [etag |-> NoReply], reply)
    BY <1>2 DEF GetList
  <2>2. reply.nodes = ReadableNodes(v, w)
    BY RowsAreReadable
  <2> HIDE DEF reply
  <2>3. ReadsRight("list", w, [etag |-> NoReply], reply)
    BY <2>2 DEF ReadsRight, Over
  <2> QED
    BY <2>1, <2>3, RepliesAreReadable
<1>3. CASE GetByTitle(w)
  <2>1. PICK q \in Queries : Reply("title", w, [query |-> q], FindNodeByTitle(v, w, q))
    BY <1>3 DEF GetByTitle
  <2> DEFINE reply == FindNodeByTitle(v, w, q)
  <2>2. q \in Nat
    BY RequestsAssumption DEF Titles
  <2>3. reply.nodes \subseteq ReadableNodes(v, w)
    BY <2>2, RowsAreReadable
  <2> HIDE DEF reply
  <2>4. ReadsRight("title", w, [query |-> q], reply)
    BY <2>3 DEF ReadsRight, Over
  <2> QED
    BY <2>1, <2>4, RepliesAreReadable DEF reply
<1>4. CASE SearchNodesByTitle(w)
  <2>1. PICK q \in Queries : Reply("autocomplete", w, [query |-> q], Autocomplete(v, w, q))
    BY <1>4 DEF SearchNodesByTitle
  <2> DEFINE reply == Autocomplete(v, w, q)
  <2>2. reply.nodes \subseteq ReadableNodes(v, w)
    BY RowsAreReadable
  <2> HIDE DEF reply
  <2>3. ReadsRight("autocomplete", w, [query |-> q], reply)
    BY <2>2 DEF ReadsRight, Over
  <2> QED
    BY <2>1, <2>3, RepliesAreReadable DEF reply
<1>5. CASE FullTextSearch(w)
  <2>1. PICK q \in Queries, limit \in Limits, root \in v.nodes \cup {NoNode} :
           Reply("search", w, [query |-> q, limit |-> limit, subtree |-> root],
                 [nodes |-> Range(SearchNodesFulltext(v, w, q, limit, root)),
                  order |-> SearchNodesFulltext(v, w, q, limit, root)])
    BY <1>5 DEF FullTextSearch
  <2> DEFINE r == [query |-> q, limit |-> limit, subtree |-> root]
             hits == SearchNodesFulltext(v, w, q, limit, root)
             reply == [nodes |-> Range(hits), order |-> hits]
             R == ReadableNodes(v, w)
  <2>2. limit \in Nat
    BY RequestsAssumption
  <2>3. hits \in Seq(R)
    BY <2>2, HitsAreReadable
  <2> HIDE DEF hits, r, R
  <2>4. Range(hits) \subseteq R
    BY <2>3, LenProperties, ElementOfSeq DEF Range
  <2>5. reply.nodes = Range(hits)
    OBVIOUS
  <2> HIDE DEF reply
  <2>6. ReadsRight("search", w, r, reply)
    BY <2>4, <2>5 DEF ReadsRight, Over, R
  <2>7. Reply("search", w, r, reply)
    BY <2>1 DEF reply, r, hits
  <2> QED
    BY <2>6, <2>7, RepliesAreReadable
<1>6. CASE ResolveInternalLinks(w)
  <2>1. PICK targets : Reply("resolve", w, [targets |-> targets], ResolveLinkTargets(v, w, targets))
    BY <1>6, Zenon DEF ResolveInternalLinks
  <2> DEFINE reply == ResolveLinkTargets(v, w, targets)
  <2>2. reply.nodes \subseteq ReadableNodes(v, w)
    BY TargetsAreReadable
  <2> HIDE DEF reply
  <2>3. ReadsRight("resolve", w, [targets |-> targets], reply)
    BY <2>2 DEF ReadsRight, Over
  <2> QED
    BY <2>1, <2>3, RepliesAreReadable DEF reply
<1> QED
  BY <1>1, <1>2, <1>3, <1>4, <1>5, <1>6

\* The reads by id.
LEMMA ReadsAreReadable ==
    ASSUME NEW w, NEW r, NEW reply, Reply("read", w, r, reply),
           "refused" \notin DOMAIN reply => reply.nodes \subseteq ReadableNodes(vault, w)
    PROVE  AllAndOnlyReadable'
<1>1. ReadsRight("read", w, r, reply)
  BY DEF ReadsRight, Over
<1> QED
  BY <1>1, RepliesAreReadable

LEMMA FewAreReadable ==
    ASSUME NEW w \in Viewers,
           \/ GetMultipleNodes(w) \/ PostNodesContent(w) \/ GetSingleNode(w)
           \/ GetNodeVersionsRoute(w) \/ GetSingleVersion(w) \/ ListNodeAssetsRoute(w)
           \/ GetNodeAssetRoute(w)
    PROVE  AllAndOnlyReadable'
<1> DEFINE v == vault
<1>1. CASE GetMultipleNodes(w)
  <2>1. PICK ids \in Batches : Reply("read", w, [ids |-> ids], GetNodesByIds(v, w, Range(ids)))
    BY <1>1 DEF GetMultipleNodes
  <2> QED
    BY <2>1, BatchesAreReadable, ReadsAreReadable
<1>2. CASE PostNodesContent(w)
  <2>1. PICK ids \in Batches :
           Reply("read", w, [ids |-> ids, content |-> TRUE], GetContentForNodes(v, w, ids))
    BY <1>2 DEF PostNodesContent
  <2> QED
    BY <2>1, BatchesAreReadable, ReadsAreReadable
<1>3. CASE GetSingleNode(w)
  <2>1. PICK n \in Nodes, version \in 0..2 :
           Reply("read", w, [ids |-> {n}, version |-> version], GetNodeById(v, w, n, version))
    BY <1>3 DEF GetSingleNode
  <2> QED
    BY <2>1, OneNodeReads, ReadsAreReadable
<1>4. CASE GetNodeVersionsRoute(w)
  <2>1. PICK n \in Nodes : Reply("read", w, [ids |-> {n}], GetNodeVersions(v, w, n))
    BY <1>4 DEF GetNodeVersionsRoute
  <2> QED
    BY <2>1, OneNodeReads, ReadsAreReadable
<1>5. CASE GetSingleVersion(w)
  <2>1. PICK n \in Nodes, of \in Int :
           Reply("read", w, [ids |-> {n}, version |-> <<of, 1>>], GetVersionById(v, w, n, <<of, 1>>))
    BY <1>5 DEF GetSingleVersion, Nodes
  <2> QED
    BY <2>1, OneNodeReads, ReadsAreReadable
<1>6. CASE ListNodeAssetsRoute(w)
  <2>1. PICK n \in Nodes : Reply("read", w, [ids |-> {n}], ListNodeAssets(v, w, n))
    BY <1>6 DEF ListNodeAssetsRoute
  <2> QED
    BY <2>1, OneNodeReads, ReadsAreReadable
<1>7. CASE GetNodeAssetRoute(w)
  <2>1. PICK n \in Nodes, a \in Images : Reply("read", w, [ids |-> {n}, asset |-> a], GetNodeAsset(v, w, n, a))
    BY <1>7 DEF GetNodeAssetRoute
  <2> QED
    BY <2>1, OneNodeReads, ReadsAreReadable
<1> QED
  BY <1>1, <1>2, <1>3, <1>4, <1>5, <1>6, <1>7

LEMMA OthersAreReadable ==
    ASSUME Found(vault), NEW w \in Viewers,
           GetAsset(w) \/ GetContextBundle(w) \/ SearchContextBundle(w)
    PROVE  AllAndOnlyReadable'
<1> DEFINE v == vault
<1>1. CASE GetAsset(w)
  <2>1. PICK a : Reply("asset", w, [asset |-> a], AssetReadableByAi(v, w, a))
    BY <1>1 DEF GetAsset
  <2> DEFINE r == [asset |-> a]
             reply == AssetReadableByAi(v, w, a)
  <2>2. "refused" \notin DOMAIN reply =>
           /\ reply.nodes = {}
           /\ w.ai => \E n \in ReadableNodes(v, w) : "asset" \in DOMAIN GetNodeAsset(v, w, n, r.asset)
    BY AssetThroughNode
  <2> HIDE DEF r, reply
  <2>3. ReadsRight("asset", w, r, reply)
    BY <2>2 DEF ReadsRight, Over
  <2> QED
    BY <2>1, <2>3, RepliesAreReadable DEF r, reply
<1>2. CASE GetContextBundle(w)
  <2>1. PICK limits \in BundleRequests, n \in Nodes :
           Reply("bundle", w, [limits |-> limits, root |-> n], BuildContextBundle(v, w, limits, n))
    BY <1>2 DEF GetContextBundle
  <2> DEFINE r == [limits |-> limits, root |-> n]
             reply == BuildContextBundle(v, w, limits, n)
  <2>2. "refused" \notin DOMAIN reply => reply.nodes \subseteq ReadableNodes(v, w)
    BY BundlesAreReadable
  <2> HIDE DEF r, reply
  <2>3. ReadsRight("bundle", w, r, reply)
    BY <2>2 DEF ReadsRight, Over
  <2> QED
    BY <2>1, <2>3, RepliesAreReadable DEF r, reply
<1>3. CASE SearchContextBundle(w)
  <2>1. PICK limits \in BundleRequests, q \in Queries, root \in {NoNode, 1} :
           Reply("search bundle", w, [limits |-> limits, query |-> q, subtree |-> root],
                 BuildSearchContextBundle(v, w, limits, q, root))
    BY <1>3 DEF SearchContextBundle
  <2> DEFINE r == [limits |-> limits, query |-> q, subtree |-> root]
             reply == BuildSearchContextBundle(v, w, limits, q, root)
  <2>2. reply.nodes \subseteq ReadableNodes(v, w)
    BY BundlesAreReadable
  <2> HIDE DEF r, reply
  <2>3. ReadsRight("search bundle", w, r, reply)
    BY <2>2 DEF ReadsRight, Over
  <2> QED
    BY <2>1, <2>3, RepliesAreReadable DEF r, reply
<1> QED
  BY <1>1, <1>2, <1>3

Screened == vault \in VaultStates /\ AllAndOnlyReadable

LEMMA ScreenedStep == Screened /\ [Next]_vars => Screened'
<1> SUFFICES ASSUME Screened, [Next]_vars PROVE Screened'
  OBVIOUS
<1>1. Found(vault)
  BY VaultsAssumption DEF Screened, Found
<1>2. vault' = vault
  BY StepsOnlyRead
<1>3. ASSUME Deliver \/ UNCHANGED vars PROVE AllAndOnlyReadable'
  <2>1. CASE Deliver
    <3>1. answer' = NoReply
      BY <2>1 DEF Deliver
    <3>2. ~ Replied({"list", "tree"})' /\ ~ Replied({"asset"})'
      BY <3>1 DEF Replied
    <3> QED
      BY <3>1, <3>2 DEF AllAndOnlyReadable
  <2>2. CASE UNCHANGED vars
    BY <2>2 DEF vars, Screened, AllAndOnlyReadable, Replied, Basis
  <2> QED
    BY <1>3, <2>1, <2>2
<1>4. ASSUME NEW w \in Viewers,
             \/ GetTree(w) \/ GetList(w) \/ GetByTitle(w) \/ SearchNodesByTitle(w)
             \/ FullTextSearch(w) \/ ResolveInternalLinks(w)
      PROVE  AllAndOnlyReadable'
  BY <1>1, <1>4, ManyAreReadable DEF Screened
<1>5. ASSUME NEW w \in Viewers,
             \/ GetMultipleNodes(w) \/ PostNodesContent(w) \/ GetSingleNode(w)
             \/ GetNodeVersionsRoute(w) \/ GetSingleVersion(w) \/ ListNodeAssetsRoute(w)
             \/ GetNodeAssetRoute(w)
      PROVE  AllAndOnlyReadable'
  BY <1>5, FewAreReadable
<1>6. ASSUME NEW w \in Viewers, GetAsset(w) \/ GetContextBundle(w) \/ SearchContextBundle(w)
      PROVE  AllAndOnlyReadable'
  BY <1>1, <1>6, OthersAreReadable
<1>7. AllAndOnlyReadable'
  BY <1>3, <1>4, <1>5, <1>6 DEF Next
<1> QED
  BY <1>2, <1>7 DEF Screened

\* Everything that an answer names may be read by the caller, the tree and the
\* list show all of that, and the URL of an image gives an AI nothing that no
\* node it may read would have given it: by the policies of the rows, and for a
\* tree by those of the vault its cached copy was built of.
THEOREM ReadsAreScreened == Spec => []AllAndOnlyReadable
<1>1. Init => Screened
  BY DEF Init, Screened, AllAndOnlyReadable, Replied
<1>2. Screened => AllAndOnlyReadable
  BY DEF Screened
<1> QED
  BY <1>1, <1>2, ScreenedStep, PTL DEF Spec

-----------------------------------------------------------------------------
(***************************************************************************)
(* Transfer.                                                               *)
(***************************************************************************)

LEMMA LockIsStrongest ==
    ASSUME NEW v, v.parent \in [Nodes -> Nodes \cup {NoNode}],
           v.lock \in [Nodes -> Open..HumanLocked], NEW n \in Nodes
    PROVE  /\ EffectiveLock(v, n) \in Open..HumanLocked
           /\ \E m \in Lineage(v, n) : v.lock[m] = EffectiveLock(v, n)
           /\ \A m \in Lineage(v, n) : v.lock[m] <= EffectiveLock(v, n)
<1> DEFINE L == {v.lock[m] : m \in Lineage(v, n)}
<1>1. Lineage(v, n) \subseteq Nodes /\ n \in Lineage(v, n)
  BY LineageIsLeast
<1>2. L \in SUBSET (0..2) /\ L # {}
  BY <1>1 DEF Open, HumanLocked
<1>3. EffectiveLock(v, n) = Strongest(L)
  BY DEF EffectiveLock, Strongest
<1>4. Strongest(L) \in L /\ \A k \in L : k <= Strongest(L)
  <2> HIDE DEF L
  <2> QED
    BY <1>2, StrongestIsMax
<1> QED
  BY <1>2, <1>3, <1>4 DEF Open, HumanLocked

-----------------------------------------------------------------------------
\* The rows of the new nodes, as With is told to make them.
Rows == [vault : Vaults \cup {NewVault}, parent : Nodes \cup {NoNode}, policy : Allow..Deny,
         lock : Open..HumanLocked, history : Seq(Versions), current : Nat]

LEMMA WithRows ==
    ASSUME NEW copy, IsInjective(copy), NEW made
    PROVE  LET s == With(copy, made)
           IN  /\ s.nodes = store.nodes \cup Range(copy)
               /\ \A m \in DOMAIN copy : copy[m] \in Nodes =>
                     /\ s.vault[copy[m]] = made[m].vault
                     /\ s.parent[copy[m]] = made[m].parent
                     /\ s.policy[copy[m]] = made[m].policy
                     /\ s.lock[copy[m]] = made[m].lock
                     /\ s.history[copy[m]] = made[m].history
                     /\ s.current[copy[m]] = made[m].current
               /\ \A n \in Nodes \ Range(copy) :
                     /\ s.vault[n] = store.vault[n]
                     /\ s.parent[n] = store.parent[n]
                     /\ s.policy[n] = store.policy[n]
                     /\ s.lock[n] = store.lock[n]
                     /\ s.history[n] = store.history[n]
                     /\ s.current[n] = store.current[n]
<1> DEFINE new == Range(copy)
           Source(id) == CHOOSE m \in DOMAIN copy : copy[m] = id
<1>1. \A m \in DOMAIN copy : copy[m] \in new /\ Source(copy[m]) = m
  BY DEF IsInjective, Range
<1>2. With(copy, made) =
        [nodes |-> store.nodes \cup new,
         vault |-> [n \in Nodes |-> IF n \in new THEN made[Source(n)].vault ELSE store.vault[n]],
         parent |-> [n \in Nodes |-> IF n \in new THEN made[Source(n)].parent ELSE store.parent[n]],
         policy |-> [n \in Nodes |-> IF n \in new THEN made[Source(n)].policy ELSE store.policy[n]],
         lock |-> [n \in Nodes |-> IF n \in new THEN made[Source(n)].lock ELSE store.lock[n]],
         history |-> [n \in Nodes |-> IF n \in new THEN made[Source(n)].history ELSE store.history[n]],
         current |-> [n \in Nodes |-> IF n \in new THEN made[Source(n)].current ELSE store.current[n]]]
  BY DEF With
<1> HIDE DEF Source, new
<1> QED
  BY <1>1, <1>2 DEF new

LEMMA WithType ==
    ASSUME store \in StoreType, NEW copy, IsInjective(copy), Range(copy) \subseteq Nodes,
           NEW made, \A m \in DOMAIN copy : made[m] \in Rows
    PROVE  With(copy, made) \in StoreType
<1> DEFINE new == Range(copy)
           Source(id) == CHOOSE m \in DOMAIN copy : copy[m] = id
<1>1. \A n \in new : Source(n) \in DOMAIN copy
  BY DEF Range
<1>2. \A n \in new : made[Source(n)] \in Rows
  <2> HIDE DEF Source, new
  <2> QED
    BY <1>1
<1>3. With(copy, made) =
        [nodes |-> store.nodes \cup new,
         vault |-> [n \in Nodes |-> IF n \in new THEN made[Source(n)].vault ELSE store.vault[n]],
         parent |-> [n \in Nodes |-> IF n \in new THEN made[Source(n)].parent ELSE store.parent[n]],
         policy |-> [n \in Nodes |-> IF n \in new THEN made[Source(n)].policy ELSE store.policy[n]],
         lock |-> [n \in Nodes |-> IF n \in new THEN made[Source(n)].lock ELSE store.lock[n]],
         history |-> [n \in Nodes |-> IF n \in new THEN made[Source(n)].history ELSE store.history[n]],
         current |-> [n \in Nodes |-> IF n \in new THEN made[Source(n)].current ELSE store.current[n]]]
  BY DEF With
<1>4. new \subseteq Nodes
  OBVIOUS
<1> HIDE DEF Source, new
<1> QED
  BY <1>2, <1>3, <1>4 DEF StoreType, Rows

-----------------------------------------------------------------------------
LEMMA LineageOfParent ==
    ASSUME NEW v, v.parent \in [Nodes -> Nodes \cup {NoNode}], NEW n \in Nodes
    PROVE  /\ v.parent[n] = NoNode => Lineage(v, n) = {n}
           /\ v.parent[n] # NoNode => Lineage(v, n) = {n} \cup Lineage(v, v.parent[n])
<1>1. CASE v.parent[n] = NoNode
  <2>1. n \in {n} /\ UpClosed(v, {n})
    BY <1>1 DEF UpClosed
  <2>2. Lineage(v, n) \subseteq {n} /\ n \in Lineage(v, n)
    BY <2>1, LineageIsLeast
  <2> QED
    BY <1>1, <2>2
<1>2. CASE v.parent[n] # NoNode
  <2> DEFINE p == v.parent[n]
             C == {n} \cup Lineage(v, p)
  <2>1. p \in Nodes
    BY <1>2
  <2>2. p \in Lineage(v, p) /\ UpClosed(v, Lineage(v, p))
    BY <2>1, LineageIsLeast
  <2>3. n \in C /\ UpClosed(v, C)
    BY <2>2 DEF UpClosed
  <2>4. Lineage(v, n) \subseteq C
    <3> HIDE DEF C
    <3> QED
      BY <2>3, LineageIsLeast
  <2>5. p \in Lineage(v, n) /\ n \in Lineage(v, n) /\ UpClosed(v, Lineage(v, n))
    <3>1. n \in Lineage(v, n) /\ UpClosed(v, Lineage(v, n))
      BY LineageIsLeast
    <3> QED
      BY <3>1, <1>2 DEF UpClosed
  <2>6. Lineage(v, p) \subseteq Lineage(v, n)
    <3> HIDE DEF p
    <3> QED
      BY <2>1, <2>5, LineageIsLeast
  <2> QED
    BY <1>2, <2>4, <2>5, <2>6
<1> QED
  BY <1>1, <1>2

LEMMA LineageOfAncestor ==
    ASSUME NEW v, v.parent \in [Nodes -> Nodes \cup {NoNode}], NEW n \in Nodes,
           NEW m \in Lineage(v, n)
    PROVE  Lineage(v, m) \subseteq Lineage(v, n)
<1>1. Lineage(v, n) \subseteq Nodes /\ UpClosed(v, Lineage(v, n))
  BY LineageIsLeast
<1>2. m \in Nodes
  BY <1>1
<1> QED
  BY <1>1, <1>2, LineageIsLeast

\* Where nodes keep their parents among themselves, and so does the new store,
\* their ancestors are the same.
LEMMA SameLineage ==
    ASSUME NEW v, v.parent \in [Nodes -> Nodes \cup {NoNode}],
           NEW s, s.parent \in [Nodes -> Nodes \cup {NoNode}],
           NEW S \in SUBSET Nodes, UpClosed(v, S), \A m \in S : s.parent[m] = v.parent[m],
           NEW n \in S
    PROVE  Lineage(s, n) = Lineage(v, n)
<1>1. /\ n \in Lineage(v, n) /\ UpClosed(v, Lineage(v, n)) /\ Lineage(v, n) \subseteq S
      /\ n \in Lineage(s, n) /\ UpClosed(s, Lineage(s, n))
  BY LineageIsLeast
<1>2. UpClosed(s, Lineage(v, n)) /\ UpClosed(s, S)
  BY <1>1 DEF UpClosed
<1>3. Lineage(s, n) \subseteq Lineage(v, n)
  BY <1>1, <1>2, LineageIsLeast
<1>4. UpClosed(v, Lineage(s, n))
  BY <1>1, <1>3 DEF UpClosed
<1>5. Lineage(v, n) \subseteq Lineage(s, n)
  BY <1>1, <1>4, LineageIsLeast
<1> QED
  BY <1>3, <1>5

LEMMA FreshIds ==
    ASSUME issued \in Nat, NEW S, IsFiniteSet(S)
    PROVE  /\ Fresh(S) \in [S -> (issued + 1)..(issued + Cardinality(S))]
           /\ IsInjective(Fresh(S))
<1> DEFINE c == Cardinality(S)
           Ids == [S -> (issued + 1)..(issued + c)]
<1>1. c \in Nat
  BY FS_CardinalityType
<1>2. PICK f \in [1..c -> S] : \A x \in S : \E i \in 1..c : f[i] = x
  BY FS_CardinalityType, ZenonT(60) DEF ExistsBijection, Bijection, Surjection
<1> DEFINE place == [x \in S |-> CHOOSE i \in 1..c : f[i] = x]
           copy == [x \in S |-> issued + place[x]]
<1>3. \A x \in S : place[x] \in 1..c /\ f[place[x]] = x
  BY <1>2
<1> HIDE DEF place, c
<1>4. copy \in Ids
  BY <1>1, <1>3
<1>5. IsInjective(copy)
  BY <1>1, <1>3 DEF IsInjective
<1>6. \E m \in Ids : IsInjective(m)
  BY <1>4, <1>5
<1>7. Fresh(S) = CHOOSE m \in Ids : IsInjective(m)
  BY DEF Fresh, c
<1> HIDE DEF Ids
<1>8. Fresh(S) \in Ids /\ IsInjective(Fresh(S))
  BY <1>6, <1>7
<1> QED
  BY <1>8 DEF Ids, c

-----------------------------------------------------------------------------
\* The store is one that the tables can hold, and no id in it is still to come.
Sound ==
    /\ store \in StoreType /\ Consistent(store)
    /\ issued \in 0..N /\ store.nodes \subseteq 1..issued

LEMMA StoreFields ==
    ASSUME NEW s \in StoreType
    PROVE  /\ s.nodes \subseteq Nodes /\ s.vault \in [Nodes -> Vaults \cup {NewVault}]
           /\ s.parent \in [Nodes -> Nodes \cup {NoNode}] /\ s.policy \in [Nodes -> Allow..Deny]
           /\ s.lock \in [Nodes -> Open..HumanLocked] /\ s.history \in [Nodes -> Seq(Versions)]
           /\ s.current \in [Nodes -> Nat]
  BY DEF StoreType

LEMMA NodesUpClosed ==
    ASSUME NEW s \in StoreType, Consistent(s)
    PROVE  UpClosed(s, s.nodes) /\ NoNode \notin Nodes
  BY DEF UpClosed, Consistent, Nodes, NoNode

LEMMA TextType ==
    ASSUME NEW s \in StoreType, Consistent(s), NEW n \in s.nodes
    PROVE  CurrentText(s, n) \in SUBSET (Nodes \cup {Image})
<1> DEFINE h == s.history[n]
           i == CHOOSE i \in DOMAIN h : h[i].number = s.current[n]
<1>1. n \in Nodes /\ h \in Seq(Versions)
  BY StoreFields
<1>2. \E k \in DOMAIN h : h[k].number = s.current[n]
  BY DEF Consistent
<1>3. i \in DOMAIN h
  <2> HIDE DEF h
  <2> QED
    BY <1>2
<1>4. CurrentText(s, n) = h[i].text
  BY DEF CurrentText
<1> HIDE DEF i, h
<1>5. h[i] \in Versions
  BY <1>1, <1>3
<1> QED
  BY <1>4, <1>5 DEF Versions

\* What a copy has loaded of a node, if it was like this in s.
RowIn(s, n) ==
    [parent |-> s.parent[n], policy |-> s.policy[n], lock |-> s.lock[n], text |-> CurrentText(s, n)]

CopyRows ==
    [parent : Nodes \cup {NoNode}, policy : Allow..Deny, lock : Open..HumanLocked,
     text : SUBSET (Nodes \cup {Image})]

\* The copy under way: its request is one about the store as it was asked for, and
\* the rows it has loaded are one tree, with the node at its top.
IsRequest(c) ==
    /\ DOMAIN c = {"node", "to", "under", "recursive", "by", "asked", "rows", "queue"}
    /\ c.asked \in StoreType /\ Consistent(c.asked)
    /\ c.node \in c.asked.nodes /\ c.to \in Vaults /\ c.recursive \in BOOLEAN
    /\ c.under \in c.asked.nodes \cup {NoNode}

IsTree(c) ==
    /\ DOMAIN c.rows \subseteq Nodes /\ c.node \in DOMAIN c.rows
    /\ \A m \in DOMAIN c.rows : c.rows[m] \in CopyRows
    /\ c.queue \in Seq(DOMAIN c.rows)
    /\ \A m \in DOMAIN c.rows \ {c.node} : c.rows[m].parent \in DOMAIN c.rows
    /\ \A T \in SUBSET (DOMAIN c.rows \ {c.node}) :
          T # {} => \E x \in T : c.rows[x].parent \notin T
    /\ ~c.recursive => DOMAIN c.rows = {c.node}

\* What nobody has touched since is as it was, and was loaded so; and whatever has
\* happened to the parent named, it is in its vault.
IsAsItWas(c) ==
    /\ c.asked.nodes \subseteq 1..issued
    /\ c.under # NoNode => store.vault[c.under] = c.to
    /\ \A m \in Nodes \ overtaken : SameRow(c.asked, store, m)
    /\ \A m \in DOMAIN c.rows \ overtaken : m \in c.asked.nodes /\ c.rows[m] = RowIn(c.asked, m)

\* Of nodes whose turn has come, the children are loaded, and none is withheld.
Reached(c) == DOMAIN c.rows \ Range(c.queue)

IsWalked(c) ==
    /\ c.recursive => \A m \in c.asked.nodes \ overtaken :
          c.asked.parent[m] \in Reached(c) => m \in DOMAIN c.rows
    /\ c.by.ai => \A m \in Reached(c) : c.rows[m].policy = Allow
    /\ c.by.ai /\ c.node \in Reached(c) /\ Lineage(c.asked, c.node) \cap overtaken = {} =>
          EffectivePolicy(c.asked, c.node).ai_read = Allow

Going ==
    copying # NoCopy =>
        IsRequest(copying) /\ IsTree(copying) /\ IsAsItWas(copying) /\ IsWalked(copying)

LEMMA RowType ==
    ASSUME NEW s \in StoreType, Consistent(s), NEW n \in s.nodes
    PROVE  RowIn(s, n) \in CopyRows
<1>1. n \in Nodes /\ s.parent[n] \in Nodes \cup {NoNode} /\ s.policy[n] \in Allow..Deny
      /\ s.lock[n] \in Open..HumanLocked
  BY StoreFields
<1>2. CurrentText(s, n) \in SUBSET (Nodes \cup {Image})
  BY TextType
<1> QED
  BY <1>1, <1>2 DEF RowIn, CopyRows

LEMMA SameRows ==
    ASSUME NEW s, NEW t, NEW n, SameRow(s, t, n)
    PROVE  RowIn(s, n) = RowIn(t, n)
<1>1. CurrentText(s, n) = CurrentText(t, n)
  <2>1. s.history[n] = t.history[n] /\ s.current[n] = t.current[n]
    BY DEF SameRow
  <2> QED
    BY <2>1, Zenon DEF CurrentText
<1> QED
  BY <1>1 DEF RowIn, SameRow

LEMMA RowFields ==
    \A s, n : /\ RowIn(s, n).parent = s.parent[n] /\ RowIn(s, n).policy = s.policy[n]
              /\ RowIn(s, n).text = CurrentText(s, n)
  BY DEF RowIn

LEMMA LoadedIsRow == \A n : Loaded(n) = RowIn(store, n)
  BY DEF Loaded, RowIn

\* What others do meanwhile takes nothing from a copy under way but the nodes that
\* they touch.
LEMMA MeanwhileGoes ==
    ASSUME Sound, Going, Meanwhile, issued \in 0..issued', issued' \in Nat,
           \A x \in 1..issued : store'.vault[x] = store.vault[x]
    PROVE  Going'
<1>1. SUFFICES ASSUME copying' # NoCopy
               PROVE  /\ IsRequest(copying') /\ IsTree(copying')
                      /\ IsAsItWas(copying)' /\ IsWalked(copying)'
  BY DEF Going
<1>2. copying' = copying /\ copying # NoCopy
  BY <1>1 DEF Meanwhile
<1>3. overtaken' = overtaken \cup {n \in Nodes : ~SameRow(store, store', n)}
  BY <1>2 DEF Meanwhile
<1>4. \A m \in Nodes \ overtaken' : m \notin overtaken /\ SameRow(store, store', m)
  BY <1>3
<1>5. IsRequest(copying) /\ IsTree(copying) /\ IsAsItWas(copying) /\ IsWalked(copying)
  BY <1>2 DEF Going
<1>6. IsAsItWas(copying)'
  <2>1. copying'.asked.nodes \subseteq 1..issued' /\ issued \in Nat
    <3>1. copying.asked.nodes \subseteq 1..issued /\ issued \in Nat
      BY <1>5, SizeAssumption DEF IsAsItWas, Sound
    <3> QED
      BY <1>2, <3>1
  <2>2. copying'.under # NoNode => store'.vault[copying'.under] = copying'.to
    <3>1. copying.under # NoNode => copying.under \in 1..issued
      BY <1>5 DEF IsAsItWas, IsRequest
    <3> QED
      BY <1>2, <1>5, <3>1 DEF IsAsItWas
  <2>3. ASSUME NEW m \in Nodes \ overtaken' PROVE SameRow(copying'.asked, store', m)
    <3>1. SameRow(copying.asked, store, m) /\ SameRow(store, store', m)
      BY <1>4, <1>5, <2>3 DEF IsAsItWas
    <3> QED
      BY <1>2, <3>1 DEF SameRow
  <2>4. ASSUME NEW m \in DOMAIN copying.rows \ overtaken'
        PROVE  m \in copying.asked.nodes /\ copying.rows[m] = RowIn(copying.asked, m)
    BY <1>3, <1>5, <2>4 DEF IsAsItWas
  <2>5. \A m \in DOMAIN copying'.rows \ overtaken' :
            m \in copying'.asked.nodes /\ copying'.rows[m] = RowIn(copying'.asked, m)
    BY <1>2, <2>4
  <2> QED
    BY <2>1, <2>2, <2>3, <2>5 DEF IsAsItWas
<1>7. IsWalked(copying)'
  <2> DEFINE c == copying
  <2>1. overtaken \subseteq overtaken'
    BY <1>3
  <2>2. c.recursive => \A m \in c.asked.nodes \ overtaken' :
            c.asked.parent[m] \in Reached(c) => m \in DOMAIN c.rows
    BY <1>5, <2>1 DEF IsWalked
  <2>3. c.by.ai => \A m \in Reached(c) : c.rows[m].policy = Allow
    BY <1>5 DEF IsWalked
  <2>4. c.by.ai /\ c.node \in Reached(c) /\ Lineage(c.asked, c.node) \cap overtaken' = {} =>
            EffectivePolicy(c.asked, c.node).ai_read = Allow
    BY <1>5, <2>1 DEF IsWalked
  <2> HIDE DEF c
  <2>5. copying' = c
    BY <1>2 DEF c
  <2> QED
    BY <2>2, <2>3, <2>4, <2>5 DEF IsWalked
<1> QED
  BY <1>2, <1>5, <1>6, <1>7

LEMMA BeginGoes ==
    ASSUME Sound, NEW n \in store.nodes, NEW u \in Vaults, NEW p \in store.nodes \cup {NoNode},
           NEW recursive \in BOOLEAN, NEW w, BeginCopy(n, u, p, recursive, w)
    PROVE  Going'
<1> DEFINE c == [node |-> n, to |-> u, under |-> p, recursive |-> recursive, by |-> w,
                 asked |-> store, rows |-> [m \in {n} |-> Loaded(m)], queue |-> <<n>>]
<1>1. /\ copying' = c /\ overtaken' = {} /\ store' = store /\ issued' = issued
      /\ p # NoNode => p \in InVault(store, u)
  BY DEF BeginCopy
<1>2. /\ store \in StoreType /\ Consistent(store) /\ store.nodes \subseteq 1..issued
      /\ store.nodes \subseteq Nodes
  BY StoreFields DEF Sound
<1>3. /\ c.node = n /\ c.to = u /\ c.under = p /\ c.recursive = recursive /\ c.by = w
      /\ c.asked = store /\ c.rows = [m \in {n} |-> RowIn(store, m)] /\ c.queue = <<n>>
  BY LoadedIsRow
<1>10. DOMAIN c = {"node", "to", "under", "recursive", "by", "asked", "rows", "queue"}
  OBVIOUS
<1>4. DOMAIN c.rows = {n} /\ c.rows[n] = RowIn(store, n) /\ RowIn(store, n) \in CopyRows
  <2>1. RowIn(store, n) \in CopyRows
    BY <1>2, RowType
  <2> QED
    BY <1>3, <2>1
<1> HIDE DEF c
<1>5. Range(c.queue) = {n} /\ c.queue \in Seq({n})
  BY <1>3 DEF Range
<1>6. IsRequest(c)
  BY <1>2, <1>3, <1>10 DEF IsRequest
<1>7. IsTree(c)
  <2>1. \A T \in SUBSET ({n} \ {n}) : T = {}
    OBVIOUS
  <2>2. n \in Nodes
    BY <1>2
  <2> QED
    BY <1>3, <1>4, <1>5, <2>1, <2>2 DEF IsTree
<1>8. IsAsItWas(copying)'
  <2>1. \A m \in Nodes : SameRow(store, store, m)
    BY DEF SameRow
  <2>2. p # NoNode => store.vault[p] = u
    BY <1>1 DEF InVault
  <2>3. /\ copying'.asked = store /\ copying'.under = p /\ copying'.to = u
        /\ copying'.rows = [m \in {n} |-> RowIn(store, m)]
    BY <1>1, <1>3
  <2> QED
    BY <1>1, <1>2, <1>4, <2>1, <2>2, <2>3 DEF IsAsItWas
<1>9. IsWalked(copying)'
  <2>1. Reached(c) = {}
    BY <1>4, <1>5 DEF Reached
  <2>2. copying' = c
    BY <1>1
  <2> QED
    BY <2>1, <2>2 DEF IsWalked
<1> QED
  BY <1>1, <1>6, <1>7, <1>8, <1>9 DEF Going

\* The policy that the source inherits, as the copy looks at it.
LEMMA InheritedLevel ==
    ASSUME Sound, Going, copying # NoCopy
    PROVE  LET c == copying
           IN  /\ Inherited(c) \in Allow..Deny /\ c.rows[c.node].policy <= Inherited(c)
               /\ Lineage(c.asked, c.node) \cap overtaken = {} =>
                     EffectivePolicy(c.asked, c.node).ai_read <= Inherited(c)
<1> DEFINE c == copying
           known == DOMAIN c.rows
           old == c.asked
           Parent(n) == IF n \notin known THEN store.parent[n]
                        ELSE IF c.rows[n].parent \in known \cup store.nodes THEN c.rows[n].parent
                        ELSE NoNode
           v == [policy |-> [n \in Nodes |-> IF n \in known THEN c.rows[n].policy
                                             ELSE store.policy[n]],
                 parent |-> [n \in Nodes |-> Parent(n)]]
<1>1. IsRequest(c) /\ IsTree(c) /\ IsAsItWas(c)
  BY DEF Going
<1>2. Inherited(c) = EffectivePolicy(v, c.node).ai_read
  BY DEF Inherited, AsLoaded
<1>3. /\ store.nodes \subseteq Nodes /\ store.parent \in [Nodes -> Nodes \cup {NoNode}]
      /\ store.policy \in [Nodes -> Allow..Deny]
      /\ old.nodes \subseteq Nodes /\ old.parent \in [Nodes -> Nodes \cup {NoNode}]
      /\ old.policy \in [Nodes -> Allow..Deny] /\ UpClosed(old, old.nodes) /\ NoNode \notin Nodes
  <2>1. store \in StoreType /\ old \in StoreType /\ Consistent(old)
    BY <1>1 DEF Sound, IsRequest
  <2> QED
    BY <2>1, StoreFields, NodesUpClosed
<1>4. /\ known \subseteq Nodes /\ c.node \in known /\ c.node \in Nodes /\ c.node \in old.nodes
      /\ \A m \in known : /\ c.rows[m].parent \in Nodes \cup {NoNode}
                          /\ c.rows[m].policy \in Allow..Deny
  BY <1>1 DEF IsTree, IsRequest, CopyRows
<1> HIDE DEF c, known
<1>5. /\ v.parent \in [Nodes -> Nodes \cup {NoNode}] /\ v.policy \in [Nodes -> Allow..Deny]
      /\ v.policy[c.node] = c.rows[c.node].policy
  <2>1. \A n \in Nodes : Parent(n) \in Nodes \cup {NoNode}
    BY <1>3, <1>4
  <2>2. \A n \in Nodes : (IF n \in known THEN c.rows[n].policy ELSE store.policy[n]) \in Allow..Deny
    BY <1>3, <1>4
  <2> HIDE DEF Parent
  <2> QED
    BY <1>4, <2>1, <2>2
<1>6. ASSUME NEW m \in old.nodes, m \notin overtaken
      PROVE  /\ v.policy[m] = old.policy[m]
             /\ old.parent[m] = NoNode \/ old.parent[m] \notin overtaken
                   => v.parent[m] = old.parent[m]
  <2>0. m \in Nodes /\ old.parent[m] \in Nodes \cup {NoNode}
    BY <1>3, <1>6
  <2>1. m \in Nodes /\ SameRow(old, store, m) /\ old.parent[m] \in Nodes \cup {NoNode}
    <3>1. \A x \in Nodes \ overtaken : SameRow(old, store, x)
      BY <1>1 DEF IsAsItWas
    <3>2. m \in Nodes \ overtaken
      BY <1>6, <2>0
    <3> QED
      BY <2>0, <3>1, <3>2
  <2>2. m \in known => c.rows[m].policy = old.policy[m] /\ c.rows[m].parent = old.parent[m]
    <3>1. \A x \in known \ overtaken : c.rows[x] = RowIn(old, x)
      BY <1>1 DEF IsAsItWas, known
    <3>2. m \in known => c.rows[m] = RowIn(old, m)
      BY <1>6, <3>1
    <3> QED
      BY <3>2 DEF RowIn
  <2>3. v.policy[m] = old.policy[m]
    BY <2>1, <2>2 DEF SameRow
  <2>4. ASSUME old.parent[m] = NoNode \/ old.parent[m] \notin overtaken
        PROVE  Parent(m) = old.parent[m]
    <3>1. old.parent[m] # NoNode => old.parent[m] \in store.nodes
      <4>1. SUFFICES ASSUME old.parent[m] # NoNode PROVE old.parent[m] \in store.nodes
        OBVIOUS
      <4>2. old.parent[m] \in old.nodes /\ old.parent[m] \in Nodes
        BY <1>3, <1>6, <4>1 DEF UpClosed
      <4>3. SameRow(old, store, old.parent[m])
        BY <1>1, <2>4, <4>1, <4>2, Zenon DEF IsAsItWas
      <4> QED
        BY <4>2, <4>3 DEF SameRow
    <3> QED
      BY <2>1, <2>2, <3>1 DEF SameRow
  <2>5. v.parent[m] = Parent(m)
    BY <2>1
  <2> QED
    BY <2>3, <2>4, <2>5
<1> HIDE DEF v
<1>7. /\ EffectivePolicy(v, c.node).ai_read \in Allow..Deny
      /\ \A m \in Lineage(v, c.node) : v.policy[m] <= EffectivePolicy(v, c.node).ai_read
      /\ c.node \in Lineage(v, c.node)
  BY <1>4, <1>5, PolicyIsStrongest, LineageIsLeast
<1>8. ASSUME Lineage(old, c.node) \cap overtaken = {}
      PROVE  EffectivePolicy(old, c.node).ai_read <= EffectivePolicy(v, c.node).ai_read
  <2> DEFINE S == Lineage(old, c.node)
  <2>1. c.node \in S /\ UpClosed(old, S) /\ S \subseteq old.nodes
    BY <1>3, <1>4, LineageIsLeast
  <2>2. \A m \in S : v.parent[m] = old.parent[m] /\ v.policy[m] = old.policy[m]
    <3> SUFFICES ASSUME NEW m \in S
                 PROVE  v.parent[m] = old.parent[m] /\ v.policy[m] = old.policy[m]
      OBVIOUS
    <3>1. m \in old.nodes /\ m \notin overtaken
      BY <1>8, <2>1
    <3>2. CASE old.parent[m] = NoNode
      BY <1>6, <3>1, <3>2
    <3>3. CASE old.parent[m] # NoNode
      <4>1. old.parent[m] \in S
        BY <2>1, <3>3 DEF UpClosed
      <4> QED
        BY <1>6, <1>8, <3>1, <4>1
    <3> QED
      BY <3>2, <3>3
  <2>3. Lineage(v, c.node) = Lineage(old, c.node)
    <3> HIDE DEF S
    <3>1. S \subseteq Nodes
      BY <1>3, <2>1
    <3> QED
      BY <1>3, <1>5, <2>1, <2>2, <3>1, SameLineage
  <2>4. PICK k \in Lineage(old, c.node) : old.policy[k] = EffectivePolicy(old, c.node).ai_read
    BY <1>3, <1>4, PolicyIsStrongest
  <2>5. v.policy[k] = EffectivePolicy(old, c.node).ai_read
    BY <2>2, <2>4
  <2> QED
    BY <1>7, <2>3, <2>4, <2>5
<1>9. c.rows[c.node].policy <= EffectivePolicy(v, c.node).ai_read
  BY <1>5, <1>7
<1> QED
  BY <1>2, <1>7, <1>8, <1>9 DEF c

LEMMA HeadAndTail ==
    ASSUME NEW S, NEW q \in Seq(S), q # <<>>
    PROVE  Head(q) \in S /\ Tail(q) \in Seq(S) /\ Range(q) = {Head(q)} \cup Range(Tail(q))
<1>1. /\ Len(q) \in Nat /\ Len(q) >= 1 /\ DOMAIN q = 1..Len(q) /\ Head(q) = q[1]
      /\ Tail(q) \in Seq(S) /\ Len(Tail(q)) = Len(q) - 1 /\ DOMAIN Tail(q) = 1..(Len(q) - 1)
      /\ \A i \in 1..(Len(q) - 1) : Tail(q)[i] = q[i + 1]
  OBVIOUS
<1>2. Head(q) \in S
  BY <1>1
<1>3. ASSUME NEW x \in Range(q) PROVE x \in {Head(q)} \cup Range(Tail(q))
  <2>1. PICK i \in 1..Len(q) : x = q[i]
    BY <1>1 DEF Range
  <2>2. CASE i = 1
    BY <1>1, <2>1, <2>2
  <2>3. CASE i # 1
    <3>1. i - 1 \in 1..(Len(q) - 1) /\ (i - 1) + 1 = i
      BY <1>1, <2>3
    <3>2. Tail(q)[i - 1] = x
      BY <1>1, <2>1, <3>1
    <3> QED
      BY <1>1, <3>1, <3>2 DEF Range
  <2> QED
    BY <2>2, <2>3
<1>4. ASSUME NEW x \in Range(Tail(q)) PROVE x \in Range(q)
  <2>1. PICK i \in 1..(Len(q) - 1) : x = Tail(q)[i]
    BY <1>1 DEF Range
  <2>2. i + 1 \in 1..Len(q) /\ x = q[i + 1]
    BY <1>1, <2>1
  <2> QED
    BY <1>1, <2>2 DEF Range
<1>5. Head(q) \in Range(q)
  BY <1>1 DEF Range
<1> QED
  BY <1>1, <1>2, <1>3, <1>4, <1>5

LEMMA RangeOfBoth ==
    ASSUME NEW S, NEW p \in Seq(S), NEW q \in Seq(S)
    PROVE  p \o q \in Seq(S) /\ Range(p \o q) = Range(p) \cup Range(q)
<1>1. /\ Len(p) \in Nat /\ Len(q) \in Nat /\ Len(p \o q) = Len(p) + Len(q)
      /\ DOMAIN p = 1..Len(p) /\ DOMAIN q = 1..Len(q) /\ DOMAIN (p \o q) = 1..(Len(p) + Len(q))
      /\ \A i \in 1..Len(p) : (p \o q)[i] = p[i]
      /\ \A i \in 1..Len(q) : (p \o q)[Len(p) + i] = q[i]
      /\ p \o q \in Seq(S)
  OBVIOUS
<1>2. ASSUME NEW x \in Range(p \o q) PROVE x \in Range(p) \cup Range(q)
  <2>1. PICK i \in 1..(Len(p) + Len(q)) : x = (p \o q)[i]
    BY <1>1 DEF Range
  <2>2. CASE i \in 1..Len(p)
    BY <1>1, <2>1, <2>2 DEF Range
  <2>3. CASE i \notin 1..Len(p)
    <3>1. i - Len(p) \in 1..Len(q) /\ Len(p) + (i - Len(p)) = i
      BY <1>1, <2>3
    <3>2. x = q[i - Len(p)]
      BY <1>1, <2>1, <3>1
    <3> QED
      BY <1>1, <3>1, <3>2 DEF Range
  <2> QED
    BY <2>2, <2>3
<1>3. ASSUME NEW x \in Range(p) PROVE x \in Range(p \o q)
  <2>1. PICK i \in 1..Len(p) : x = p[i]
    BY <1>1 DEF Range
  <2>2. i \in 1..(Len(p) + Len(q)) /\ x = (p \o q)[i]
    BY <1>1, <2>1
  <2> QED
    BY <1>1, <2>2 DEF Range
<1>4. ASSUME NEW x \in Range(q) PROVE x \in Range(p \o q)
  <2>1. PICK i \in 1..Len(q) : x = q[i]
    BY <1>1 DEF Range
  <2>2. Len(p) + i \in 1..(Len(p) + Len(q)) /\ x = (p \o q)[Len(p) + i]
    BY <1>1, <2>1
  <2> QED
    BY <1>1, <2>2 DEF Range
<1> QED
  BY <1>1, <1>2, <1>3, <1>4

LEMMA WalkGoes ==
    ASSUME Sound, Going, WalkCopy
    PROVE  Going'
<1> DEFINE c == copying
           d == copying'
           m == Head(c.queue)
           known == DOMAIN c.rows
           found == IF c.recursive THEN Children(store, m) ELSE {}
           more == InOrder(found, [k \in Nodes |-> k])
<1>1. /\ copying # NoCopy /\ c.queue # <<>> /\ ~Withheld(c, m) /\ found \cap known = {}
      /\ d = [c EXCEPT !.queue = Tail(@) \o more,
                       !.rows = [k \in known \cup found |-> IF k \in known THEN c.rows[k]
                                                            ELSE Loaded(k)]]
      /\ UNCHANGED <<store, issued, overtaken>>
  BY DEF WalkCopy
<1>2. IsRequest(c) /\ IsTree(c) /\ IsAsItWas(c) /\ IsWalked(c)
  BY <1>1 DEF Going
<1>3. /\ store \in StoreType /\ Consistent(store) /\ store.nodes \subseteq Nodes
  BY StoreFields DEF Sound
<1>4. /\ known \subseteq Nodes /\ c.node \in known /\ m \in known /\ Tail(c.queue) \in Seq(known)
      /\ Range(c.queue) = {m} \cup Range(Tail(c.queue))
  <2>1. known \subseteq Nodes /\ c.node \in known /\ c.queue \in Seq(known) /\ c.queue # <<>>
    BY <1>1, <1>2 DEF IsTree
  <2> HIDE DEF known, c
  <2> QED
    BY <2>1, HeadAndTail
<1>5. found \subseteq store.nodes /\ found \in SUBSET Nodes
  BY <1>3 DEF Children
<1>6. more \in Seq(found) /\ Range(more) = found
  <2> DEFINE key == [k \in Nodes |-> k]
  <2>1. key \in [Nodes -> Nat]
    BY DEF Nodes
  <2> HIDE DEF key, found
  <2>2. InOrder(found, key) \in Seq(found) /\ Range(InOrder(found, key)) = found
    BY <1>5, <2>1, InOrderAll
  <2> QED
    BY <2>2 DEF key
<1>7. \A k \in found : store.parent[k] = m /\ c.recursive
  BY DEF Children
<1>8. /\ d.node = c.node /\ d.to = c.to /\ d.under = c.under /\ d.recursive = c.recursive
      /\ d.by = c.by /\ d.asked = c.asked
      /\ DOMAIN d.rows = known \cup found
      /\ \A k \in known : d.rows[k] = c.rows[k]
      /\ \A k \in found : d.rows[k] = RowIn(store, k)
      /\ d.queue = Tail(c.queue) \o more
  <2> DEFINE queue == Tail(c.queue) \o more
             rows == [k \in known \cup found |-> IF k \in known THEN c.rows[k] ELSE Loaded(k)]
  <2>1. /\ DOMAIN rows = known \cup found /\ \A k \in known : rows[k] = c.rows[k]
        /\ \A k \in found : k \notin known => rows[k] = RowIn(store, k)
    BY LoadedIsRow
  <2>2. DOMAIN c = {"node", "to", "under", "recursive", "by", "asked", "rows", "queue"}
    BY <1>2 DEF IsRequest
  <2>3. d = [c EXCEPT !.queue = queue, !.rows = rows]
    BY <1>1
  <2>4. \A k \in found : k \notin known
    BY <1>1
  <2> HIDE DEF queue, rows, known, found, c, d
  <2>5. /\ d.node = c.node /\ d.to = c.to /\ d.under = c.under /\ d.recursive = c.recursive
        /\ d.by = c.by /\ d.asked = c.asked /\ d.rows = rows /\ d.queue = queue
    BY <2>2, <2>3
  <2> QED
    BY <2>1, <2>4, <2>5 DEF queue
<1>9. /\ d.queue \in Seq(known \cup found)
      /\ Range(d.queue) = Range(Tail(c.queue)) \cup found
  <2> DEFINE q == Tail(c.queue)
  <2> HIDE DEF q, more, known, found
  <2>1. q \in Seq(known \cup found) /\ more \in Seq(known \cup found)
    <3>1. q \in Seq(known) /\ more \in Seq(found)
      BY <1>4, <1>6 DEF q
    <3> QED
      BY <3>1
  <2>2. q \o more \in Seq(known \cup found) /\ Range(q \o more) = Range(q) \cup Range(more)
    BY <2>1, RangeOfBoth
  <2> QED
    BY <1>6, <1>8, <2>2 DEF q
<1>10. Reached(d) \subseteq Reached(c) \cup {m}
  BY <1>4, <1>8, <1>9 DEF Reached
<1>11. IsRequest(d)
  <2>1. DOMAIN d = DOMAIN c
    BY <1>1
  <2> QED
    BY <1>2, <1>8, <2>1 DEF IsRequest
<1> HIDE DEF found, more, m
<1>12. IsTree(d)
  <2>1. ASSUME NEW x \in known \cup found PROVE d.rows[x] \in CopyRows
    <3>1. x \in known => c.rows[x] \in CopyRows
      BY <1>2 DEF IsTree
    <3>2. x \in found => RowIn(store, x) \in CopyRows
      BY <1>3, <1>5, RowType
    <3> QED
      BY <1>8, <2>1, <3>1, <3>2
  <2>2. ASSUME NEW x \in (known \cup found) \ {c.node}
        PROVE  /\ x \in known => d.rows[x].parent = c.rows[x].parent /\ d.rows[x].parent \in known
               /\ x \in found => d.rows[x].parent = m
    <3>1. x \in known => c.rows[x].parent \in known
      BY <1>2, <2>2 DEF IsTree
    <3>2. x \in found => RowIn(store, x).parent = m
      BY <1>7 DEF RowIn
    <3> QED
      BY <1>8, <2>2, <3>1, <3>2
  <2>3. ASSUME NEW T \in SUBSET ((known \cup found) \ {c.node}), T # {}
        PROVE  \E x \in T : d.rows[x].parent \notin T
    <3>1. CASE T \cap known # {}
      <4> DEFINE K == T \cap known
      <4>1. K \in SUBSET (known \ {c.node}) /\ K # {}
        BY <2>3, <3>1
      <4>2. PICK x \in K : c.rows[x].parent \notin K
        <5> HIDE DEF K
        <5> QED
          BY <1>2, <4>1 DEF IsTree
      <4>3. x \in T /\ x \in known /\ x \in (known \cup found) \ {c.node}
        BY <4>2, <2>3
      <4>4. d.rows[x].parent = c.rows[x].parent /\ d.rows[x].parent \in known
        BY <2>2, <4>3
      <4> QED
        BY <4>2, <4>3, <4>4
    <3>2. CASE T \cap known = {}
      <4>1. PICK x \in T : x \in found
        BY <2>3, <3>2
      <4>2. d.rows[x].parent = m
        BY <2>2, <2>3, <4>1
      <4> QED
        BY <1>4, <3>2, <4>1, <4>2
    <3> QED
      BY <3>1, <3>2
  <2>4. ~d.recursive => DOMAIN d.rows = {d.node}
    <3>1. ~c.recursive => found = {} /\ known = {c.node}
      BY <1>2 DEF IsTree, found
    <3> QED
      BY <1>8, <3>1
  <2>5. DOMAIN d.rows \subseteq Nodes /\ d.node \in DOMAIN d.rows
    BY <1>4, <1>5, <1>8
  <2>6. \A x \in DOMAIN d.rows \ {d.node} : d.rows[x].parent \in DOMAIN d.rows
    BY <1>4, <1>8, <2>2
  <2>7. \A x \in DOMAIN d.rows : d.rows[x] \in CopyRows
    BY <1>8, <2>1
  <2>8. \A T \in SUBSET (DOMAIN d.rows \ {d.node}) :
            T # {} => \E x \in T : d.rows[x].parent \notin T
    BY <1>8, <2>3
  <2>9. d.queue \in Seq(DOMAIN d.rows)
    BY <1>8, <1>9
  <2> HIDE DEF d
  <2> QED
    BY <2>4, <2>5, <2>6, <2>7, <2>8, <2>9 DEF IsTree
<1>13. IsAsItWas(copying)'
  <2>1. ASSUME NEW x \in (known \cup found) \ overtaken
        PROVE  x \in c.asked.nodes /\ d.rows[x] = RowIn(c.asked, x)
    <3>1. CASE x \in known
      BY <1>2, <1>8, <2>1, <3>1 DEF IsAsItWas
    <3>2. CASE x \in found
      <4>1. SameRow(c.asked, store, x) /\ x \in store.nodes
        BY <1>2, <1>5, <2>1, <3>2 DEF IsAsItWas
      <4>2. RowIn(c.asked, x) = RowIn(store, x)
        BY <4>1, SameRows
      <4>3. x \in c.asked.nodes
        BY <4>1 DEF SameRow
      <4> QED
        BY <1>8, <3>2, <4>2, <4>3
    <3> QED
      BY <2>1, <3>1, <3>2
  <2>2. \A x \in DOMAIN d.rows \ overtaken : x \in d.asked.nodes /\ d.rows[x] = RowIn(d.asked, x)
    BY <1>8, <2>1
  <2>3. /\ d.asked.nodes \subseteq 1..issued
        /\ d.under # NoNode => store.vault[d.under] = d.to
        /\ \A x \in Nodes \ overtaken : SameRow(d.asked, store, x)
    BY <1>2, <1>8 DEF IsAsItWas
  <2>4. store' = store /\ issued' = issued /\ overtaken' = overtaken
    BY <1>1
  <2> HIDE DEF d
  <2>5. copying' = d
    BY DEF d
  <2> QED
    BY <2>2, <2>3, <2>4, <2>5 DEF IsAsItWas
<1>14. IsWalked(copying)'
  <2>1. ASSUME c.recursive, NEW x \in c.asked.nodes \ overtaken, c.asked.parent[x] \in Reached(d)
        PROVE  x \in known \cup found
    <3>1. CASE c.asked.parent[x] \in Reached(c)
      BY <1>2, <2>1, <3>1 DEF IsWalked
    <3>2. CASE c.asked.parent[x] = m
      <4>1. x \in Nodes
        <5>1. c.asked \in StoreType
          BY <1>2 DEF IsRequest
        <5> QED
          BY <2>1, <5>1, StoreFields
      <4>2. SameRow(c.asked, store, x)
        BY <1>2, <2>1, <4>1 DEF IsAsItWas
      <4>3. x \in store.nodes /\ store.parent[x] = m
        BY <2>1, <3>2, <4>2 DEF SameRow
      <4> QED
        BY <2>1, <4>3 DEF found, Children
    <3> QED
      BY <1>10, <2>1, <3>1, <3>2
  <2>2. c.by.ai => c.rows[m].policy = Allow /\ (m = c.node => Inherited(c) = Allow)
    <3>1. c.by.ai => (IF m = c.node THEN Inherited(c) ELSE c.rows[m].policy) = Allow
      BY <1>1 DEF Withheld, m
    <3>2. Inherited(c) \in Allow..Deny /\ c.rows[c.node].policy <= Inherited(c)
      BY <1>1, InheritedLevel
    <3>3. c.rows[c.node].policy \in Allow..Deny
      BY <1>2 DEF IsTree, CopyRows
    <3> QED
      BY <3>1, <3>2, <3>3 DEF Allow, Deny
  <2>3. ASSUME c.by.ai, NEW x \in Reached(d) PROVE d.rows[x].policy = Allow
    <3>1. x \in known /\ (x \in Reached(c) \/ x = m)
      BY <1>4, <1>10, <2>3 DEF Reached
    <3>2. x \in Reached(c) => c.rows[x].policy = Allow
      BY <1>2, <2>3 DEF IsWalked
    <3> QED
      BY <1>8, <2>2, <2>3, <3>1, <3>2
  <2>4. ASSUME c.by.ai, c.node \in Reached(d), Lineage(c.asked, c.node) \cap overtaken = {}
        PROVE  EffectivePolicy(c.asked, c.node).ai_read = Allow
    <3>1. CASE c.node \in Reached(c)
      BY <1>2, <2>4, <3>1 DEF IsWalked
    <3>2. CASE c.node = m
      <4>1. EffectivePolicy(c.asked, c.node).ai_read <= Allow
        BY <1>1, <2>2, <2>4, <3>2, InheritedLevel
      <4>2. EffectivePolicy(c.asked, c.node).ai_read \in Allow..Deny
        <5>1. c.asked \in StoreType /\ c.node \in c.asked.nodes
          BY <1>2 DEF IsRequest
        <5>2. /\ c.asked.parent \in [Nodes -> Nodes \cup {NoNode}] /\ c.node \in Nodes
              /\ c.asked.policy \in [Nodes -> Allow..Deny]
          BY <5>1, StoreFields
        <5> QED
          BY <5>2, PolicyIsStrongest
      <4> QED
        BY <4>1, <4>2 DEF Allow, Deny
    <3> QED
      BY <1>10, <2>4, <3>1, <3>2
  <2>5. /\ d.recursive => \A x \in d.asked.nodes \ overtaken :
              d.asked.parent[x] \in Reached(d) => x \in DOMAIN d.rows
        /\ d.by.ai => \A x \in Reached(d) : d.rows[x].policy = Allow
        /\ d.by.ai /\ d.node \in Reached(d) /\ Lineage(d.asked, d.node) \cap overtaken = {} =>
              EffectivePolicy(d.asked, d.node).ai_read = Allow
    BY <1>8, <2>1, <2>3, <2>4
  <2>6. overtaken' = overtaken
    BY <1>1
  <2> HIDE DEF d
  <2>7. copying' = d
    BY DEF d
  <2> QED
    BY <2>5, <2>6, <2>7 DEF IsWalked
<1>15. Going' = (copying' # NoCopy => /\ IsRequest(copying') /\ IsTree(copying')
                                      /\ IsAsItWas(copying)' /\ IsWalked(copying)')
  BY DEF Going
<1> QED
  BY <1>11, <1>12, <1>13, <1>14, <1>15

-----------------------------------------------------------------------------
\* The policy that the copy of m is given.
Given(c, m) == UnderParent(c, IF m = c.node THEN StampedRoot(c) ELSE c.rows[m].policy)

\* What the commit of the copy c makes of the store, field by field.
Copied(c, copy) ==
    /\ copy \in [DOMAIN c.rows -> (issued + 1)..issued'] /\ IsInjective(copy)
    /\ issued' \in issued..N
    /\ store' \in StoreType
    /\ store'.nodes = store.nodes \cup Range(copy)
    /\ \A m \in DOMAIN c.rows :
          /\ store'.vault[copy[m]] = c.to
          /\ store'.parent[copy[m]] = IF m = c.node THEN c.under ELSE copy[c.rows[m].parent]
          /\ store'.policy[copy[m]] = Given(c, m)
          /\ store'.lock[copy[m]] =
                Max2(c.rows[m].lock, IF Given(c, m) # Allow THEN AiLocked ELSE Open)
          /\ store'.history[copy[m]] =
                << [number |-> 1, text |-> Rewrite(c.rows[m].text, copy)] >>
          /\ store'.current[copy[m]] = 1
    /\ \A x \in Nodes \ Range(copy) :
          /\ store'.vault[x] = store.vault[x] /\ store'.parent[x] = store.parent[x]
          /\ store'.policy[x] = store.policy[x] /\ store'.lock[x] = store.lock[x]
          /\ store'.history[x] = store.history[x] /\ store'.current[x] = store.current[x]

\* The copy under way, as its steps find it.
LEMMA CopyFacts ==
    ASSUME Sound, Going, copying # NoCopy
    PROVE  LET c == copying
           IN  /\ IsRequest(c) /\ IsTree(c) /\ IsAsItWas(c) /\ IsWalked(c)
               /\ c.node \in DOMAIN c.rows /\ DOMAIN c.rows \subseteq Nodes
               /\ IsFiniteSet(DOMAIN c.rows)
               /\ c.node \in Nodes /\ c.node \in c.asked.nodes
               /\ \A m \in DOMAIN c.rows :
                     /\ c.rows[m].policy \in Allow..Deny /\ c.rows[m].lock \in Open..HumanLocked
                     /\ c.rows[m].text \in SUBSET (Nodes \cup {Image})
                     /\ m # c.node => c.rows[m].parent \in DOMAIN c.rows
               /\ c.under \in Nodes \cup {NoNode} /\ NoNode \notin Nodes
               /\ c.asked.nodes \subseteq Nodes /\ UpClosed(c.asked, c.asked.nodes)
               /\ c.asked.parent \in [Nodes -> Nodes \cup {NoNode}]
               /\ c.asked.policy \in [Nodes -> Allow..Deny]
<1> DEFINE c == copying
<1>1. IsRequest(c) /\ IsTree(c) /\ IsAsItWas(c) /\ IsWalked(c)
  BY DEF Going
<1>2. c.asked \in StoreType /\ Consistent(c.asked)
  BY <1>1 DEF IsRequest
<1>3. /\ c.asked.nodes \subseteq Nodes /\ UpClosed(c.asked, c.asked.nodes) /\ NoNode \notin Nodes
      /\ c.asked.parent \in [Nodes -> Nodes \cup {NoNode}]
      /\ c.asked.policy \in [Nodes -> Allow..Deny]
  BY <1>2, StoreFields, NodesUpClosed
<1>4. c.node \in DOMAIN c.rows /\ DOMAIN c.rows \subseteq Nodes
  BY <1>1 DEF IsTree
<1>5. IsFiniteSet(DOMAIN c.rows)
  <2>1. IsFiniteSet(Nodes)
    BY SizeAssumption, FS_Interval DEF Nodes
  <2> QED
    BY <1>4, <2>1, FS_Subset
<1>6. ASSUME NEW m \in DOMAIN c.rows
      PROVE  /\ c.rows[m].policy \in Allow..Deny /\ c.rows[m].lock \in Open..HumanLocked
             /\ c.rows[m].text \in SUBSET (Nodes \cup {Image})
             /\ m # c.node => c.rows[m].parent \in DOMAIN c.rows
  <2>1. c.rows[m] \in CopyRows /\ (m # c.node => c.rows[m].parent \in DOMAIN c.rows)
    BY <1>1 DEF IsTree
  <2> QED
    BY <2>1 DEF CopyRows
<1>7. c.node \in c.asked.nodes /\ c.under \in Nodes \cup {NoNode}
  BY <1>1, <1>3 DEF IsRequest
<1> HIDE DEF c
<1> QED
  BY <1>1, <1>3, <1>4, <1>5, <1>6, <1>7 DEF c

LEMMA GivenLevel ==
    ASSUME Sound, Going, copying # NoCopy, copying.queue = <<>>, NEW m \in DOMAIN copying.rows
    PROVE  LET c == copying
           IN  /\ Given(c, m) \in Allow..Deny /\ c.rows[m].policy <= Given(c, m)
               /\ m = c.node /\ Lineage(c.asked, c.node) \cap overtaken = {} =>
                     EffectivePolicy(c.asked, c.node).ai_read <= Given(c, m)
               /\ c.under # NoNode /\ EffectivePolicy(c.asked, c.under).ai_read = ExplicitOnly =>
                     ExplicitOnly <= Given(c, m)
<1> DEFINE c == copying
           own == IF m = c.node THEN StampedRoot(c) ELSE c.rows[m].policy
<1>1. /\ c.node \in DOMAIN c.rows /\ IsWalked(c)
      /\ c.rows[c.node].policy \in Allow..Deny /\ c.rows[m].policy \in Allow..Deny
  BY CopyFacts
<1>2. /\ Inherited(c) \in Allow..Deny /\ c.rows[c.node].policy <= Inherited(c)
      /\ Lineage(c.asked, c.node) \cap overtaken = {} =>
            EffectivePolicy(c.asked, c.node).ai_read <= Inherited(c)
  BY InheritedLevel
<1>3. own \in Allow..Deny /\ c.rows[m].policy <= own
  BY <1>1, <1>2 DEF StampedRoot, Allow, Deny
<1>4. ASSUME m = c.node, Lineage(c.asked, c.node) \cap overtaken = {}
      PROVE  EffectivePolicy(c.asked, c.node).ai_read <= own
  <2>1. CASE c.by.ai
    <3>1. Range(c.queue) = {}
      BY DEF Range
    <3>2. EffectivePolicy(c.asked, c.node).ai_read = Allow
      BY <1>1, <1>4, <2>1, <3>1 DEF IsWalked, Reached
    <3> QED
      BY <1>3, <3>2 DEF Allow, Deny
  <2>2. CASE ~c.by.ai
    BY <1>2, <1>4, <2>2 DEF StampedRoot
  <2> QED
    BY <2>1, <2>2
<1>5. Given(c, m) = UnderParent(c, own)
  BY DEF Given
<1> HIDE DEF own, c
<1>6. /\ UnderParent(c, own) \in Allow..Deny /\ own <= UnderParent(c, own)
      /\ c.under # NoNode /\ EffectivePolicy(c.asked, c.under).ai_read = ExplicitOnly =>
            ExplicitOnly <= UnderParent(c, own)
  BY <1>3 DEF UnderParent, Max2, Allow, ExplicitOnly, Deny
<1>7. ASSUME m = c.node, Lineage(c.asked, c.node) \cap overtaken = {}
      PROVE  EffectivePolicy(c.asked, c.node).ai_read <= UnderParent(c, own)
  <2>1. EffectivePolicy(c.asked, c.node).ai_read \in Allow..Deny
    BY CopyFacts, PolicyIsStrongest DEF c
  <2> QED
    BY <1>3, <1>4, <1>6, <1>7, <2>1 DEF Allow, Deny
<1>8. c.rows[m].policy <= UnderParent(c, own)
  BY <1>1, <1>3, <1>6 DEF Allow, Deny
<1> QED
  BY <1>5, <1>6, <1>7, <1>8 DEF c

LEMMA CopyStep ==
    ASSUME Sound, Going, CommitCopy
    PROVE  \E copy : /\ Copied(copying, copy)
                     /\ last' = [kind |-> "copy", copy |-> copy, request |-> copying,
                                 overtaken |-> overtaken]
<1> DEFINE c == copying
           S == DOMAIN c.rows
           copy == Fresh(S)
           made == [m \in S |-> CopyOf(c, m, copy)]
<1>1. /\ copying # NoCopy /\ c.queue = <<>>
      /\ issued' = issued + Cardinality(S) /\ issued + Cardinality(S) <= N
      /\ store' = With(copy, made)
      /\ last' = [kind |-> "copy", copy |-> copy, request |-> copying, overtaken |-> overtaken]
  BY DEF CommitCopy
<1>2. /\ c.node \in S /\ IsFiniteSet(S) /\ c.under \in Nodes \cup {NoNode} /\ c.to \in Vaults
      /\ \A m \in S : /\ c.rows[m].lock \in Open..HumanLocked
                      /\ c.rows[m].text \in SUBSET (Nodes \cup {Image})
                      /\ m # c.node => c.rows[m].parent \in S
  BY <1>1, CopyFacts DEF IsRequest
<1>3. issued \in Nat /\ N \in Nat /\ issued <= N /\ store \in StoreType
  BY SizeAssumption DEF Sound
<1>4. Cardinality(S) \in Nat
  BY <1>2, FS_CardinalityType
<1>5. copy \in [S -> (issued + 1)..issued'] /\ IsInjective(copy)
  BY <1>1, <1>2, <1>3, FreshIds
<1>6. \A m \in S : Given(c, m) \in Allow..Deny
  BY <1>1, GivenLevel
<1> HIDE DEF copy, S, c
<1>7. DOMAIN copy = S /\ Range(copy) \subseteq Nodes /\ \A m \in S : copy[m] \in Nodes
  BY <1>1, <1>3, <1>4, <1>5 DEF Range, Nodes
<1>8. ASSUME NEW m \in S
      PROVE  CopyOf(c, m, copy) =
               [vault |-> c.to,
                parent |-> IF m = c.node THEN c.under ELSE copy[c.rows[m].parent],
                policy |-> Given(c, m),
                lock |-> Max2(c.rows[m].lock, IF Given(c, m) # Allow THEN AiLocked ELSE Open),
                history |-> << [number |-> 1, text |-> Rewrite(c.rows[m].text, copy)] >>,
                current |-> 1]
  BY DEF CopyOf, Given
<1>9. ASSUME NEW m \in S PROVE CopyOf(c, m, copy) \in Rows
  <2> DEFINE text == Rewrite(c.rows[m].text, copy)
             policy == Given(c, m)
  <2>1. policy \in Allow..Deny
    BY <1>6
  <2>2. text \in SUBSET (Nodes \cup {Image})
    BY <1>2, <1>7 DEF Rewrite
  <2> HIDE DEF text, policy
  <2>3. <<[number |-> 1, text |-> text]>> \in Seq(Versions)
    BY <2>2 DEF Versions
  <2>4. (IF m = c.node THEN c.under ELSE copy[c.rows[m].parent]) \in Nodes \cup {NoNode}
    BY <1>2, <1>7
  <2>5. Max2(c.rows[m].lock, IF policy # Allow THEN AiLocked ELSE Open) \in Open..HumanLocked
    BY <1>2 DEF Max2, Open, AiLocked, HumanLocked
  <2>6. CopyOf(c, m, copy) =
          [vault |-> c.to, parent |-> IF m = c.node THEN c.under ELSE copy[c.rows[m].parent],
           policy |-> policy, lock |-> Max2(c.rows[m].lock, IF policy # Allow THEN AiLocked ELSE Open),
           history |-> <<[number |-> 1, text |-> text]>>, current |-> 1]
    BY <1>8 DEF text, policy
  <2> QED
    BY <1>2, <2>1, <2>3, <2>4, <2>5, <2>6 DEF Rows
<1>10. \A m \in DOMAIN copy : made[m] = CopyOf(c, m, copy) /\ made[m] \in Rows
  BY <1>7, <1>9
<1> HIDE DEF made
<1>11. store' \in StoreType
  BY <1>1, <1>3, <1>5, <1>7, <1>10, WithType
<1>12. Copied(c, copy)
  <2>1. /\ store'.nodes = store.nodes \cup Range(copy)
        /\ \A m \in S : /\ store'.vault[copy[m]] = made[m].vault
                        /\ store'.parent[copy[m]] = made[m].parent
                        /\ store'.policy[copy[m]] = made[m].policy
                        /\ store'.lock[copy[m]] = made[m].lock
                        /\ store'.history[copy[m]] = made[m].history
                        /\ store'.current[copy[m]] = made[m].current
        /\ \A x \in Nodes \ Range(copy) :
              /\ store'.vault[x] = store.vault[x] /\ store'.parent[x] = store.parent[x]
              /\ store'.policy[x] = store.policy[x] /\ store'.lock[x] = store.lock[x]
              /\ store'.history[x] = store.history[x] /\ store'.current[x] = store.current[x]
    BY <1>1, <1>5, <1>7, WithRows
  <2>2. issued' \in issued..N
    BY <1>1, <1>3, <1>4
  <2>3. ASSUME NEW m \in S
        PROVE  /\ made[m].vault = c.to
               /\ made[m].parent = IF m = c.node THEN c.under ELSE copy[c.rows[m].parent]
               /\ made[m].policy = Given(c, m)
               /\ made[m].lock = Max2(c.rows[m].lock, IF Given(c, m) # Allow THEN AiLocked
                                                       ELSE Open)
               /\ made[m].history =
                     << [number |-> 1, text |-> Rewrite(c.rows[m].text, copy)] >>
               /\ made[m].current = 1
    BY <1>7, <1>8, <1>10
  <2>4. \A m \in S : /\ store'.vault[copy[m]] = c.to
                     /\ store'.parent[copy[m]] = IF m = c.node THEN c.under
                                                 ELSE copy[c.rows[m].parent]
                     /\ store'.policy[copy[m]] = Given(c, m)
                     /\ store'.lock[copy[m]] = Max2(c.rows[m].lock,
                            IF Given(c, m) # Allow THEN AiLocked ELSE Open)
                     /\ store'.history[copy[m]] =
                           << [number |-> 1, text |-> Rewrite(c.rows[m].text, copy)] >>
                     /\ store'.current[copy[m]] = 1
    BY <2>1, <2>3
  <2> QED
    BY <1>5, <1>11, <2>1, <2>2, <2>4 DEF Copied, S
<1> QED
  BY <1>1, <1>12 DEF c

LEMMA NewAndOld ==
    ASSUME Sound, NEW c, NEW copy, Copied(c, copy)
    PROVE  /\ DOMAIN copy = DOMAIN c.rows /\ \A m \in DOMAIN c.rows : copy[m] \in Range(copy)
           /\ \A m \in DOMAIN c.rows : copy[m] \in (issued + 1)..N
           /\ Range(copy) \subseteq Nodes \ store.nodes
           /\ store.nodes \subseteq Nodes \ Range(copy)
           /\ \A x \in store'.nodes : x \in store.nodes \/ \E m \in DOMAIN c.rows : x = copy[m]
<1> DEFINE S == DOMAIN c.rows
<1>1. /\ copy \in [S -> (issued + 1)..issued'] /\ issued' \in issued..N
      /\ store'.nodes = store.nodes \cup Range(copy)
  BY DEF Copied
<1>2. issued \in Nat /\ N \in Nat /\ store.nodes \subseteq 1..issued /\ issued <= N
  BY SizeAssumption DEF Sound
<1> HIDE DEF S
<1>3. /\ DOMAIN copy = S /\ \A m \in S : copy[m] \in Range(copy) /\ copy[m] \in (issued + 1)..N
      /\ Range(copy) \subseteq Nodes \ store.nodes
      /\ store.nodes \subseteq Nodes \ Range(copy)
      /\ \A x \in store'.nodes : x \in store.nodes \/ \E m \in S : x = copy[m]
  BY <1>1, <1>2 DEF Range, Nodes
<1> QED
  BY <1>3 DEF S

LEMMA CopyKeepsSound ==
    ASSUME Sound, Going, copying # NoCopy, copying.queue = <<>>,
           copying.under \in store.nodes \cup {NoNode},
           NEW copy, Copied(copying, copy)
    PROVE  Sound'
<1> DEFINE c == copying
           S == DOMAIN c.rows
<1>0. /\ IsAsItWas(c) /\ c.node \in S
      /\ \A m \in S : /\ c.rows[m].lock \in Open..HumanLocked
                      /\ m # c.node => c.rows[m].parent \in S
  BY CopyFacts
<1>1. /\ DOMAIN copy = S /\ \A m \in S : copy[m] \in Range(copy)
      /\ Range(copy) \subseteq Nodes \ store.nodes
      /\ store.nodes \subseteq Nodes \ Range(copy)
      /\ \A x \in store'.nodes : x \in store.nodes \/ \E m \in S : x = copy[m]
  BY NewAndOld
<1>2. /\ store' \in StoreType /\ store'.nodes = store.nodes \cup Range(copy)
      /\ issued' \in issued..N /\ copy \in [S -> (issued + 1)..issued']
  BY DEF Copied
<1>3. /\ store \in StoreType /\ Consistent(store) /\ issued \in 0..N
      /\ store.nodes \subseteq 1..issued
  BY DEF Sound
<1>4. issued' \in 0..N /\ store'.nodes \subseteq 1..issued'
  <2> HIDE DEF S
  <2> QED
    BY <1>2, <1>3, SizeAssumption DEF Range
<1>5. /\ \A m \in S :
            /\ store'.vault[copy[m]] = c.to
            /\ store'.parent[copy[m]] = IF m = c.node THEN c.under ELSE copy[c.rows[m].parent]
            /\ store'.policy[copy[m]] = Given(c, m)
            /\ store'.lock[copy[m]] =
                  Max2(c.rows[m].lock, IF Given(c, m) # Allow THEN AiLocked ELSE Open)
            /\ store'.history[copy[m]] =
                  << [number |-> 1, text |-> Rewrite(c.rows[m].text, copy)] >>
            /\ store'.current[copy[m]] = 1
      /\ \A x \in Nodes \ Range(copy) :
            /\ store'.vault[x] = store.vault[x] /\ store'.parent[x] = store.parent[x]
            /\ store'.policy[x] = store.policy[x] /\ store'.lock[x] = store.lock[x]
            /\ store'.history[x] = store.history[x] /\ store'.current[x] = store.current[x]
  BY DEF Copied
<1>6. c.under # NoNode => store'.vault[c.under] = c.to /\ c.under \in store'.nodes
  <2>1. c.under # NoNode => c.under \in store.nodes /\ store.vault[c.under] = c.to
    BY <1>0 DEF IsAsItWas
  <2> QED
    BY <1>1, <1>2, <1>5, <2>1
<1> HIDE DEF S, c
<1>7. Consistent(store')
  <2>1. SUFFICES ASSUME NEW x \in store'.nodes
                 PROVE  /\ store'.parent[x] # NoNode =>
                              /\ store'.parent[x] \in store'.nodes
                              /\ store'.vault[store'.parent[x]] = store'.vault[x]
                        /\ store'.policy[x] # Allow => store'.lock[x] # Open
                        /\ \E i \in DOMAIN store'.history[x] :
                              /\ store'.history[x][i].number = store'.current[x]
                              /\ \A k \in DOMAIN store'.history[x] :
                                    store'.history[x][k].number <= store'.current[x]
    BY DEF Consistent
  <2>2. CASE x \in store.nodes
    <3>1. x \in Nodes \ Range(copy)
      BY <1>1, <2>2
    <3>2. /\ store'.vault[x] = store.vault[x] /\ store'.parent[x] = store.parent[x]
          /\ store'.policy[x] = store.policy[x] /\ store'.lock[x] = store.lock[x]
          /\ store'.history[x] = store.history[x] /\ store'.current[x] = store.current[x]
      BY <1>5, <3>1
    <3>3. store.parent[x] # NoNode => /\ store.parent[x] \in store.nodes
                                      /\ store'.vault[store.parent[x]] = store.vault[x]
      <4>1. store.parent[x] # NoNode => /\ store.parent[x] \in store.nodes
                                        /\ store.vault[store.parent[x]] = store.vault[x]
        BY <1>3, <2>2 DEF Consistent
      <4> QED
        BY <4>1, <1>1, <1>5
    <3> QED
      BY <2>2, <3>2, <3>3, <1>2, <1>3 DEF Consistent
  <2>3. ASSUME NEW m \in S, x = copy[m]
        PROVE  /\ store'.parent[x] # NoNode =>
                     /\ store'.parent[x] \in store'.nodes
                     /\ store'.vault[store'.parent[x]] = store'.vault[x]
               /\ store'.policy[x] # Allow => store'.lock[x] # Open
               /\ \E i \in DOMAIN store'.history[x] :
                     /\ store'.history[x][i].number = store'.current[x]
                     /\ \A k \in DOMAIN store'.history[x] :
                           store'.history[x][k].number <= store'.current[x]
    <3>1. /\ store'.vault[x] = c.to
          /\ store'.parent[x] = IF m = c.node THEN c.under ELSE copy[c.rows[m].parent]
      BY <1>5, <2>3
    <3>2. store'.parent[x] # NoNode =>
             store'.parent[x] \in store'.nodes /\ store'.vault[store'.parent[x]] = c.to
      <4>1. CASE m = c.node
        BY <1>6, <3>1, <4>1
      <4>2. CASE m # c.node
        <5>1. c.rows[m].parent \in S
          BY <1>0, <4>2
        <5>2. store'.vault[copy[c.rows[m].parent]] = c.to /\ copy[c.rows[m].parent] \in Range(copy)
          BY <5>1, <1>1, <1>5
        <5> QED
          BY <4>2, <5>2, <3>1, <1>2
      <4> QED
        BY <4>1, <4>2
    <3>3. store'.policy[x] # Allow => store'.lock[x] # Open
      <4>1. store'.lock[x] = Max2(c.rows[m].lock, IF store'.policy[x] # Allow THEN AiLocked ELSE Open)
        BY ZenonT(60), <1>5, <2>3
      <4>2. c.rows[m].lock \in Open..HumanLocked
        BY <1>0
      <4> QED
        BY <4>1, <4>2 DEF Max2, Open, AiLocked, HumanLocked
    <3>4. /\ store'.history[x] = << [number |-> 1, text |-> Rewrite(c.rows[m].text, copy)] >>
          /\ store'.current[x] = 1
      BY <1>5, <2>3
    <3> QED
      BY <3>1, <3>2, <3>3, <3>4
  <2> QED
    BY <1>1, <2>2, <2>3
<1> QED
  BY <1>2, <1>4, <1>7 DEF Sound

\* If nobody has touched a node that was loaded, nor what was above it, it was below
\* the node asked for; and what was above it was copied or above that node.
LEMMA LoadedBelow ==
    ASSUME Sound, Going, copying # NoCopy, NEW m \in DOMAIN copying.rows,
           Lineage(copying.asked, m) \cap overtaken = {}
    PROVE  LET c == copying
               A == Lineage(c.asked, m)
           IN  /\ m \in c.asked.nodes /\ c.node \in A
               /\ Lineage(c.asked, c.node) \subseteq A
               /\ \A k \in A \cap DOMAIN c.rows : c.rows[k] = RowIn(c.asked, k)
               /\ \A k \in A : k \in Lineage(c.asked, c.node) \/ k \in DOMAIN c.rows
<1> DEFINE c == copying
           D == DOMAIN c.rows
           old == c.asked
           A == Lineage(old, m)
           B == Lineage(old, c.node)
<1>1. /\ IsTree(c) /\ IsAsItWas(c) /\ c.node \in D /\ D \subseteq Nodes
      /\ \A k \in D : k # c.node => c.rows[k].parent \in D
      /\ NoNode \notin Nodes /\ old.parent \in [Nodes -> Nodes \cup {NoNode}]
  BY CopyFacts
<1>2. /\ m \in A /\ UpClosed(old, A) /\ A \subseteq Nodes
      /\ \A C : m \in C /\ UpClosed(old, C) => A \subseteq C
      /\ c.node \in B /\ UpClosed(old, B) /\ \A C : c.node \in C /\ UpClosed(old, C) => B \subseteq C
  BY <1>1, LineageIsLeast
<1>3. \A k \in A \cap D : k \in old.nodes /\ c.rows[k] = RowIn(old, k)
  <2>1. \A k \in D \ overtaken : k \in old.nodes /\ c.rows[k] = RowIn(old, k)
    BY <1>1 DEF IsAsItWas
  <2> QED
    BY <2>1
<1>4. \A k \in A \cap D : k # c.node => old.parent[k] \in A \cap D
  <2> SUFFICES ASSUME NEW k \in A \cap D, k # c.node PROVE old.parent[k] \in A \cap D
    OBVIOUS
  <2>1. c.rows[k].parent \in D /\ c.rows[k].parent = old.parent[k]
    BY <1>1, <1>3, RowFields
  <2>2. old.parent[k] # NoNode
    BY <1>1, <2>1
  <2> QED
    BY <1>2, <2>1, <2>2 DEF UpClosed
<1> HIDE DEF A, B, D, c
<1>5. c.node \in A
  <2>1. SUFFICES ASSUME c.node \notin A PROVE FALSE
    OBVIOUS
  <2> DEFINE T == A \cap D
  <2>2. T \in SUBSET (D \ {c.node}) /\ T # {}
    BY <1>2, <2>1 DEF D, c
  <2>3. PICK x \in T : c.rows[x].parent \notin T
    <3> HIDE DEF T
    <3> QED
      BY <1>1, <2>2 DEF IsTree, D
  <2>4. c.rows[x].parent = old.parent[x]
    BY <1>3, <2>3, RowFields
  <2> QED
    BY <1>4, <2>1, <2>3, <2>4
<1>6. B \subseteq A
  BY <1>2, <1>5
<1>7. A \subseteq B \cup D
  <2> DEFINE C == B \cup (A \cap D)
  <2>1. ASSUME NEW k \in C, old.parent[k] # NoNode PROVE old.parent[k] \in C
    <3>1. CASE k \in B
      BY <1>2, <2>1, <3>1 DEF UpClosed
    <3>2. CASE k \notin B
      BY <1>2, <1>4, <2>1, <3>2
    <3> QED
      BY <3>1, <3>2
  <2>2. m \in C /\ UpClosed(old, C)
    BY <1>2, <2>1 DEF UpClosed, D, c
  <2> HIDE DEF C
  <2>3. A \subseteq C
    BY <1>2, <2>2
  <2> QED
    BY <2>3 DEF C
<1>8. m \in old.nodes
  BY <1>2, <1>3 DEF D, c
<1> QED
  BY <1>3, <1>5, <1>6, <1>7, <1>8 DEF A, B, D, c

\* When the walk is over, it has met each node whose way to the node asked for
\* nobody has touched.
LEMMA WalkMeetsAll ==
    ASSUME Sound, Going, copying # NoCopy, copying.queue = <<>>, NEW n \in Requested(copying),
           LET c == copying
           IN  ({m \in Lineage(c.asked, n) : c.node \in Lineage(c.asked, m)} \ {c.node})
                  \cap overtaken = {}
    PROVE  n \in DOMAIN copying.rows
<1> DEFINE c == copying
           D == DOMAIN c.rows
           old == c.asked
           A == Lineage(old, n)
           C == {x \in A : x \notin D /\ c.node \in Lineage(old, x)}
<1>1. /\ IsWalked(c) /\ c.node \in D /\ c.node \in Nodes
      /\ NoNode \notin Nodes /\ old.parent \in [Nodes -> Nodes \cup {NoNode}]
      /\ old.nodes \subseteq Nodes /\ UpClosed(old, old.nodes)
  BY CopyFacts
<1>2. CASE ~c.recursive
  BY <1>1, <1>2 DEF Requested
<1>3. CASE c.recursive
  <2>1. n \in old.nodes /\ c.node \in Lineage(old, n)
    BY <1>3 DEF Requested, Below
  <2>2. /\ n \in A /\ UpClosed(old, A) /\ A \subseteq old.nodes
        /\ \A S : n \in S /\ UpClosed(old, S) => A \subseteq S
    BY <1>1, <2>1, LineageIsLeast
  <2>3. Range(c.queue) = {}
    BY DEF Range
  <2>4. \A x \in old.nodes \ overtaken : old.parent[x] \in D => x \in D
    BY <1>1, <1>3, <2>3 DEF IsWalked, Reached
  <2>5. ({x \in A : c.node \in Lineage(old, x)} \ {c.node}) \cap overtaken = {}
    OBVIOUS
  <2> SUFFICES ASSUME n \notin D PROVE FALSE
    BY DEF D
  <2> HIDE DEF A, D, c
  <2>6. ASSUME NEW x \in C, old.parent[x] # NoNode PROVE old.parent[x] \in C
    <3>1. x \in old.nodes /\ x \in Nodes /\ x # c.node /\ x \notin overtaken /\ old.parent[x] \in A
      BY <1>1, <2>2, <2>5, <2>6 DEF UpClosed
    <3>2. Lineage(old, x) = {x} \cup Lineage(old, old.parent[x])
      BY <1>1, <2>6, <3>1, LineageOfParent
    <3>3. old.parent[x] \notin D
      BY <2>4, <2>6, <3>1
    <3> QED
      BY <2>6, <3>1, <3>2, <3>3
  <2>7. n \in C /\ UpClosed(old, C)
    BY <2>1, <2>2, <2>6 DEF UpClosed
  <2>8. A \subseteq C
    <3> HIDE DEF C
    <3> QED
      BY <2>2, <2>7
  <2>9. c.node \in A
    BY <2>1 DEF A
  <2> QED
    BY <1>1, <2>8, <2>9
<1> QED
  BY <1>2, <1>3

\* The ancestors of a copy: the copy of the node asked for, the place it was put
\* under, and the copies of those ancestors that were loaded too.
LEMMA CopyLineage ==
    ASSUME Sound, Going, copying # NoCopy, NEW copy, Copied(copying, copy),
           NEW m \in DOMAIN copying.rows
    PROVE  LET c == copying
               L == Lineage(store', copy[m])
           IN  /\ copy[c.node] \in L
               /\ c.under # NoNode => Lineage(store', c.under) \subseteq L
               /\ Lineage(c.asked, m) \cap overtaken = {} =>
                     \A k \in Lineage(c.asked, m) :
                        k \in Lineage(c.asked, c.node) \/ (k \in DOMAIN c.rows /\ copy[k] \in L)
<1> DEFINE c == copying
           D == DOMAIN c.rows
           old == c.asked
           L == Lineage(store', copy[m])
<1>1. /\ IsTree(c) /\ c.node \in D /\ D \subseteq Nodes
      /\ \A k \in D : k # c.node => c.rows[k].parent \in D
      /\ NoNode \notin Nodes /\ old.parent \in [Nodes -> Nodes \cup {NoNode}]
      /\ c.under \in Nodes \cup {NoNode} /\ c.node \in Nodes
  BY CopyFacts
<1>2. store'.parent \in [Nodes -> Nodes \cup {NoNode}]
  <2>1. store' \in StoreType
    BY DEF Copied
  <2> QED
    BY <2>1, StoreFields
<1>3. \A k \in D : copy[k] \in Nodes
  BY NewAndOld
<1>4. \A k \in D : store'.parent[copy[k]] = IF k = c.node THEN c.under ELSE copy[c.rows[k].parent]
  BY DEF Copied
<1> HIDE DEF D, c
<1>5. m \in D /\ copy[m] \in L /\ UpClosed(store', L)
  BY <1>2, <1>3, LineageIsLeast DEF D, c
<1> HIDE DEF L
<1>6. ASSUME NEW k \in D, k # c.node, copy[k] \in L
      PROVE  c.rows[k].parent \in D /\ copy[c.rows[k].parent] \in L
  <2>1. c.rows[k].parent \in D
    BY <1>1, <1>6
  <2>2. store'.parent[copy[k]] = copy[c.rows[k].parent] /\ copy[c.rows[k].parent] \in Nodes
    BY <1>3, <1>4, <1>6, <2>1
  <2> QED
    BY <1>1, <1>5, <1>6, <2>1, <2>2 DEF UpClosed
<1>7. copy[c.node] \in L
  <2>1. SUFFICES ASSUME copy[c.node] \notin L PROVE FALSE
    OBVIOUS
  <2> DEFINE T == {k \in D : copy[k] \in L}
  <2>2. T \in SUBSET (D \ {c.node}) /\ T # {}
    BY <1>5, <2>1
  <2>3. PICK x \in T : c.rows[x].parent \notin T
    <3> HIDE DEF T
    <3> QED
      BY <1>1, <2>2 DEF IsTree, D
  <2> QED
    BY <1>6, <2>1, <2>3
<1>8. c.under # NoNode => Lineage(store', c.under) \subseteq L
  <2> SUFFICES ASSUME c.under # NoNode PROVE Lineage(store', c.under) \subseteq L
    OBVIOUS
  <2>1. store'.parent[copy[c.node]] = c.under
    BY <1>1, <1>4
  <2>2. c.under \in L /\ c.under \in Nodes
    BY <1>1, <1>5, <1>7, <2>1 DEF UpClosed
  <2> QED
    BY <1>2, <1>5, <2>2, LineageIsLeast
<1>9. ASSUME Lineage(old, m) \cap overtaken = {}, NEW k \in Lineage(old, m)
      PROVE  k \in Lineage(old, c.node) \/ (k \in D /\ copy[k] \in L)
  <2> DEFINE A == Lineage(old, m)
             B == Lineage(old, c.node)
             C == B \cup {j \in A \cap D : copy[j] \in L}
  <2>1. /\ m \in A /\ UpClosed(old, A) /\ \A S : m \in S /\ UpClosed(old, S) => A \subseteq S
        /\ c.node \in B /\ UpClosed(old, B)
    BY <1>1, <1>5, LineageIsLeast
  <2>2. \A j \in A \cap D : c.rows[j] = RowIn(old, j)
    BY <1>9, LoadedBelow DEF D, c
  <2> HIDE DEF A, B
  <2>3. ASSUME NEW j \in C, old.parent[j] # NoNode PROVE old.parent[j] \in C
    <3>1. CASE j \in B
      BY <2>1, <2>3, <3>1 DEF UpClosed
    <3>2. CASE j \notin B
      <4>1. j \in A \cap D /\ copy[j] \in L /\ j # c.node
        BY <2>1, <2>3, <3>2
      <4>2. c.rows[j].parent = old.parent[j]
        BY <2>2, <4>1, RowFields
      <4>3. old.parent[j] \in A
        BY <2>1, <2>3, <4>1 DEF UpClosed
      <4> QED
        BY <1>6, <4>1, <4>2, <4>3
    <3> QED
      BY <3>1, <3>2
  <2>4. m \in C /\ UpClosed(old, C)
    BY <1>5, <2>1, <2>3 DEF UpClosed
  <2>5. A \subseteq C
    <3> HIDE DEF C
    <3> QED
      BY <2>1, <2>4
  <2>6. k \in A
    BY <1>9 DEF A
  <2> QED
    BY <2>5, <2>6 DEF B
<1> QED
  BY <1>7, <1>8, <1>9 DEF L, D, c

LEMMA SubtreeCopied ==
    ASSUME Sound, Going, CommitCopy, NEW copy, Copied(copying, copy),
           last' = [kind |-> "copy", copy |-> copy, request |-> copying, overtaken |-> overtaken]
    PROVE  CopyIsTheSubtree'
<1> DEFINE c == copying
           S == DOMAIN c.rows
           old == c.asked
<1>1. /\ copying # NoCopy /\ c.queue = <<>>
      /\ \A m \in S : Image \notin c.rows[m].text
  BY DEF CommitCopy
<1>2. /\ IsRequest(c) /\ IsAsItWas(c) /\ IsWalked(c) /\ S \subseteq Nodes /\ NoNode \notin Nodes
      /\ old.nodes \subseteq Nodes /\ c.node \in Nodes /\ c.node \in S
      /\ ~c.recursive => S = {c.node}
  BY <1>1, CopyFacts DEF IsTree
<1>3. /\ DOMAIN copy = S /\ \A m \in S : copy[m] \in Range(copy) /\ copy[m] \in (issued + 1)..N
      /\ Range(copy) \subseteq Nodes \ store.nodes
  BY NewAndOld
<1>4. /\ copy \in [S -> (issued + 1)..issued'] /\ IsInjective(copy)
      /\ store'.nodes = store.nodes \cup Range(copy)
      /\ \A m \in S : store'.parent[copy[m]] = IF m = c.node THEN c.under ELSE copy[c.rows[m].parent]
      /\ \A m \in S : store'.history[copy[m]] = << [number |-> 1,
                          text |-> Rewrite(c.rows[m].text, copy)] >>
      /\ \A m \in S : store'.current[copy[m]] = 1
  BY DEF Copied
<1>5. \A m \in S : copy[m] \in store'.nodes \ old.nodes
  <2>1. old.nodes \subseteq 1..issued /\ issued \in Nat
    BY <1>2 DEF IsAsItWas, Sound
  <2> QED
    BY <1>3, <1>4, <2>1, SizeAssumption
<1>6. \A m, n \in S : copy[m] = copy[n] => m = n
  BY <1>3, <1>4 DEF IsInjective
<1>7. \A m \in S : copy[c.node] \in Lineage(store', copy[m])
  BY <1>1, CopyLineage
<1>8. \A n \in Requested(c) :
        ({m \in Lineage(old, n) : c.node \in Lineage(old, m)} \ {c.node}) \cap overtaken = {}
           => n \in S
  BY <1>1, WalkMeetsAll
<1>9. c.by.ai => \A m \in S : c.rows[m].policy = Allow
  <2>1. Range(c.queue) = {}
    BY <1>1 DEF Range
  <2> QED
    BY <1>2, <2>1 DEF IsWalked, Reached
<1>10. \A m \in S \ overtaken : c.rows[m].text = CurrentText(old, m)
  <2>1. \A m \in S \ overtaken : c.rows[m] = RowIn(old, m)
    BY <1>2 DEF IsAsItWas
  <2> QED
    BY <2>1, RowFields
<1>11. ASSUME NEW n \in S, Lineage(old, n) \cap overtaken = {}
       PROVE  n \in Requested(c) /\ Readable(old, c.by, n)
  <2> DEFINE A == Lineage(old, n)
  <2>1. /\ n \in old.nodes /\ c.node \in A /\ Lineage(old, c.node) \subseteq A
        /\ \A k \in A \cap S : c.rows[k] = RowIn(old, k)
        /\ \A k \in A : k \in Lineage(old, c.node) \/ k \in S
    BY <1>1, <1>11, LoadedBelow
  <2>2. n \in Requested(c)
    <3>1. CASE c.recursive
      <4>1. Requested(c) = Below(old, c.node)
        BY <3>1 DEF Requested
      <4> QED
        BY <2>1, <4>1 DEF Below
    <3>2. CASE ~c.recursive
      BY <1>2, <3>2 DEF Requested
    <3> QED
      BY <3>1, <3>2
  <2>3. ASSUME c.by.ai PROVE EffectivePolicy(old, n).ai_read = Allow
    <3>1. /\ old.parent \in [Nodes -> Nodes \cup {NoNode}] /\ old.policy \in [Nodes -> Allow..Deny]
          /\ n \in Nodes
      BY <1>1, <1>2, CopyFacts
    <3>2. PICK k \in A : old.policy[k] = EffectivePolicy(old, n).ai_read
      BY <3>1, PolicyIsStrongest
    <3>3. EffectivePolicy(old, c.node).ai_read = Allow
      <4>1. Lineage(old, c.node) \cap overtaken = {}
        BY <1>11, <2>1
      <4>2. Range(c.queue) = {}
        BY <1>1 DEF Range
      <4>3. c.node \in Reached(c)
        BY <1>2, <4>2 DEF Reached
      <4> QED
        BY <1>2, <2>3, <4>1, <4>3 DEF IsWalked
    <3>4. old.policy[k] \in Allow..Deny
      <4>1. A \subseteq Nodes
        BY <3>1, LineageIsLeast
      <4> QED
        BY <3>1, <3>2, <4>1
    <3>5. CASE k \in Lineage(old, c.node)
      <4>1. old.policy[k] <= Allow
        BY <1>2, <3>1, <3>3, <3>5, PolicyIsStrongest
      <4> QED
        BY <3>2, <3>4, <4>1 DEF Allow, Deny
    <3>6. CASE k \in S
      <4>1. c.rows[k].policy = old.policy[k] /\ c.rows[k].policy = Allow
        BY <1>9, <2>1, <2>3, <3>2, <3>6, RowFields
      <4> QED
        BY <3>2, <4>1
    <3> QED
      BY <2>1, <3>2, <3>5, <3>6
  <2> QED
    BY <2>2, <2>3 DEF Readable
<1> HIDE DEF S, c
<1>12. ASSUME NEW m \in S
       PROVE  CurrentText(store', copy[m]) = Rewrite(c.rows[m].text, copy)
  <2> DEFINE h == store'.history[copy[m]]
             v == store'.current[copy[m]]
             i == CHOOSE i \in DOMAIN h : h[i].number = v
             r == [number |-> 1, text |-> Rewrite(c.rows[m].text, copy)]
  <2>1. h = <<r>> /\ v = 1 /\ r.number = 1 /\ r.text = Rewrite(c.rows[m].text, copy)
    BY <1>4
  <2>2. CurrentText(store', copy[m]) = h[i].text
    BY DEF CurrentText
  <2> HIDE DEF h, v, r
  <2>3. DOMAIN h = 1..1 /\ h[1] = r
    BY <2>1
  <2>4. i = 1
    BY <2>1, <2>3
  <2> QED
    BY <2>1, <2>2, <2>3, <2>4
<1>13. ASSUME NEW m \in S
       PROVE  /\ SameText(c.rows[m].text, CurrentText(store', copy[m]), copy)
              /\ Image \notin CurrentText(store', copy[m])
  <2> DEFINE text == c.rows[m].text
  <2>1. Image \notin text /\ Image \notin Range(copy)
    BY <1>1, <1>3 DEF Image, Nodes, S, c
  <2>2. CurrentText(store', copy[m]) = Rewrite(text, copy)
    BY <1>12
  <2> HIDE DEF text
  <2>3. SameText(text, Rewrite(text, copy), copy)
    BY DEF SameText, Rewrite
  <2>4. Image \notin Rewrite(text, copy)
    BY <2>1 DEF Rewrite, Range
  <2> QED
    BY <2>2, <2>3, <2>4 DEF text
<1>14. last'.copy = copy /\ last'.request = c /\ last'.overtaken = overtaken
  BY DEF c
<1> QED
  BY <1>3, <1>4, <1>5, <1>6, <1>7, <1>8, <1>9, <1>10, <1>11, <1>13, <1>14 DEF CopyIsTheSubtree

\* In a store that is consistent, what an AI may not freely read it may not write.
LEMMA ClosedIsLocked ==
    ASSUME NEW s \in StoreType, Consistent(s), NEW n \in s.nodes,
           EffectivePolicy(s, n).ai_read # Allow
    PROVE  EffectiveLock(s, n) # Open
<1>1. /\ s.nodes \subseteq Nodes /\ s.parent \in [Nodes -> Nodes \cup {NoNode}]
      /\ s.policy \in [Nodes -> Allow..Deny] /\ s.lock \in [Nodes -> Open..HumanLocked]
  BY StoreFields
<1>2. PICK m \in Lineage(s, n) : s.policy[m] = EffectivePolicy(s, n).ai_read
  BY <1>1, PolicyIsStrongest
<1>3. m \in s.nodes
  BY <1>1, <1>2, NodesUpClosed, LineageIsLeast
<1>4. s.lock[m] # Open /\ s.lock[m] \in Open..HumanLocked
  BY <1>1, <1>2, <1>3 DEF Consistent
<1>5. s.lock[m] <= EffectiveLock(s, n) /\ EffectiveLock(s, n) \in Open..HumanLocked
  BY <1>1, <1>2, LockIsStrongest
<1> QED
  BY <1>4, <1>5 DEF Open, HumanLocked

LEMMA CopyClosed ==
    ASSUME Sound, Sound', Going, CommitCopy, NEW copy, Copied(copying, copy),
           last' = [kind |-> "copy", copy |-> copy, request |-> copying, overtaken |-> overtaken]
    PROVE  CopyStaysClosed'
<1> DEFINE c == copying
           S == DOMAIN c.rows
           old == c.asked
           Ai(s, x) == EffectivePolicy(s, x).ai_read
<1>1. copying # NoCopy /\ c.queue = <<>> /\ c.under \in store.nodes \cup {NoNode}
  BY DEF CommitCopy
<1>2. /\ c.node \in S /\ S \subseteq Nodes /\ c.node \in Nodes /\ c.under \in Nodes \cup {NoNode}
      /\ old.parent \in [Nodes -> Nodes \cup {NoNode}] /\ old.policy \in [Nodes -> Allow..Deny]
      /\ \A m \in S : c.rows[m].policy \in Allow..Deny
  BY <1>1, CopyFacts
<1>3. /\ DOMAIN copy = S /\ \A m \in S : copy[m] \in Nodes /\ copy[m] \in store'.nodes
      /\ \A m \in S : store'.policy[copy[m]] = Given(c, m)
  <2>1. DOMAIN copy = S /\ Range(copy) \subseteq Nodes /\ \A m \in S : copy[m] \in Range(copy)
    BY NewAndOld
  <2>2. store'.nodes = store.nodes \cup Range(copy) /\ \A m \in S : store'.policy[copy[m]] = Given(c, m)
    BY DEF Copied
  <2> QED
    BY <2>1, <2>2
<1>4. /\ store' \in StoreType /\ Consistent(store')
      /\ store'.parent \in [Nodes -> Nodes \cup {NoNode}] /\ store'.policy \in [Nodes -> Allow..Deny]
  <2>1. store' \in StoreType /\ Consistent(store')
    BY DEF Sound
  <2> QED
    BY <2>1, StoreFields
<1>5. \A k \in S :
        /\ Given(c, k) \in Allow..Deny /\ c.rows[k].policy <= Given(c, k)
        /\ k = c.node /\ Lineage(old, c.node) \cap overtaken = {} => Ai(old, c.node) <= Given(c, k)
        /\ c.under # NoNode /\ Ai(old, c.under) = ExplicitOnly => ExplicitOnly <= Given(c, k)
  BY <1>1, GivenLevel
<1>6. ASSUME NEW m \in S
      PROVE  /\ Lineage(old, m) \cap overtaken = {} => Ai(store', copy[m]) >= Ai(old, m)
             /\ Ai(store', copy[m]) # Allow => EffectiveLock(store', copy[m]) # Open
             /\ c.under # NoNode => Ai(store', copy[m]) >= Ai(store', c.under)
  <2> DEFINE L == Lineage(store', copy[m])
  <2>1. /\ copy[c.node] \in L
        /\ c.under # NoNode => Lineage(store', c.under) \subseteq L
        /\ Lineage(old, m) \cap overtaken = {} =>
              \A k \in Lineage(old, m) : k \in Lineage(old, c.node) \/ (k \in S /\ copy[k] \in L)
    BY <1>1, CopyLineage
  <2>2. m \in Nodes /\ copy[m] \in Nodes /\ copy[m] \in store'.nodes
    BY <1>2, <1>3
  <2>3. /\ \A x \in L : store'.policy[x] <= Ai(store', copy[m])
        /\ Ai(store', copy[m]) \in Allow..Deny
    BY <1>4, <2>2, PolicyIsStrongest
  <2>4. ASSUME Lineage(old, m) \cap overtaken = {} PROVE Ai(store', copy[m]) >= Ai(old, m)
    <3>1. PICK k \in Lineage(old, m) : old.policy[k] = Ai(old, m)
      BY <1>2, <2>2, PolicyIsStrongest
    <3>2. k \in Nodes /\ old.policy[k] \in Allow..Deny
      BY <1>2, <2>2, <3>1, LineageIsLeast
    <3>3. /\ Lineage(old, c.node) \subseteq Lineage(old, m)
          /\ \A j \in Lineage(old, m) \cap S : c.rows[j] = RowIn(old, j)
      BY <1>1, <2>4, LoadedBelow
    <3>4. CASE k \in S /\ copy[k] \in L
      <4>1. c.rows[k].policy = old.policy[k]
        BY <3>1, <3>3, <3>4, RowFields
      <4>2. store'.policy[copy[k]] \in Allow..Deny /\ old.policy[k] <= store'.policy[copy[k]]
        BY <1>3, <1>5, <3>4, <4>1
      <4>3. store'.policy[copy[k]] <= Ai(store', copy[m])
        BY <2>3, <3>4
      <4> HIDE DEF Ai, L
      <4> QED
        BY <2>3, <3>1, <3>2, <4>2, <4>3 DEF Allow, Deny
    <3>5. CASE k \in Lineage(old, c.node)
      <4>1. old.policy[k] <= Ai(old, c.node) /\ Ai(old, c.node) \in Allow..Deny
        BY <1>2, <3>5, PolicyIsStrongest
      <4>2. Lineage(old, c.node) \cap overtaken = {}
        BY <2>4, <3>3
      <4>3. Ai(old, c.node) <= store'.policy[copy[c.node]]
            /\ store'.policy[copy[c.node]] \in Allow..Deny
        BY <1>2, <1>3, <1>5, <4>2
      <4>4. store'.policy[copy[c.node]] <= Ai(store', copy[m])
        BY <2>1, <2>3
      <4> HIDE DEF Ai, L
      <4> QED
        BY <2>3, <3>1, <3>2, <4>1, <4>3, <4>4 DEF Allow, Deny
    <3> QED
      BY <2>1, <2>4, <3>1, <3>4, <3>5
  <2>5. Ai(store', copy[m]) # Allow => EffectiveLock(store', copy[m]) # Open
    BY <1>4, <2>2, ClosedIsLocked
  <2>6. ASSUME c.under # NoNode PROVE Ai(store', copy[m]) >= Ai(store', c.under)
    <3>1. c.under \in Nodes
      BY <1>2, <2>6
    <3>2. PICK k \in Lineage(store', c.under) : store'.policy[k] = Ai(store', c.under)
      BY <1>4, <3>1, PolicyIsStrongest
    <3>3. k \in L
      BY <2>1, <2>6, <3>2
    <3>4. Ai(store', c.under) \in Allow..Deny
      BY <1>4, <3>1, PolicyIsStrongest
    <3>5. store'.policy[k] <= Ai(store', copy[m])
      BY <2>3, <3>3
    <3> HIDE DEF Ai, L
    <3> QED
      BY <2>3, <3>2, <3>4, <3>5 DEF Allow, Deny
  <2> QED
    BY <2>4, <2>5, <2>6
<1>7. last'.copy = copy /\ last'.request = c /\ last'.overtaken = overtaken
  OBVIOUS
<1>8. \A k \in S :
        /\ store'.policy[copy[k]] >= c.rows[k].policy
        /\ c.under # NoNode /\ Ai(old, c.under) = ExplicitOnly => store'.policy[copy[k]] >= ExplicitOnly
  <2> HIDE DEF Ai, S, c
  <2> QED
    BY <1>2, <1>3, <1>5 DEF Allow, ExplicitOnly, Deny
<1> HIDE DEF S, c
<1> QED
  BY <1>3, <1>6, <1>7, <1>8 DEF CopyStaysClosed

-----------------------------------------------------------------------------
\* A sequence that shows nothing twice shows as many things as it is long.
LEMMA NothingTwice ==
    ASSUME NEW S, NEW n \in Nat, NEW c \in [1..n -> S], IsInjective(c)
    PROVE  IsFiniteSet(Range(c)) /\ Cardinality(Range(c)) = n
<1>1. c \in Bijection(1..n, Range(c))
  BY DEF Bijection, Injection, Surjection, IsInjective, Range
<1>2. ExistsBijection(1..n, Range(c))
  BY <1>1 DEF ExistsBijection
<1>3. Cardinality(Range(c)) = n
  BY <1>2, FS_CountingElements
<1>4. IsFiniteSet(1..n)
  BY FS_Interval
<1>5. IsFiniteSet(Range(c))
  BY <1>1, <1>2, <1>4, FS_Bijection
<1> QED
  BY <1>3, <1>5

\* The elements of a finite set in some order.
LEMMA InSomeOrder ==
    ASSUME NEW S, IsFiniteSet(S), NEW c \in SetToSeqs(S)
    PROVE  /\ c \in Seq(S) /\ IsInjective(c)
           /\ \A x \in S : \E i \in DOMAIN c : c[i] = x
<1> DEFINE n == Cardinality(S)
<1>1. n \in Nat
  BY FS_CardinalityType
<1>2. c \in [1..n -> S] /\ IsInjective(c)
  BY DEF SetToSeqs, IsInjective
<1> HIDE DEF n
<1>3. Cardinality(Range(c)) = n
  BY <1>1, <1>2, NothingTwice
<1>4. Range(c) \subseteq S
  BY <1>2 DEF Range
<1>5. Range(c) = S
  BY <1>3, <1>4, FS_Subset DEF n
<1>6. c \in Seq(S)
  BY <1>1, <1>2
<1> QED
  BY <1>2, <1>5, <1>6 DEF Range

Beneath(s, u, p) == {n \in InVault(s, u) : s.parent[n] = p}

\* The queue when k nodes have had their turn.
Walk(s, u, q, k) ==
    /\ q \in Seq(InVault(s, u)) /\ IsInjective(q)
    /\ \A i \in DOMAIN q : \/ s.parent[q[i]] = NoNode
                           \/ \E j \in DOMAIN q : j < i /\ j <= k /\ q[j] = s.parent[q[i]]
    /\ \A n \in Beneath(s, u, NoNode) : \E i \in DOMAIN q : q[i] = n
    /\ \A j \in DOMAIN q : j <= k => \A n \in Beneath(s, u, q[j]) : \E i \in DOMAIN q : q[i] = n

LEMMA WalkBegins ==
    ASSUME NEW s, NEW u, InVault(s, u) \subseteq Nodes,
           NEW q \in SetToSeqs(Beneath(s, u, NoNode))
    PROVE  Walk(s, u, q, 0)
<1> DEFINE B == Beneath(s, u, NoNode)
<1>1. IsFiniteSet(Nodes) /\ B \subseteq Nodes /\ B \subseteq InVault(s, u)
  BY SizeAssumption, FS_Interval DEF Nodes, Beneath
<1>2. IsFiniteSet(B)
  BY <1>1, FS_Subset
<1> HIDE DEF B
<1>3. q \in Seq(B) /\ IsInjective(q) /\ \A x \in B : \E i \in DOMAIN q : q[i] = x
  BY <1>2, InSomeOrder DEF B
<1>4. \A x \in B : s.parent[x] = NoNode
  BY DEF B, Beneath
<1>5. q \in Seq(InVault(s, u)) /\ \A i \in DOMAIN q : q[i] \in B /\ ~ (i <= 0)
  BY <1>1, <1>3
<1> QED
  BY <1>3, <1>4, <1>5 DEF Walk, B

LEMMA WalkEnds ==
    ASSUME NEW s, NEW u, NEW q, NEW k \in Nat, k > 0, Walk(s, u, q, k - 1), k > Len(q)
    PROVE  Walk(s, u, q, k)
<1>1. q \in Seq(InVault(s, u))
  BY DEF Walk
<1>2. \A j \in DOMAIN q : j <= k - 1 /\ j <= k
  BY <1>1
<1> QED
  BY <1>2 DEF Walk

LEMMA WalkGoesOn ==
    ASSUME NEW s, NEW u, InVault(s, u) \subseteq Nodes, NEW q, NEW k \in Nat, k > 0,
           Walk(s, u, q, k - 1), k <= Len(q), NEW c \in SetToSeqs(Beneath(s, u, q[k]))
    PROVE  Walk(s, u, q \o c, k)
<1> DEFINE B == Beneath(s, u, q[k])
           V == InVault(s, u)
           r == q \o c
<1>1. IsFiniteSet(Nodes) /\ B \subseteq Nodes /\ B \subseteq V /\ NoNode \notin Nodes
  <2>1. IsFiniteSet(Nodes)
    BY SizeAssumption, FS_Interval DEF Nodes
  <2>2. NoNode \notin Nodes
    BY DEF Nodes, NoNode
  <2>3. B \subseteq V
    BY DEF Beneath
  <2> QED
    BY <2>1, <2>2, <2>3
<1>2. IsFiniteSet(B)
  BY <1>1, FS_Subset
<1> HIDE DEF B
<1>3. c \in Seq(B) /\ IsInjective(c) /\ \A x \in B : \E i \in DOMAIN c : c[i] = x
  BY <1>2, InSomeOrder DEF B
<1>4. \A x \in B : s.parent[x] = q[k] /\ x \in V
  BY <1>1 DEF B, Beneath
<1> HIDE DEF V
<1>5. /\ q \in Seq(V) /\ IsInjective(q)
      /\ \A i \in DOMAIN q : \/ s.parent[q[i]] = NoNode
                             \/ \E j \in DOMAIN q : j < i /\ j <= k - 1 /\ q[j] = s.parent[q[i]]
      /\ \A n \in Beneath(s, u, NoNode) : \E i \in DOMAIN q : q[i] = n
      /\ \A j \in DOMAIN q : j <= k - 1 => \A n \in Beneath(s, u, q[j]) : \E i \in DOMAIN q : q[i] = n
  BY DEF Walk, V
<1>6. /\ c \in Seq(V) /\ k \in DOMAIN q /\ q[k] \in V /\ q[k] # NoNode
  <2>1. c \in Seq(V)
    BY <1>1, <1>3
  <2>2. k \in DOMAIN q /\ q[k] \in V
    BY <1>5
  <2> QED
    BY <1>1, <2>1, <2>2 DEF V
<1>7. /\ r \in Seq(V) /\ Len(r) = Len(q) + Len(c) /\ DOMAIN r = 1..(Len(q) + Len(c))
      /\ \A i \in DOMAIN q : i \in DOMAIN r /\ r[i] = q[i]
      /\ \A i \in DOMAIN c : Len(q) + i \in DOMAIN r /\ r[Len(q) + i] = c[i]
      /\ \A i \in DOMAIN r \ DOMAIN q : i - Len(q) \in DOMAIN c /\ r[i] = c[i - Len(q)]
                                           /\ i > Len(q)
      /\ DOMAIN q = 1..Len(q) /\ Len(q) \in Nat /\ DOMAIN r \subseteq Nat
  BY <1>5, <1>6
<1> HIDE DEF r
<1>8. \A x \in B : \A j \in DOMAIN q : q[j] # x
  <2> SUFFICES ASSUME NEW x \in B, NEW i \in DOMAIN q, q[i] = x PROVE FALSE
    OBVIOUS
  <2>1. s.parent[q[i]] = q[k] /\ q[k] # NoNode
    BY <1>4, <1>6
  <2>2. PICK j \in DOMAIN q : j < i /\ j <= k - 1 /\ q[j] = q[k]
    BY <1>5, <2>1
  <2>3. j = k
    BY <1>5, <1>6, <2>2 DEF IsInjective
  <2> QED
    BY <2>2, <2>3
<1>9. IsInjective(r)
  <2> SUFFICES ASSUME NEW i \in DOMAIN r, NEW j \in DOMAIN r, r[i] = r[j] PROVE i = j
    BY DEF IsInjective
  <2>1. CASE i \in DOMAIN q /\ j \in DOMAIN q
    BY <1>5, <1>7, <2>1 DEF IsInjective
  <2>2. CASE i \notin DOMAIN q /\ j \notin DOMAIN q
    <3>1. i - Len(q) = j - Len(q)
      BY <1>3, <1>7, <2>2 DEF IsInjective
    <3> QED
      BY <1>7, <3>1
  <2>3. \A l \in DOMAIN r \ DOMAIN q : r[l] \in B
    BY <1>3, <1>7
  <2> QED
    BY <1>7, <1>8, <2>1, <2>2, <2>3
<1>10. ASSUME NEW i \in DOMAIN r
       PROVE  \/ s.parent[r[i]] = NoNode
              \/ \E j \in DOMAIN r : j < i /\ j <= k /\ r[j] = s.parent[r[i]]
  <2>1. CASE i \in DOMAIN q
    <3>1. CASE s.parent[q[i]] = NoNode
      BY <1>7, <2>1, <3>1
    <3>2. ASSUME NEW j \in DOMAIN q, j < i, j <= k - 1, q[j] = s.parent[q[i]]
          PROVE  \E l \in DOMAIN r : l < i /\ l <= k /\ r[l] = s.parent[r[i]]
      <4>1. j \in DOMAIN r /\ j \in Nat /\ j <= k /\ r[j] = s.parent[r[i]]
        BY <1>7, <2>1, <3>2
      <4> QED
        BY <3>2, <4>1
    <3> QED
      BY <1>5, <2>1, <3>1, <3>2
  <2>2. CASE i \notin DOMAIN q
    <3>1. r[i] \in B /\ i > Len(q)
      BY <1>3, <1>7, <2>2
    <3>2. k \in DOMAIN r /\ k < i /\ k <= k /\ r[k] = s.parent[r[i]]
      <4>1. i \in Nat /\ k \in 1..Len(q)
        BY <1>6, <1>7
      <4>2. k < i /\ k <= k
        BY <1>7, <3>1, <4>1
      <4>3. k \in DOMAIN r /\ r[k] = q[k] /\ s.parent[r[i]] = q[k]
        BY <1>4, <1>6, <1>7, <3>1
      <4> QED
        BY <4>2, <4>3
    <3> QED
      BY <3>2
  <2> QED
    BY <2>1, <2>2
<1>11. \A n : (\E i \in DOMAIN q : q[i] = n) => \E i \in DOMAIN r : r[i] = n
  BY <1>7
<1>12. \A n \in B : \E i \in DOMAIN r : r[i] = n
  BY <1>3, <1>7
<1>13. ASSUME NEW j \in DOMAIN r, j <= k
       PROVE  \A n \in Beneath(s, u, r[j]) : \E i \in DOMAIN r : r[i] = n
  <2>1. j \in DOMAIN q /\ r[j] = q[j]
    BY <1>7, <1>13
  <2>2. CASE j = k
    BY <1>12, <2>1, <2>2 DEF B
  <2>3. CASE j # k
    <3>1. j <= k - 1
      BY <1>7, <1>13, <2>3
    <3> QED
      BY <1>5, <1>11, <2>1, <3>1
  <2> QED
    BY <2>2, <2>3
<1> QED
  BY <1>5, <1>7, <1>9, <1>10, <1>11, <1>13 DEF Walk, V, r

\* What the walk may have come to after k nodes.
IsWalks(s, u, w) ==
    /\ w[0] = SetToSeqs(Beneath(s, u, NoNode))
    /\ \A k \in 1..N :
          w[k] = {q \in w[k - 1] : k > Len(q)} \cup
                 UNION {{q \o c : c \in SetToSeqs(Beneath(s, u, q[k]))} :
                           q \in {q \in w[k - 1] : k <= Len(q)}}
    /\ ExportOrders(s, u) = w[N]

LEMMA WalksExist ==
    ASSUME NEW s, NEW u, InVault(s, u) \subseteq Nodes
    PROVE  \E w : IsWalks(s, u, w)
<1> DEFINE Under(p) == SetToSeqs({n \in InVault(s, u) : s.parent[n] = p})
           Turn(k, Q) == {q \in Q : k > Len(q)} \cup
                         UNION {{q \o c : c \in Under(q[k])} : q \in {q \in Q : k <= Len(q)}}
           X == SUBSET Seq(Nodes)
           turn == [k \in Nat |-> [Q \in X |-> Turn(k, Q)]]
           Way(w) == w = [k \in 0..N |-> IF k = 0 THEN Under(NoNode) ELSE Turn(k, w[k - 1])]
<1>1. \A p : Under(p) \in X
  <2> TAKE p
  <2> DEFINE B == {n \in InVault(s, u) : s.parent[n] = p}
  <2>1. IsFiniteSet(Nodes) /\ B \subseteq Nodes
    BY SizeAssumption, FS_Interval DEF Nodes
  <2>2. IsFiniteSet(B)
    BY <2>1, FS_Subset
  <2> HIDE DEF B
  <2>3. \A c \in SetToSeqs(B) : c \in Seq(B)
    BY <2>2, InSomeOrder
  <2>4. SetToSeqs(B) \subseteq Seq(Nodes)
    BY <2>1, <2>3
  <2> QED
    BY <2>4 DEF B
<1>2. ASSUME NEW k \in Nat, NEW Q \in X PROVE Turn(k, Q) \in X
  <2>1. \A q \in Q : \A c \in Under(q[k]) : q \o c \in Seq(Nodes)
    <3> TAKE q \in Q
    <3> TAKE c \in Under(q[k])
    <3>1. q \in Seq(Nodes)
      OBVIOUS
    <3>2. c \in Seq(Nodes)
      <4> HIDE DEF Under
      <4> QED
        BY <1>1
    <3> QED
      BY <3>1, <3>2
  <2> HIDE DEF Under
  <2>2. ASSUME NEW r \in Turn(k, Q) PROVE r \in Seq(Nodes)
    <3>1. r \in Q \/ \E q \in Q : \E c \in Under(q[k]) : r = q \o c
      OBVIOUS
    <3> QED
      BY <2>1, <3>1
  <2> HIDE DEF Turn
  <2> QED
    BY <2>2
<1> HIDE DEF X
<1>3. turn \in [Nat -> [X -> X]]
  <2> HIDE DEF Turn
  <2> QED
    BY <1>2
<1>4. PICK f : IsRun(f, N, X, Under(NoNode), turn)
  <2> DEFINE x0 == Under(NoNode)
  <2>1. x0 \in X /\ N \in Nat
    BY <1>1, SizeAssumption
  <2> HIDE DEF turn, x0
  <2>2. \E f : IsRun(f, N, X, x0, turn)
    BY <1>3, <2>1, Iterates
  <2> QED
    BY <2>2 DEF x0
<1>5. /\ f \in [0..N -> X] /\ f[0] = Under(NoNode)
      /\ \A k \in 1..N : f[k] = Turn(k, f[k - 1])
  <2>1. /\ f \in [0..N -> X] /\ f[0] = Under(NoNode)
        /\ \A k \in 1..N : f[k] = turn[k][f[k - 1]]
    <3> HIDE DEF turn, Under
    <3> QED
      BY <1>4 DEF IsRun
  <2>2. ASSUME NEW k \in 1..N PROVE f[k] = Turn(k, f[k - 1])
    <3>1. k \in Nat /\ k # 0 /\ k - 1 \in 0..N
      BY SizeAssumption
    <3>2. f[k - 1] \in X
      BY <2>1, <3>1
    <3>3. turn[k][f[k - 1]] = Turn(k, f[k - 1])
      <4> HIDE DEF Turn
      <4> QED
        BY <3>1, <3>2
    <3> HIDE DEF Turn, turn
    <3> QED
      BY <2>1, <3>3
  <2> HIDE DEF Turn, Under
  <2> QED
    BY <2>1, <2>2
<1>6. Way(f)
  <2> HIDE DEF Turn, Under
  <2>1. ASSUME NEW k \in 0..N PROVE f[k] = IF k = 0 THEN Under(NoNode) ELSE Turn(k, f[k - 1])
    <3>1. k # 0 => k \in 1..N
      BY SizeAssumption
    <3> QED
      BY <1>5, <3>1
  <2>2. f = [k \in 0..N |-> f[k]]
    BY <1>5
  <2> QED
    BY <2>1, <2>2
<1> DEFINE w == CHOOSE w : Way(w)
<1>7. Way(w)
  <2> HIDE DEF Way
  <2> QED
    BY <1>6
<1>8. ExportOrders(s, u) = w[N]
  BY Zenon DEF ExportOrders
<1> HIDE DEF w
<1>9. w[0] = Under(NoNode) /\ \A k \in 1..N : w[k] = Turn(k, w[k - 1])
  <2>1. 0 \in 0..N /\ \A k \in 1..N : k \in 0..N /\ k # 0
    BY SizeAssumption
  <2> HIDE DEF Turn, Under
  <2> QED
    BY <1>7, <2>1
<1> QED
  BY <1>8, <1>9 DEF IsWalks, Beneath

LEMMA WalksAreWalks ==
    ASSUME NEW s, NEW u, InVault(s, u) \subseteq Nodes, NEW q \in ExportOrders(s, u)
    PROVE  Walk(s, u, q, N)
<1>1. PICK w : IsWalks(s, u, w)
  BY WalksExist
<1>2. N \in Nat /\ N \in 0..N
  BY SizeAssumption
<1> DEFINE Bad == {k \in 0..N : ~ \A r \in w[k] : Walk(s, u, r, k)}
<1>3. Bad = {}
  <2>1. SUFFICES ASSUME Bad # {} PROVE FALSE
    OBVIOUS
  <2>2. PICK b \in Bad : \A i \in Bad : b <= i
    <3>1. Bad \in SUBSET Nat
      BY <1>2
    <3> HIDE DEF Bad
    <3> QED
      BY <2>1, <3>1, Least
  <2>3. PICK r \in w[b] : ~ Walk(s, u, r, b)
    OBVIOUS
  <2>4. b # 0
    BY <1>1, <2>3, WalkBegins DEF IsWalks
  <2>5. b \in 1..N /\ b \in Nat /\ b > 0 /\ b - 1 \in 0..N /\ ~ (b <= b - 1)
    BY <1>2, <2>4
  <2>6. b - 1 \notin Bad
    <3> HIDE DEF Bad
    <3> QED
      BY <2>2, <2>5
  <2>7. \A p \in w[b - 1] : Walk(s, u, p, b - 1)
    BY <2>5, <2>6
  <2> HIDE DEF Bad
  <2>8. w[b] = {p \in w[b - 1] : b > Len(p)} \cup
               UNION {{p \o c : c \in SetToSeqs(Beneath(s, u, p[b]))} :
                         p \in {p \in w[b - 1] : b <= Len(p)}}
    BY <1>1, <2>5 DEF IsWalks
  <2>9. CASE r \in w[b - 1] /\ b > Len(r)
    BY <2>3, <2>5, <2>7, <2>9, WalkEnds
  <2>10. ASSUME NEW p \in w[b - 1], b <= Len(p), NEW c \in SetToSeqs(Beneath(s, u, p[b])),
                r = p \o c
         PROVE  FALSE
    BY <2>3, <2>5, <2>7, <2>10, WalkGoesOn
  <2> QED
    BY <2>8, <2>9, <2>10, <2>3
<1>4. q \in w[N]
  BY <1>1 DEF IsWalks
<1> QED
  BY <1>2, <1>3, <1>4

\* What is under a root.
Forest(s, u) == {n \in InVault(s, u) : \E r \in Lineage(s, n) : s.parent[r] = NoNode}

\* An export is the part of the vault that is under its roots, each node once and
\* after its parent.
LEMMA ExportIsTheForest ==
    ASSUME NEW s \in StoreType, Consistent(s), NEW u, NEW q \in ExportOrders(s, u)
    PROVE  /\ q \in Seq(InVault(s, u)) /\ IsInjective(q)
           /\ \A i \in DOMAIN q : \/ s.parent[q[i]] = NoNode
                                  \/ \E j \in DOMAIN q : j < i /\ q[j] = s.parent[q[i]]
           /\ Range(q) = Forest(s, u)
<1> DEFINE V == InVault(s, u)
           F == {n \in V : \E r \in Lineage(s, n) : s.parent[r] = NoNode}
<1>1. /\ V \subseteq s.nodes /\ s.nodes \subseteq Nodes
      /\ s.parent \in [Nodes -> Nodes \cup {NoNode}]
      /\ NoNode \notin Nodes
  BY StoreFields, NodesUpClosed DEF InVault
<1>2. Walk(s, u, q, N)
  BY <1>1, WalksAreWalks
<1>3. /\ q \in Seq(V) /\ IsInjective(q)
      /\ \A i \in DOMAIN q : \/ s.parent[q[i]] = NoNode
                             \/ \E j \in DOMAIN q : j < i /\ q[j] = s.parent[q[i]]
      /\ \A n \in Beneath(s, u, NoNode) : \E i \in DOMAIN q : q[i] = n
      /\ \A j \in DOMAIN q : j <= N => \A n \in Beneath(s, u, q[j]) : \E i \in DOMAIN q : q[i] = n
  BY <1>2 DEF Walk
<1>4. ASSUME NEW n \in V, s.parent[n] # NoNode
      PROVE  s.parent[n] \in V
  BY <1>1, <1>4 DEF Consistent, InVault
<1> HIDE DEF V
<1>5. DOMAIN q = 1..Len(q) /\ Len(q) \in Nat /\ \A i \in DOMAIN q : q[i] \in V
  BY <1>3
<1>6. Len(q) <= N
  <2>1. q \in [1..Len(q) -> V]
    BY <1>3
  <2>2. Cardinality(Range(q)) = Len(q)
    BY <1>3, <1>5, <2>1, NothingTwice
  <2>3. IsFiniteSet(Nodes) /\ Cardinality(Nodes) = N /\ Range(q) \subseteq Nodes
    <3>1. IsFiniteSet(Nodes) /\ Cardinality(Nodes) = N
      BY SizeAssumption, FS_Interval DEF Nodes
    <3>2. Range(q) \subseteq Nodes
      BY <1>1, <1>5 DEF Range
    <3> QED
      BY <3>1, <3>2
  <2> QED
    BY <2>2, <2>3, FS_Subset
<1>7. \A j \in DOMAIN q : j <= N
  BY <1>5, <1>6, SizeAssumption
<1>8. \A n \in V : s.parent[n] = NoNode \/ s.parent[n] \in Range(q) => n \in Range(q)
  BY <1>3, <1>7 DEF Beneath, Range, V
<1>9. Range(q) \subseteq F
  <2> DEFINE Bad == {i \in DOMAIN q : q[i] \notin F}
  <2>1. SUFFICES ASSUME Bad # {} PROVE FALSE
    <3> HIDE DEF F
    <3> QED
      BY DEF Range
  <2>2. PICK b \in Bad : \A i \in Bad : b <= i
    <3>1. Bad \in SUBSET Nat
      BY <1>5
    <3> HIDE DEF Bad
    <3> QED
      BY <2>1, <3>1, Least
  <2>3. q[b] \in V /\ q[b] \in Nodes /\ b \in DOMAIN q
    BY <1>1, <1>5
  <2>4. s.parent[q[b]] # NoNode
    <3>1. q[b] \in Lineage(s, q[b])
      BY <1>1, <2>3, LineageIsLeast
    <3> QED
      BY <2>3, <3>1
  <2>5. PICK j \in DOMAIN q : j < b /\ q[j] = s.parent[q[b]]
    BY <1>3, <2>3, <2>4
  <2>6. j \notin Bad
    <3>1. j \in Nat /\ b \in Nat /\ ~ (b <= j)
      BY <1>5, <2>3, <2>5
    <3> HIDE DEF Bad
    <3> QED
      BY <2>2, <3>1
  <2>7. PICK r \in Lineage(s, q[j]) : s.parent[r] = NoNode
    BY <2>6
  <2>8. r \in Lineage(s, q[b])
    BY <1>1, <2>3, <2>4, <2>5, <2>7, LineageOfParent
  <2> QED
    BY <2>3, <2>7, <2>8
<1>10. F \subseteq Range(q)
  <2> SUFFICES ASSUME NEW n \in V, NEW r \in Lineage(s, n), s.parent[r] = NoNode,
                      n \notin Range(q)
               PROVE  FALSE
    OBVIOUS
  <2> DEFINE C == V \ Range(q)
  <2>1. n \in C /\ n \in Nodes /\ UpClosed(s, C)
    BY <1>1, <1>4, <1>8 DEF UpClosed
  <2>2. Lineage(s, n) \subseteq C
    <3> HIDE DEF C
    <3> QED
      BY <1>1, <2>1, LineageIsLeast
  <2> QED
    BY <1>8, <2>2
<1> QED
  BY <1>3, <1>9, <1>10 DEF V, Forest

-----------------------------------------------------------------------------
\* The file is an export of the store that was, which was consistent too.
Filed(q) == file = [i \in DOMAIN q |-> Serialised(taken.store, q[i])]

Held ==
    /\ taken.store \in StoreType /\ Consistent(taken.store)
    /\ file # NoFile => \E q \in ExportOrders(taken.store, taken.vault) : Filed(q)

\* What the import of a file, written in the order q, makes of the store.
Restored(copy, q) ==
    LET old == taken.store
    IN  /\ copy \in [Range(q) -> (issued + 1)..issued'] /\ IsInjective(copy)
        /\ issued' \in issued..N
        /\ store' \in StoreType
        /\ store'.nodes = store.nodes \cup Range(copy)
        /\ \A m \in Range(q) :
              /\ store'.vault[copy[m]] = NewVault
              /\ store'.parent[copy[m]] =
                    IF old.parent[m] = NoNode THEN NoNode ELSE copy[old.parent[m]]
              /\ store'.policy[copy[m]] = old.policy[m]
              /\ store'.lock[copy[m]] =
                    Max2(old.lock[m], IF old.policy[m] # Allow THEN AiLocked ELSE Open)
              /\ store'.history[copy[m]] =
                    [k \in DOMAIN old.history[m] |->
                        [number |-> old.history[m][k].number,
                         text |-> Rewrite(old.history[m][k].text, copy)]]
              /\ store'.current[copy[m]] = old.current[m]
        /\ \A x \in Nodes \ Range(copy) :
              /\ store'.vault[x] = store.vault[x] /\ store'.parent[x] = store.parent[x]
              /\ store'.policy[x] = store.policy[x] /\ store'.lock[x] = store.lock[x]
              /\ store'.history[x] = store.history[x] /\ store'.current[x] = store.current[x]

\* A file names each node once, in its place, and a parent before its children.
LEMMA FileFacts ==
    ASSUME Held, NEW q \in ExportOrders(taken.store, taken.vault), Filed(q)
    PROVE  LET old == taken.store
           IN  /\ DOMAIN file = DOMAIN q /\ DOMAIN q = 1..Len(q) /\ Len(file) = Len(q)
               /\ Len(q) \in Nat
               /\ \A i \in DOMAIN q : file[i] = Serialised(old, q[i]) /\ file[i].id = q[i]
               /\ {file[i].id : i \in DOMAIN file} = Range(q)
               /\ \A m \in Range(q) : Place(m) \in DOMAIN q /\ q[Place(m)] = m
               /\ Range(q) \subseteq InVault(old, taken.vault)
               /\ \A m \in Range(q) : old.parent[m] # NoNode =>
                     \E j \in 1..(Place(m) - 1) : file[j].id = old.parent[m]
               /\ \A m \in Range(q) : old.parent[m] # NoNode => old.parent[m] \in Range(q)
               /\ \A m \in Range(q) : \A j \in 1..(Place(m) - 1) : file[j].id # NoNode
<1> DEFINE old == taken.store
<1>1. /\ q \in Seq(InVault(old, taken.vault)) /\ IsInjective(q)
      /\ \A i \in DOMAIN q : \/ old.parent[q[i]] = NoNode
                             \/ \E j \in DOMAIN q : j < i /\ q[j] = old.parent[q[i]]
  BY ExportIsTheForest DEF Held
<1>2. InVault(old, taken.vault) \subseteq Nodes /\ NoNode \notin Nodes
  BY StoreFields, NodesUpClosed DEF Held, InVault
<1> DEFINE V == InVault(old, taken.vault)
<1> HIDE DEF V
<1>3. /\ q \in Seq(V) /\ DOMAIN q = 1..Len(q) /\ Len(q) \in Nat
      /\ \A i \in DOMAIN q : q[i] \in V /\ q[i] \in Nodes
  BY <1>1, <1>2 DEF V
<1>4. /\ DOMAIN file = DOMAIN q /\ \A i \in DOMAIN q : file[i] = Serialised(old, q[i])
  BY DEF Filed
<1>5. Len(file) = Len(q)
  BY <1>3 DEF Filed
<1>6. \A i \in DOMAIN q : file[i].id = q[i]
  BY <1>4 DEF Serialised
<1>7. {file[i].id : i \in DOMAIN file} = Range(q)
  BY <1>4, <1>6 DEF Range
<1>8. ASSUME NEW m \in Range(q) PROVE Place(m) \in DOMAIN q /\ q[Place(m)] = m
  <2>1. \E i \in DOMAIN file : file[i].id = m
    BY <1>4, <1>6, <1>8 DEF Range
  <2>2. Place(m) \in DOMAIN file /\ file[Place(m)].id = m
    BY <2>1 DEF Place
  <2> QED
    BY <2>2, <1>4, <1>6
<1>9. ASSUME NEW m \in Range(q), old.parent[m] # NoNode
      PROVE  /\ \E j \in 1..(Place(m) - 1) : file[j].id = old.parent[m]
             /\ old.parent[m] \in Range(q)
  <2>1. Place(m) \in DOMAIN q /\ q[Place(m)] = m
    BY <1>8
  <2>2. PICK j \in DOMAIN q : j < Place(m) /\ q[j] = old.parent[m]
    BY <1>1, <1>9, <2>1
  <2>3. j \in 1..(Place(m) - 1)
    BY <1>3, <2>1, <2>2
  <2> QED
    BY <1>6, <2>2, <2>3 DEF Range
<1>10. ASSUME NEW m \in Range(q), NEW j \in 1..(Place(m) - 1) PROVE file[j].id # NoNode
  <2>1. Place(m) \in 1..Len(q)
    BY <1>3, <1>8
  <2>2. j \in DOMAIN q
    BY <1>3, <2>1
  <2> QED
    BY <1>2, <1>3, <1>6, <2>2
<1>11. Range(q) \subseteq V
  BY <1>3 DEF Range
<1> QED
  BY <1>3, <1>4, <1>5, <1>6, <1>7, <1>8, <1>9, <1>10, <1>11 DEF V

LEMMA ImportStep ==
    ASSUME Sound, Held, ImportVault
    PROVE  \E q \in ExportOrders(taken.store, taken.vault) : \E copy :
              /\ Restored(copy, q)
              /\ last' = [kind |-> "import", copy |-> copy, from |-> taken.store]
<1>1. PICK q \in ExportOrders(taken.store, taken.vault) : Filed(q)
  BY DEF Held, ImportVault
<1> DEFINE old == taken.store
           olds == {file[i].id : i \in DOMAIN file}
           copy == [o \in olds |-> issued + Place(o)]
           made == [o \in olds |-> Imported(Place(o), copy)]
<1>2. /\ DOMAIN file = DOMAIN q /\ DOMAIN q = 1..Len(q) /\ Len(file) = Len(q)
      /\ Len(q) \in Nat
      /\ \A i \in DOMAIN q : file[i] = Serialised(old, q[i]) /\ file[i].id = q[i]
      /\ olds = Range(q)
      /\ \A m \in Range(q) : Place(m) \in DOMAIN q /\ q[Place(m)] = m
      /\ Range(q) \subseteq InVault(old, taken.vault)
      /\ \A m \in Range(q) : old.parent[m] # NoNode =>
            \E j \in 1..(Place(m) - 1) : file[j].id = old.parent[m]
      /\ \A m \in Range(q) : old.parent[m] # NoNode => old.parent[m] \in Range(q)
      /\ \A m \in Range(q) : \A j \in 1..(Place(m) - 1) : file[j].id # NoNode
  BY <1>1, FileFacts
<1>3. /\ issued \in Nat /\ N \in Nat /\ issued <= N /\ store \in StoreType
      /\ old \in StoreType /\ Consistent(old)
  BY SizeAssumption DEF Sound, Held
<1>4. /\ issued' = issued + Len(file) /\ issued + Len(file) <= N
      /\ store' = With(copy, made)
      /\ last' = [kind |-> "import", copy |-> copy, from |-> taken.store]
  BY DEF ImportVault
<1>5. copy \in [Range(q) -> (issued + 1)..issued']
  <2>1. \A m \in Range(q) : issued + Place(m) \in (issued + 1)..issued'
    BY <1>2, <1>3, <1>4
  <2> HIDE DEF olds
  <2> QED
    BY <1>2, <2>1
<1>6. IsInjective(copy)
  <2> SUFFICES ASSUME NEW a \in Range(q), NEW b \in Range(q), copy[a] = copy[b] PROVE a = b
    BY <1>5 DEF IsInjective
  <2>1. Place(a) \in Nat /\ Place(b) \in Nat /\ q[Place(a)] = a /\ q[Place(b)] = b
    BY <1>2
  <2>2. issued + Place(a) = issued + Place(b)
    <3> HIDE DEF olds
    <3> QED
      BY <1>2
  <2> QED
    BY <1>3, <2>1, <2>2
<1> HIDE DEF olds
<1>7. \A m \in Range(q) : made[m] = Imported(Place(m), copy)
  BY <1>2
<1> HIDE DEF copy, made
<1>8. DOMAIN copy = Range(q) /\ Range(copy) \subseteq Nodes /\ \A m \in Range(q) : copy[m] \in Nodes
  BY <1>2, <1>3, <1>4, <1>5 DEF Range, Nodes
<1>9. /\ Range(q) \subseteq old.nodes /\ old.nodes \subseteq Nodes
      /\ old.parent \in [Nodes -> Nodes \cup {NoNode}] /\ old.policy \in [Nodes -> Allow..Deny]
      /\ old.lock \in [Nodes -> Open..HumanLocked] /\ old.history \in [Nodes -> Seq(Versions)]
      /\ old.current \in [Nodes -> Nat]
  BY <1>2, <1>3, StoreFields DEF InVault
<1>10. ASSUME NEW m \in Range(q)
       PROVE  made[m] = [vault |-> NewVault,
                         parent |-> IF old.parent[m] = NoNode THEN NoNode ELSE copy[old.parent[m]],
                         policy |-> old.policy[m],
                         lock |-> Max2(old.lock[m], IF old.policy[m] # Allow THEN AiLocked ELSE Open),
                         history |-> [k \in DOMAIN old.history[m] |->
                                        [number |-> old.history[m][k].number,
                                         text |-> Rewrite(old.history[m][k].text, copy)]],
                         current |-> old.current[m]]
  <2> DEFINE i == Place(m)
             before == {file[k].id : k \in 1..(i - 1)}
             h == old.history[m]
             numbers == {h[k].number : k \in DOMAIN h}
             top == CHOOSE x \in numbers : \A k \in numbers : k <= x
  <2>1. file[i] = Serialised(old, m)
    BY <1>2
  <2>2. /\ file[i].parent_id = old.parent[m] /\ file[i].ai_read = old.policy[m]
        /\ file[i].lock = old.lock[m] /\ file[i].versions = h
    BY <2>1 DEF Serialised
  <2>3. old.parent[m] \in before <=> old.parent[m] # NoNode
    BY <1>2
  <2>4. top = old.current[m]
    <3>1. old.current[m] \in numbers /\ \A k \in numbers : k <= old.current[m]
      BY <1>3, <1>9 DEF Consistent
    <3>2. h \in Seq(Versions) /\ old.current[m] \in Nat
      BY <1>9
    <3>3. numbers \subseteq Nat
      <4> HIDE DEF h
      <4>1. \A k \in DOMAIN h : h[k] \in Versions
        BY <3>2
      <4> QED
        BY <4>1 DEF Versions
    <3> HIDE DEF numbers
    <3>4. top \in numbers /\ \A k \in numbers : k <= top
      BY <3>1
    <3> HIDE DEF top
    <3>5. top <= old.current[m] /\ old.current[m] <= top /\ top \in Nat
      BY <3>1, <3>3, <3>4
    <3> QED
      BY <3>2, <3>5
  <2>5. Imported(i, copy) =
          [vault |-> NewVault,
           parent |-> IF old.parent[m] \in before THEN copy[old.parent[m]] ELSE NoNode,
           policy |-> old.policy[m],
           lock |-> Max2(old.lock[m], IF old.policy[m] # Allow THEN AiLocked ELSE Open),
           history |-> [k \in DOMAIN h |-> [number |-> h[k].number, text |-> Rewrite(h[k].text, copy)]],
           current |-> top]
    <3> HIDE DEF i
    <3> QED
      BY <2>2 DEF Imported
  <2> HIDE DEF top, before
  <2> QED
    BY <1>7, <2>3, <2>4, <2>5
<1>11. ASSUME NEW m \in Range(q) PROVE made[m] \in Rows
  <2>1. (IF old.parent[m] = NoNode THEN NoNode ELSE copy[old.parent[m]]) \in Nodes \cup {NoNode}
    BY <1>2, <1>8
  <2>2. /\ old.policy[m] \in Allow..Deny /\ old.current[m] \in Nat
        /\ Max2(old.lock[m], IF old.policy[m] # Allow THEN AiLocked ELSE Open) \in Open..HumanLocked
    BY <1>9 DEF Max2, Open, AiLocked, HumanLocked
  <2> DEFINE h == old.history[m]
             r == [k \in DOMAIN h |-> [number |-> h[k].number, text |-> Rewrite(h[k].text, copy)]]
  <2>3. h \in Seq(Versions)
    BY <1>9
  <2> HIDE DEF h
  <2>4. ASSUME NEW k \in DOMAIN h
        PROVE  [number |-> h[k].number, text |-> Rewrite(h[k].text, copy)] \in Versions
    <3>1. h[k].number \in Nat /\ h[k].text \in SUBSET (Nodes \cup {Image})
      <4>1. h[k] \in Versions
        BY <2>3
      <4> QED
        BY <4>1 DEF Versions
    <3>2. Rewrite(h[k].text, copy) \in SUBSET (Nodes \cup {Image})
      BY <3>1, <1>8 DEF Rewrite
    <3> QED
      BY <3>1, <3>2 DEF Versions
  <2>5. r \in Seq(Versions)
    BY <2>3, <2>4
  <2> HIDE DEF r
  <2>6. made[m] = [vault |-> NewVault,
                   parent |-> IF old.parent[m] = NoNode THEN NoNode ELSE copy[old.parent[m]],
                   policy |-> old.policy[m],
                   lock |-> Max2(old.lock[m], IF old.policy[m] # Allow THEN AiLocked ELSE Open),
                   history |-> r, current |-> old.current[m]]
    BY <1>10 DEF r, h
  <2> QED
    BY <2>1, <2>2, <2>5, <2>6 DEF Rows
<1>12. store' \in StoreType
  BY <1>3, <1>4, <1>6, <1>8, <1>11, WithType
<1>13. /\ store'.nodes = store.nodes \cup Range(copy)
       /\ \A m \in Range(q) : /\ store'.vault[copy[m]] = made[m].vault
                              /\ store'.parent[copy[m]] = made[m].parent
                              /\ store'.policy[copy[m]] = made[m].policy
                              /\ store'.lock[copy[m]] = made[m].lock
                              /\ store'.history[copy[m]] = made[m].history
                              /\ store'.current[copy[m]] = made[m].current
       /\ \A x \in Nodes \ Range(copy) :
             /\ store'.vault[x] = store.vault[x] /\ store'.parent[x] = store.parent[x]
             /\ store'.policy[x] = store.policy[x] /\ store'.lock[x] = store.lock[x]
             /\ store'.history[x] = store.history[x] /\ store'.current[x] = store.current[x]
  BY <1>4, <1>6, <1>8, WithRows
<1>14. issued' \in issued..N
  BY <1>2, <1>3, <1>4
<1>15. Restored(copy, q)
  <2>1. ASSUME NEW m \in Range(q)
        PROVE  /\ made[m].vault = NewVault
               /\ made[m].parent = IF old.parent[m] = NoNode THEN NoNode ELSE copy[old.parent[m]]
               /\ made[m].policy = old.policy[m]
               /\ made[m].lock =
                     Max2(old.lock[m], IF old.policy[m] # Allow THEN AiLocked ELSE Open)
               /\ made[m].history = [k \in DOMAIN old.history[m] |->
                                       [number |-> old.history[m][k].number,
                                        text |-> Rewrite(old.history[m][k].text, copy)]]
               /\ made[m].current = old.current[m]
    <3> DEFINE parent == IF old.parent[m] = NoNode THEN NoNode ELSE copy[old.parent[m]]
               lock == Max2(old.lock[m], IF old.policy[m] # Allow THEN AiLocked ELSE Open)
               history == [k \in DOMAIN old.history[m] |->
                             [number |-> old.history[m][k].number,
                              text |-> Rewrite(old.history[m][k].text, copy)]]
    <3>1. made[m] = [vault |-> NewVault, parent |-> parent, policy |-> old.policy[m],
                     lock |-> lock, history |-> history, current |-> old.current[m]]
      BY <1>10
    <3> HIDE DEF parent, lock, history
    <3>2. /\ made[m].vault = NewVault /\ made[m].parent = parent
          /\ made[m].policy = old.policy[m] /\ made[m].lock = lock
          /\ made[m].history = history /\ made[m].current = old.current[m]
      BY <3>1
    <3> QED
      BY <3>2 DEF parent, lock, history
  <2>2. ASSUME NEW m \in Range(q)
        PROVE  /\ store'.vault[copy[m]] = NewVault
               /\ store'.parent[copy[m]] =
                     IF old.parent[m] = NoNode THEN NoNode ELSE copy[old.parent[m]]
               /\ store'.policy[copy[m]] = old.policy[m]
               /\ store'.lock[copy[m]] =
                     Max2(old.lock[m], IF old.policy[m] # Allow THEN AiLocked ELSE Open)
               /\ store'.history[copy[m]] = [k \in DOMAIN old.history[m] |->
                                       [number |-> old.history[m][k].number,
                                        text |-> Rewrite(old.history[m][k].text, copy)]]
               /\ store'.current[copy[m]] = old.current[m]
    BY <2>1, <1>13
  <2>3. /\ store'.nodes = store.nodes \cup Range(copy)
        /\ \A x \in Nodes \ Range(copy) :
             /\ store'.vault[x] = store.vault[x] /\ store'.parent[x] = store.parent[x]
             /\ store'.policy[x] = store.policy[x] /\ store'.lock[x] = store.lock[x]
             /\ store'.history[x] = store.history[x] /\ store'.current[x] = store.current[x]
    BY <1>13
  <2> QED
    BY <1>5, <1>6, <1>12, <1>14, <2>2, <2>3 DEF Restored
<1> QED
  BY <1>4, <1>15

\* What a file names is under a root, each node with its parent.
LEMMA ForestFacts ==
    ASSUME Held, NEW q \in ExportOrders(taken.store, taken.vault)
    PROVE  LET old == taken.store
           IN  /\ old \in StoreType /\ Consistent(old)
               /\ Range(q) \subseteq old.nodes /\ old.nodes \subseteq Nodes
               /\ old.parent \in [Nodes -> Nodes \cup {NoNode}]
               /\ old.policy \in [Nodes -> Allow..Deny] /\ old.lock \in [Nodes -> Open..HumanLocked]
               /\ old.history \in [Nodes -> Seq(Versions)] /\ old.current \in [Nodes -> Nat]
               /\ UpClosed(old, Range(q)) /\ NoNode \notin Nodes
<1> DEFINE old == taken.store
           V == InVault(old, taken.vault)
<1>1. old \in StoreType /\ Consistent(old)
  BY DEF Held
<1>2. /\ q \in Seq(V)
      /\ \A i \in DOMAIN q : \/ old.parent[q[i]] = NoNode
                             \/ \E j \in DOMAIN q : j < i /\ q[j] = old.parent[q[i]]
  BY <1>1, ExportIsTheForest
<1>3. V \subseteq old.nodes
  BY DEF InVault
<1> HIDE DEF V
<1>4. Range(q) \subseteq V
  BY <1>2 DEF Range
<1>5. UpClosed(old, Range(q))
  BY <1>2 DEF UpClosed, Range
<1> QED
  BY <1>1, <1>3, <1>4, <1>5, StoreFields, NodesUpClosed

LEMMA NewAndOldOfImport ==
    ASSUME Sound, NEW q, NEW copy, Restored(copy, q)
    PROVE  /\ DOMAIN copy = Range(q) /\ \A m \in Range(q) : copy[m] \in Range(copy)
           /\ Range(copy) \subseteq Nodes \ store.nodes
           /\ store.nodes \subseteq Nodes \ Range(copy)
           /\ \A x \in store'.nodes : x \in store.nodes \/ \E m \in Range(q) : x = copy[m]
<1> DEFINE Q == Range(q)
<1>1. /\ copy \in [Q -> (issued + 1)..issued'] /\ issued' \in issued..N
      /\ store'.nodes = store.nodes \cup Range(copy)
  BY DEF Restored
<1>2. issued \in Nat /\ N \in Nat /\ store.nodes \subseteq 1..issued /\ issued <= N
  BY SizeAssumption DEF Sound
<1> HIDE DEF Q
<1>3. /\ DOMAIN copy = Q /\ \A m \in Q : copy[m] \in Range(copy)
      /\ Range(copy) \subseteq Nodes \ store.nodes
      /\ store.nodes \subseteq Nodes \ Range(copy)
      /\ \A x \in store'.nodes : x \in store.nodes \/ \E m \in Q : x = copy[m]
  BY <1>1, <1>2 DEF Range, Nodes
<1> QED
  BY <1>3 DEF Q

LEMMA ImportKeepsSound ==
    ASSUME Sound, Held, NEW q \in ExportOrders(taken.store, taken.vault),
           NEW copy, Restored(copy, q)
    PROVE  Sound'
<1> DEFINE old == taken.store
<1>1. /\ DOMAIN copy = Range(q) /\ \A m \in Range(q) : copy[m] \in Range(copy)
      /\ Range(copy) \subseteq Nodes \ store.nodes
      /\ store.nodes \subseteq Nodes \ Range(copy)
      /\ \A x \in store'.nodes : x \in store.nodes \/ \E m \in Range(q) : x = copy[m]
  BY NewAndOldOfImport
<1>2. /\ store' \in StoreType /\ store'.nodes = store.nodes \cup Range(copy)
      /\ issued' \in issued..N /\ copy \in [Range(q) -> (issued + 1)..issued']
  BY DEF Restored
<1>3. /\ store \in StoreType /\ Consistent(store) /\ issued \in 0..N
      /\ store.nodes \subseteq 1..issued
  BY DEF Sound
<1>4. issued' \in 0..N /\ store'.nodes \subseteq 1..issued'
  <2>1. Range(copy) \subseteq (issued + 1)..issued'
    <3> DEFINE Q == Range(q)
    <3>1. copy \in [Q -> (issued + 1)..issued']
      BY <1>2
    <3> HIDE DEF Q
    <3> QED
      BY <3>1 DEF Range
  <2> QED
    BY <1>2, <1>3, <2>1, SizeAssumption
<1>5. /\ Consistent(old) /\ Range(q) \subseteq old.nodes /\ old.nodes \subseteq Nodes
      /\ old.lock \in [Nodes -> Open..HumanLocked]
      /\ UpClosed(old, Range(q))
  BY ForestFacts
<1>6. Consistent(store')
  <2>1. SUFFICES ASSUME NEW x \in store'.nodes
                 PROVE  /\ store'.parent[x] # NoNode =>
                              /\ store'.parent[x] \in store'.nodes
                              /\ store'.vault[store'.parent[x]] = store'.vault[x]
                        /\ store'.policy[x] # Allow => store'.lock[x] # Open
                        /\ \E i \in DOMAIN store'.history[x] :
                              /\ store'.history[x][i].number = store'.current[x]
                              /\ \A k \in DOMAIN store'.history[x] :
                                    store'.history[x][k].number <= store'.current[x]
    BY DEF Consistent
  <2>2. CASE x \in store.nodes
    <3>1. x \in Nodes \ Range(copy)
      BY <1>1, <2>2
    <3>2. /\ store'.vault[x] = store.vault[x] /\ store'.parent[x] = store.parent[x]
          /\ store'.policy[x] = store.policy[x] /\ store'.lock[x] = store.lock[x]
          /\ store'.history[x] = store.history[x] /\ store'.current[x] = store.current[x]
      BY <3>1 DEF Restored
    <3>3. store.parent[x] # NoNode => /\ store.parent[x] \in store.nodes
                                      /\ store'.vault[store.parent[x]] = store.vault[x]
      <4>1. store.parent[x] # NoNode => /\ store.parent[x] \in store.nodes
                                        /\ store.vault[store.parent[x]] = store.vault[x]
        BY <1>3, <2>2 DEF Consistent
      <4> QED
        BY <4>1, <1>1 DEF Restored
    <3> QED
      BY <2>2, <3>2, <3>3, <1>2, <1>3 DEF Consistent
  <2>3. ASSUME NEW m \in Range(q), x = copy[m]
        PROVE  /\ store'.parent[x] # NoNode =>
                     /\ store'.parent[x] \in store'.nodes
                     /\ store'.vault[store'.parent[x]] = store'.vault[x]
               /\ store'.policy[x] # Allow => store'.lock[x] # Open
               /\ \E i \in DOMAIN store'.history[x] :
                     /\ store'.history[x][i].number = store'.current[x]
                     /\ \A k \in DOMAIN store'.history[x] :
                           store'.history[x][k].number <= store'.current[x]
    <3>1. store'.vault[x] = NewVault
      BY <2>3 DEF Restored
    <3>2. store'.parent[x] = IF old.parent[m] = NoNode THEN NoNode ELSE copy[old.parent[m]]
      BY <2>3 DEF Restored
    <3>3. store'.parent[x] # NoNode =>
             store'.parent[x] \in store'.nodes /\ store'.vault[store'.parent[x]] = NewVault
      <4>1. old.parent[m] # NoNode => old.parent[m] \in Range(q)
        BY <1>5, <2>3 DEF UpClosed
      <4>2. \A k \in Range(q) : store'.vault[copy[k]] = NewVault
        BY DEF Restored
      <4> QED
        BY <1>1, <1>2, <3>2, <4>1, <4>2
    <3>4. store'.policy[x] # Allow => store'.lock[x] # Open
      <4>1. /\ store'.lock[x] = Max2(old.lock[m], IF old.policy[m] # Allow THEN AiLocked ELSE Open)
            /\ store'.policy[x] = old.policy[m]
        BY <2>3 DEF Restored
      <4>2. old.lock[m] \in Open..HumanLocked
        BY <1>5
      <4> QED
        BY <4>1, <4>2 DEF Max2, Open, AiLocked, HumanLocked
    <3>5. /\ DOMAIN store'.history[x] = DOMAIN old.history[m]
          /\ \A k \in DOMAIN old.history[m] :
                store'.history[x][k].number = old.history[m][k].number
          /\ store'.current[x] = old.current[m]
      <4>1. store'.history[x] = [k \in DOMAIN old.history[m] |->
                        [number |-> old.history[m][k].number,
                         text |-> Rewrite(old.history[m][k].text, copy)]]
        BY <2>3 DEF Restored
      <4>2. store'.current[x] = old.current[m]
        BY <2>3 DEF Restored
      <4>3. DOMAIN store'.history[x] = DOMAIN old.history[m]
        BY <4>1, Zenon
      <4>4. ASSUME NEW k \in DOMAIN old.history[m]
            PROVE  store'.history[x][k].number = old.history[m][k].number
        BY <4>1, <4>4
      <4> QED
        BY <4>2, <4>3, <4>4, Zenon
    <3>6. \E i \in DOMAIN old.history[m] :
              /\ old.history[m][i].number = old.current[m]
              /\ \A k \in DOMAIN old.history[m] : old.history[m][k].number <= old.current[m]
      BY <1>5, <2>3 DEF Consistent
    <3>7. \E i \in DOMAIN store'.history[x] :
              /\ store'.history[x][i].number = store'.current[x]
              /\ \A k \in DOMAIN store'.history[x] :
                    store'.history[x][k].number <= store'.current[x]
      BY <3>5, <3>6
    <3> QED
      BY <3>1, <3>3, <3>4, <3>7
  <2> QED
    BY <1>1, <2>2, <2>3
<1> QED
  BY <1>2, <1>4, <1>6 DEF Sound

\* The ancestors of an imported node are the imported ancestors.
LEMMA ImportLineage ==
    ASSUME Sound, Held, NEW q \in ExportOrders(taken.store, taken.vault),
           NEW copy, Restored(copy, q), NEW m \in Range(q)
    PROVE  /\ Lineage(taken.store, m) \subseteq Range(q)
           /\ Lineage(store', copy[m]) = {copy[k] : k \in Lineage(taken.store, m)}
<1> DEFINE old == taken.store
           Q == Range(q)
           L == Lineage(store', copy[m])
           A == Lineage(old, m)
<1>1. /\ DOMAIN copy = Q /\ \A k \in Q : copy[k] \in Range(copy)
      /\ Range(copy) \subseteq Nodes
  BY NewAndOldOfImport
<1>2. /\ Q \subseteq Nodes /\ old.parent \in [Nodes -> Nodes \cup {NoNode}]
      /\ UpClosed(old, Q) /\ NoNode \notin Nodes
  BY ForestFacts
<1>3. store'.parent \in [Nodes -> Nodes \cup {NoNode}]
  <2>1. store' \in StoreType
    BY DEF Restored
  <2> QED
    BY <2>1, StoreFields
<1>4. \A k \in Q : store'.parent[copy[k]] =
                     IF old.parent[k] = NoNode THEN NoNode ELSE copy[old.parent[k]]
  BY DEF Restored
<1> HIDE DEF Q
<1>5. m \in Q /\ m \in Nodes /\ copy[m] \in Nodes
  BY <1>1, <1>2 DEF Q
<1>6. /\ m \in A /\ UpClosed(old, A) /\ \A S : m \in S /\ UpClosed(old, S) => A \subseteq S
  BY <1>2, <1>5, LineageIsLeast
<1>7. /\ copy[m] \in L /\ UpClosed(store', L)
      /\ \A S : copy[m] \in S /\ UpClosed(store', S) => L \subseteq S
  BY <1>3, <1>5, LineageIsLeast
<1> HIDE DEF A, L
<1>8. A \subseteq Q
  BY <1>2, <1>5, <1>6
<1>9. L \subseteq {copy[k] : k \in A}
  <2>1. UpClosed(store', {copy[k] : k \in A})
    BY <1>4, <1>6, <1>8 DEF UpClosed
  <2> QED
    BY <1>6, <1>7, <2>1
<1>10. A \subseteq {k \in Q : copy[k] \in L}
  <2> DEFINE T == {k \in Q : copy[k] \in L}
  <2>1. ASSUME NEW k \in T, old.parent[k] # NoNode PROVE old.parent[k] \in T
    <3>1. old.parent[k] \in Q
      BY <1>2, <2>1 DEF UpClosed
    <3>2. store'.parent[copy[k]] = copy[old.parent[k]] /\ copy[old.parent[k]] # NoNode
      BY <1>1, <1>2, <1>4, <2>1, <3>1
    <3> QED
      BY <1>7, <2>1, <3>1, <3>2 DEF UpClosed
  <2>2. UpClosed(old, T) /\ m \in T
    BY <1>5, <1>7, <2>1 DEF UpClosed
  <2> HIDE DEF T
  <2>3. A \subseteq T
    BY <1>6, <2>2
  <2> QED
    BY <2>3 DEF T
<1>11. A \subseteq Q /\ L = {copy[k] : k \in A}
  BY <1>8, <1>9, <1>10
<1> QED
  BY <1>11 DEF A, L, Q

LEMMA PolicyOf ==
    ASSUME NEW v, NEW n
    PROVE  EffectivePolicy(v, n) =
             [ai_read |-> Strongest({v.policy[m] : m \in Lineage(v, n)}),
              inherited |-> Strongest({v.policy[m] : m \in Lineage(v, n)}) > v.policy[n]]
  BY DEF EffectivePolicy, Strongest

\* An import is the vault of the file, if its own vault was empty.
LEMMA VaultRestored ==
    ASSUME Sound, Held, InVault(store, NewVault) = {},
           NEW q \in ExportOrders(taken.store, taken.vault),
           NEW copy, Restored(copy, q), UNCHANGED taken,
           last' = [kind |-> "import", copy |-> copy, from |-> taken.store]
    PROVE  ImportIsTheVault'
<1> DEFINE old == taken.store
           Q == Range(q)
<1>1. /\ DOMAIN copy = Q /\ \A m \in Q : copy[m] \in Range(copy)
      /\ Range(copy) \subseteq Nodes \ store.nodes /\ store.nodes \subseteq Nodes \ Range(copy)
  BY NewAndOldOfImport
<1>2. /\ Q \subseteq Nodes /\ old.parent \in [Nodes -> Nodes \cup {NoNode}]
      /\ old.policy \in [Nodes -> Allow..Deny] /\ old.lock \in [Nodes -> Open..HumanLocked]
      /\ old \in StoreType /\ Consistent(old) /\ NoNode \notin Nodes
  BY ForestFacts
<1>3. /\ store'.parent \in [Nodes -> Nodes \cup {NoNode}]
      /\ store'.policy \in [Nodes -> Allow..Deny] /\ store'.lock \in [Nodes -> Open..HumanLocked]
      /\ store'.nodes \subseteq Nodes
  <2>1. store' \in StoreType
    BY DEF Restored
  <2> QED
    BY <2>1, StoreFields
<1>4. /\ \A m \in Q :
           /\ store'.vault[copy[m]] = NewVault
           /\ store'.parent[copy[m]] = IF old.parent[m] = NoNode THEN NoNode
                                       ELSE copy[old.parent[m]]
           /\ store'.policy[copy[m]] = old.policy[m]
           /\ store'.lock[copy[m]] =
                 Max2(old.lock[m], IF old.policy[m] # Allow THEN AiLocked ELSE Open)
           /\ store'.history[copy[m]] =
                 [k \in DOMAIN old.history[m] |->
                     [number |-> old.history[m][k].number,
                      text |-> Rewrite(old.history[m][k].text, copy)]]
           /\ store'.current[copy[m]] = old.current[m]
      /\ \A x \in Nodes \ Range(copy) : store'.vault[x] = store.vault[x]
      /\ store'.nodes = store.nodes \cup Range(copy)
      /\ IsInjective(copy)
  BY DEF Restored
<1>5. Q = {n \in InVault(old, taken.vault) : \E r \in Lineage(old, n) : old.parent[r] = NoNode}
  <2>1. Q = Forest(old, taken.vault)
    BY <1>2, ExportIsTheForest
  <2> QED
    BY <2>1 DEF Forest
<1>6. \A m \in Q : /\ Lineage(old, m) \subseteq Q
                   /\ Lineage(store', copy[m]) = {copy[k] : k \in Lineage(old, m)}
  BY ImportLineage
<1> HIDE DEF Q
<1>7. \A m, n \in DOMAIN copy : copy[m] = copy[n] => m = n
  BY <1>4 DEF IsInjective
<1>8. InVault(store', NewVault) = {copy[n] : n \in DOMAIN copy}
  <2>1. \A x \in store.nodes : store'.vault[x] # NewVault
    BY <1>1, <1>4 DEF InVault
  <2>2. ASSUME NEW x \in Range(copy) PROVE store'.vault[x] = NewVault
    <3>1. PICK m \in Q : x = copy[m]
      BY <1>1 DEF Range
    <3> QED
      BY <1>4, <3>1
  <2>3. Range(copy) = {copy[n] : n \in DOMAIN copy}
    BY DEF Range
  <2> QED
    BY <1>4, <2>1, <2>2, <2>3 DEF InVault
<1>9. ASSUME NEW m \in Q
      PROVE  /\ DOMAIN store'.history[copy[m]] = DOMAIN old.history[m]
             /\ \A i \in DOMAIN old.history[m] :
                   /\ store'.history[copy[m]][i].number = old.history[m][i].number
                   /\ SameText(old.history[m][i].text, store'.history[copy[m]][i].text, copy)
  <2> DEFINE h == old.history[m]
             g == store'.history[copy[m]]
  <2>1. g = [k \in DOMAIN h |-> [number |-> h[k].number, text |-> Rewrite(h[k].text, copy)]]
    BY <1>4
  <2> HIDE DEF g, h
  <2>2. DOMAIN g = DOMAIN h /\ \A i \in DOMAIN h : /\ g[i].number = h[i].number
                                                   /\ g[i].text = Rewrite(h[i].text, copy)
    BY <2>1
  <2>3. \A i \in DOMAIN h : SameText(h[i].text, g[i].text, copy)
    BY <2>2 DEF SameText, Rewrite
  <2> QED
    BY <2>2, <2>3 DEF g, h
<1>10. ASSUME NEW m \in Q PROVE EffectivePolicy(store', copy[m]) = EffectivePolicy(old, m)
  <2> DEFINE new == {store'.policy[x] : x \in Lineage(store', copy[m])}
             levels == {old.policy[k] : k \in Lineage(old, m)}
  <2>1. new = levels
    <3>1. \A k \in Lineage(old, m) : store'.policy[copy[k]] = old.policy[k]
      BY <1>4, <1>6
    <3>2. Lineage(store', copy[m]) = {copy[k] : k \in Lineage(old, m)}
      BY <1>6
    <3> QED
      BY <3>1, <3>2
  <2>2. EffectivePolicy(store', copy[m]) =
          [ai_read |-> Strongest(new), inherited |-> Strongest(new) > store'.policy[copy[m]]]
    BY PolicyOf
  <2>3. EffectivePolicy(old, m) =
          [ai_read |-> Strongest(levels), inherited |-> Strongest(levels) > old.policy[m]]
    BY PolicyOf
  <2>4. store'.policy[copy[m]] = old.policy[m]
    BY <1>4
  <2> HIDE DEF new, levels
  <2> QED
    BY <2>1, <2>2, <2>3, <2>4
<1>11. ASSUME NEW m \in Q PROVE EffectiveLock(store', copy[m]) >= EffectiveLock(old, m)
  <2>1. m \in Nodes /\ copy[m] \in Nodes
    BY <1>1, <1>2
  <2>2. PICK k \in Lineage(old, m) : old.lock[k] = EffectiveLock(old, m)
    BY <1>2, <2>1, LockIsStrongest
  <2>3. k \in Q /\ k \in Nodes /\ copy[k] \in Nodes /\ copy[k] \in Lineage(store', copy[m])
    BY <1>1, <1>2, <1>6, <2>2
  <2>4. old.lock[k] <= store'.lock[copy[k]]
    <3>1. /\ store'.lock[copy[k]] =
               Max2(old.lock[k], IF old.policy[k] # Allow THEN AiLocked ELSE Open)
          /\ old.lock[k] \in Open..HumanLocked
      BY <1>2, <1>4, <2>3
    <3> QED
      BY <3>1 DEF Max2, Open, AiLocked, HumanLocked
  <2>5. /\ store'.lock[copy[k]] <= EffectiveLock(store', copy[m])
        /\ EffectiveLock(store', copy[m]) \in Open..HumanLocked
    BY <1>3, <2>1, <2>3, LockIsStrongest
  <2>6. old.lock[k] \in Open..HumanLocked /\ store'.lock[copy[k]] \in Open..HumanLocked
    BY <1>2, <1>3, <2>3
  <2> QED
    BY <2>2, <2>4, <2>5, <2>6 DEF Open, HumanLocked
<1>12. /\ last'.copy = copy /\ last'.from = old /\ taken'.vault = taken.vault
  OBVIOUS
<1>13. \A n \in Q : /\ store'.parent[copy[n]] =
                         (IF old.parent[n] = NoNode THEN NoNode ELSE copy[old.parent[n]])
                    /\ store'.current[copy[n]] = old.current[n]
  BY <1>4
<1>14. DOMAIN copy = Q
  BY <1>1
<1> HIDE DEF old
<1> QED
  BY <1>5, <1>7, <1>8, <1>9, <1>10, <1>11, <1>12, <1>13, <1>14 DEF ImportIsTheVault

-----------------------------------------------------------------------------
\* What every state keeps.
TransferInv ==
    /\ Sound /\ Held /\ Going
    /\ ImportIsTheVault /\ CopyIsTheSubtree /\ CopyStaysClosed

LEMMA InitHolds == TransferInit => TransferInv
<1> SUFFICES ASSUME TransferInit PROVE TransferInv
  OBVIOUS
<1>1. /\ store \in Stores /\ issued = Cardinality(store.nodes) /\ file = NoFile
      /\ taken = [store |-> store, vault |-> NewVault] /\ last = NoTransfer
      /\ copying = NoCopy
  BY DEF TransferInit
<1>2. store \in StoreType /\ Consistent(store) /\ store.nodes = 1..Cardinality(store.nodes)
  BY <1>1, StoresAssumption
<1>3. store.nodes \subseteq 1..N
  BY <1>2, StoreFields DEF Nodes
<1>4. Cardinality(store.nodes) \in Nat
  <2>1. IsFiniteSet(1..N)
    BY SizeAssumption, FS_Interval
  <2> QED
    BY <1>3, <2>1, FS_Subset, FS_CardinalityType
<1>5. issued \in 0..N /\ store.nodes \subseteq 1..issued
  <2> DEFINE c == Cardinality(store.nodes)
  <2>1. c \in Nat /\ 1..c \subseteq 1..N /\ N \in Nat
    BY <1>2, <1>3, <1>4, SizeAssumption
  <2> HIDE DEF c
  <2>2. c <= N
    <3>1. c >= 1 => c \in 1..N
      BY <2>1
    <3> QED
      BY <2>1, <3>1
  <2>3. issued = c /\ store.nodes = 1..c
    BY <1>1, <1>2 DEF c
  <2> QED
    BY <2>1, <2>2, <2>3
<1>6. Sound
  BY <1>2, <1>5 DEF Sound
<1>7. Held
  BY <1>1, <1>2 DEF Held
<1>8. last.kind = "none" /\ Going
  BY <1>1 DEF NoTransfer, Going
<1> QED
  BY <1>6, <1>7, <1>8 DEF TransferInv, ImportIsTheVault, CopyIsTheSubtree, CopyStaysClosed

\* A step that is no transfer leaves the invariants of transfers nothing to say.
LEMMA NoTransferHolds ==
    ASSUME last' = NoTransfer
    PROVE  ImportIsTheVault' /\ CopyIsTheSubtree' /\ CopyStaysClosed'
<1>1. last'.kind = "none"
  BY DEF NoTransfer
<1> QED
  BY <1>1 DEF ImportIsTheVault, CopyIsTheSubtree, CopyStaysClosed

LEMMA SameGoes ==
    ASSUME Going, UNCHANGED <<store, issued, copying, overtaken>>
    PROVE  Going'
<1>1. /\ IsAsItWas(copying)' = IsAsItWas(copying) /\ IsWalked(copying)' = IsWalked(copying)
      /\ IsRequest(copying') = IsRequest(copying) /\ IsTree(copying') = IsTree(copying)
  BY DEF IsAsItWas, IsWalked
<1> QED
  BY <1>1 DEF Going

LEMMA ExportHolds ==
    ASSUME TransferInv, NEW u \in Vaults, ExportVault(u)
    PROVE  TransferInv'
<1>1. Sound'
  BY DEF TransferInv, Sound, ExportVault
<1>2. Held'
  <2>1. taken' = [store |-> store, vault |-> u]
    BY DEF ExportVault
  <2>2. taken'.store = store /\ taken'.vault = u
    BY <2>1
  <2>3. PICK q \in ExportOrders(store, u) :
           file' = [i \in DOMAIN q |-> Serialised(store, q[i])]
    BY DEF ExportVault
  <2>4. store \in StoreType /\ Consistent(store)
    BY DEF TransferInv, Sound
  <2> QED
    BY <2>2, <2>3, <2>4 DEF Held, Filed
<1>3. Going'
  BY SameGoes DEF ExportVault, TransferInv
<1> QED
  BY <1>1, <1>2, <1>3, NoTransferHolds DEF ExportVault, TransferInv

LEMMA ImportHolds ==
    ASSUME TransferInv, ImportVault
    PROVE  TransferInv'
<1>1. Sound /\ Held
  BY DEF TransferInv
<1>2. PICK q \in ExportOrders(taken.store, taken.vault) :
         \E copy : /\ Restored(copy, q)
                   /\ last' = [kind |-> "import", copy |-> copy, from |-> taken.store]
  BY <1>1, ImportStep
<1>3. PICK copy : /\ Restored(copy, q)
                  /\ last' = [kind |-> "import", copy |-> copy, from |-> taken.store]
  BY <1>2
<1>4. UNCHANGED <<file, taken>> /\ InVault(store, NewVault) = {}
  BY DEF ImportVault
<1>5. Sound'
  BY <1>1, <1>3, ImportKeepsSound
<1>6. Held'
  BY <1>1, <1>4 DEF Held, Filed
<1>7. ImportIsTheVault'
  BY <1>1, <1>3, <1>4, VaultRestored
<1>8. last'.kind = "import"
  BY <1>3
<1>9. Going'
  <2> DEFINE Q == Range(q)
  <2>1. /\ issued \in 0..N /\ N \in Nat /\ issued' \in issued..N
        /\ copy \in [Q -> (issued + 1)..issued']
        /\ \A x \in Nodes \ Range(copy) : store'.vault[x] = store.vault[x]
    BY <1>1, <1>3, SizeAssumption DEF Sound, Restored
  <2> HIDE DEF Q
  <2>2. \A x \in 1..issued : x \in Nodes \ Range(copy)
    BY <2>1 DEF Range, Nodes
  <2>3. issued \in 0..issued' /\ issued' \in Nat
    BY <2>1
  <2>4. Going /\ Meanwhile
    BY DEF TransferInv, ImportVault
  <2> QED
    BY <1>1, <2>1, <2>2, <2>3, <2>4, MeanwhileGoes
<1> QED
  BY <1>5, <1>6, <1>7, <1>8, <1>9 DEF TransferInv, CopyIsTheSubtree, CopyStaysClosed

LEMMA BeginHolds ==
    ASSUME TransferInv, NEW n \in store.nodes, NEW u \in Vaults,
           NEW p \in store.nodes \cup {NoNode}, NEW recursive \in BOOLEAN, NEW w,
           BeginCopy(n, u, p, recursive, w)
    PROVE  TransferInv'
<1>1. Sound /\ Held /\ UNCHANGED <<store, issued, file, taken>> /\ last' = NoTransfer
  BY DEF TransferInv, BeginCopy
<1>2. Sound' /\ Held'
  BY <1>1 DEF Sound, Held, Filed
<1>3. Going'
  BY <1>1, BeginGoes
<1> QED
  BY <1>1, <1>2, <1>3, NoTransferHolds DEF TransferInv

LEMMA WalkHolds ==
    ASSUME TransferInv, WalkCopy
    PROVE  TransferInv'
<1>1. /\ Sound /\ Held /\ Going /\ UNCHANGED <<store, issued, file, taken>>
      /\ last' = NoTransfer
  BY DEF TransferInv, WalkCopy
<1>2. Sound' /\ Held'
  BY <1>1 DEF Sound, Held, Filed
<1>3. Going'
  BY <1>1, WalkGoes
<1> QED
  BY <1>1, <1>2, <1>3, NoTransferHolds DEF TransferInv

LEMMA CommitHolds ==
    ASSUME TransferInv, CommitCopy
    PROVE  TransferInv'
<1>1. /\ Sound /\ Held /\ Going /\ UNCHANGED <<file, taken>> /\ copying' = NoCopy
      /\ copying # NoCopy /\ copying.queue = <<>> /\ copying.under \in store.nodes \cup {NoNode}
  BY DEF TransferInv, CommitCopy
<1>2. PICK copy : /\ Copied(copying, copy)
                  /\ last' = [kind |-> "copy", copy |-> copy, request |-> copying,
                              overtaken |-> overtaken]
  BY <1>1, CopyStep
<1>3. Sound'
  BY <1>1, <1>2, CopyKeepsSound
<1>4. Held'
  BY <1>1 DEF Held, Filed
<1>5. Going'
  BY <1>1 DEF Going
<1>6. CopyIsTheSubtree'
  BY <1>1, <1>2, SubtreeCopied
<1>7. CopyStaysClosed'
  BY <1>1, <1>2, <1>3, CopyClosed
<1>8. last'.kind = "copy"
  BY <1>2
<1> QED
  BY <1>3, <1>4, <1>5, <1>6, <1>7, <1>8 DEF TransferInv, ImportIsTheVault

LEMMA AbandonHolds ==
    ASSUME TransferInv, AbandonCopy
    PROVE  TransferInv'
<1>1. /\ Sound /\ Held /\ UNCHANGED <<store, issued, file, taken>> /\ copying' = NoCopy
      /\ last' = NoTransfer
  BY DEF TransferInv, AbandonCopy
<1>2. Sound' /\ Held' /\ Going'
  BY <1>1 DEF Sound, Held, Filed, Going
<1> QED
  BY <1>1, <1>2, NoTransferHolds DEF TransferInv

\* What a step meanwhile owes a copy under way, if it makes no node.
LEMMA OthersGo ==
    ASSUME Sound, Going, Meanwhile, issued' = issued, store'.vault = store.vault
    PROVE  Going'
<1>1. issued \in 0..issued' /\ issued' \in Nat
  BY SizeAssumption DEF Sound
<1> QED
  BY <1>1, MeanwhileGoes

LEMMA SetPolicyHolds ==
    ASSUME TransferInv, NEW n \in store.nodes, NEW policy \in Allow..Deny,
           NEW lock \in Open..HumanLocked, SetPolicy(n, policy, lock)
    PROVE  TransferInv'
<1> DEFINE stamped == IF policy = ExplicitOnly THEN Below(store, n) \ {n} ELSE {}
           P == [m \in Nodes |-> IF m = n THEN policy
                                 ELSE IF m \in stamped THEN Max2(store.policy[m], ExplicitOnly)
                                 ELSE store.policy[m]]
           L == [m \in Nodes |-> IF m = n THEN Max2(lock, IF policy # Allow THEN AiLocked ELSE Open)
                                 ELSE IF m \in stamped THEN Max2(store.lock[m], AiLocked)
                                 ELSE store.lock[m]]
<1>1. /\ store' = [store EXCEPT !.policy = P, !.lock = L]
      /\ UNCHANGED <<issued, file, taken>> /\ last' = NoTransfer /\ Meanwhile
  BY DEF SetPolicy
<1>2. /\ Sound /\ Held /\ Going /\ store \in StoreType /\ Consistent(store)
  BY DEF TransferInv, Sound
<1>3. /\ store.policy \in [Nodes -> Allow..Deny] /\ store.lock \in [Nodes -> Open..HumanLocked]
      /\ store.nodes \subseteq Nodes
  BY <1>2, StoreFields
<1> HIDE DEF stamped
<1>4. P \in [Nodes -> Allow..Deny] /\ L \in [Nodes -> Open..HumanLocked]
  <2>1. \A m \in Nodes : P[m] \in Allow..Deny
    BY <1>3 DEF Max2, Allow, ExplicitOnly, Deny
  <2>2. \A m \in Nodes : L[m] \in Open..HumanLocked
    BY <1>3 DEF Max2, Open, AiLocked, HumanLocked
  <2> QED
    BY <2>1, <2>2
<1>5. \A m \in store.nodes : P[m] # Allow => L[m] # Open
  <2> SUFFICES ASSUME NEW m \in store.nodes PROVE P[m] # Allow => L[m] # Open
    OBVIOUS
  <2>1. m \in Nodes /\ store.lock[m] \in Open..HumanLocked
    BY <1>3
  <2>2. store.policy[m] # Allow => store.lock[m] # Open
    BY <1>2 DEF Consistent
  <2> QED
    BY <2>1, <2>2 DEF Max2, Allow, Open, AiLocked, HumanLocked
<1> HIDE DEF P, L
<1>6. /\ store'.nodes = store.nodes /\ store'.vault = store.vault /\ store'.parent = store.parent
      /\ store'.policy = P /\ store'.lock = L
      /\ store'.history = store.history /\ store'.current = store.current
      /\ store' \in StoreType
  BY <1>1, <1>2, <1>4 DEF StoreType
<1>7. Consistent(store')
  BY <1>2, <1>5, <1>6 DEF Consistent
<1>8. Sound'
  BY <1>1, <1>2, <1>6, <1>7 DEF Sound
<1>9. Held'
  BY <1>1, <1>2 DEF Held, Filed
<1>10. Going'
  BY <1>1, <1>2, <1>6, OthersGo
<1> QED
  BY <1>1, <1>8, <1>9, <1>10, NoTransferHolds DEF TransferInv

LEMMA DeleteHolds ==
    ASSUME TransferInv, NEW n \in store.nodes, DeleteNode(n)
    PROVE  TransferInv'
<1> DEFINE adopter == IF store.parent[n] = n THEN NoNode ELSE store.parent[n]
           Left == store.nodes \ {n}
           P == [m \in Nodes |-> IF store.parent[m] = n THEN adopter ELSE store.parent[m]]
<1>1. /\ store' = [store EXCEPT !.nodes = Left, !.parent = P]
      /\ UNCHANGED <<issued, file, taken>> /\ last' = NoTransfer /\ Meanwhile
      /\ store.parent[n] # NoNode
  BY DEF DeleteNode
<1>2. /\ Sound /\ Held /\ Going /\ store \in StoreType /\ Consistent(store)
      /\ store.nodes \subseteq 1..issued
  BY DEF TransferInv, Sound
<1>3. /\ store.parent \in [Nodes -> Nodes \cup {NoNode}] /\ store.nodes \subseteq Nodes
  BY <1>2, StoreFields
<1>4. adopter \in Nodes \cup {NoNode} /\ adopter # n
      /\ (adopter # NoNode => adopter \in Left /\ store.vault[adopter] = store.vault[n])
  <2>1. store.parent[n] \in store.nodes /\ store.vault[store.parent[n]] = store.vault[n]
    BY <1>1, <1>2 DEF Consistent
  <2> QED
    BY <1>3, <2>1 DEF Nodes, NoNode
<1> HIDE DEF adopter
<1>5. P \in [Nodes -> Nodes \cup {NoNode}]
  BY <1>3, <1>4
<1>6. ASSUME NEW m \in Left, P[m] # NoNode
      PROVE  P[m] \in Left /\ store.vault[P[m]] = store.vault[m]
  <2>1. m \in store.nodes /\ m \in Nodes
    BY <1>3
  <2>2. store.parent[m] # NoNode =>
           store.parent[m] \in store.nodes /\ store.vault[store.parent[m]] = store.vault[m]
    BY <1>2, <2>1 DEF Consistent
  <2>3. n # NoNode
    BY <1>3 DEF Nodes, NoNode
  <2> QED
    BY <1>4, <1>6, <2>1, <2>2, <2>3
<1>7. Left \subseteq store.nodes
  OBVIOUS
<1> HIDE DEF P, Left
<1>8. /\ store'.nodes = Left /\ store'.vault = store.vault /\ store'.parent = P
      /\ store'.policy = store.policy /\ store'.lock = store.lock
      /\ store'.history = store.history /\ store'.current = store.current
      /\ store' \in StoreType
  BY <1>1, <1>2, <1>5, <1>7 DEF StoreType
<1>9. Consistent(store')
  BY <1>2, <1>6, <1>7, <1>8 DEF Consistent
<1>10. Sound'
  BY <1>1, <1>2, <1>7, <1>8, <1>9 DEF Sound
<1>11. Held'
  BY <1>1, <1>2 DEF Held, Filed
<1>12. Going'
  BY <1>1, <1>2, <1>8, OthersGo
<1> QED
  BY <1>1, <1>10, <1>11, <1>12, NoTransferHolds DEF TransferInv

LEMMA MoveHolds ==
    ASSUME TransferInv, NEW n \in store.nodes, NEW p \in store.nodes \cup {NoNode}, MoveNode(n, p)
    PROVE  TransferInv'
<1> DEFINE stamped == IF p # NoNode /\ EffectivePolicy(store, p).ai_read = ExplicitOnly
                      THEN Below(store, n) ELSE {}
           U == [m \in Nodes |-> IF m = n THEN p ELSE store.parent[m]]
           P == [m \in Nodes |-> IF m \in stamped THEN Max2(store.policy[m], ExplicitOnly)
                                 ELSE store.policy[m]]
           L == [m \in Nodes |-> IF m \in stamped THEN Max2(store.lock[m], AiLocked)
                                 ELSE store.lock[m]]
<1>1. /\ store' = [store EXCEPT !.parent = U, !.policy = P, !.lock = L]
      /\ UNCHANGED <<issued, file, taken>> /\ last' = NoTransfer /\ Meanwhile
      /\ p # NoNode => store.vault[p] = store.vault[n]
  BY DEF MoveNode
<1>2. /\ Sound /\ Held /\ Going /\ store \in StoreType /\ Consistent(store)
  BY DEF TransferInv, Sound
<1>3. /\ store.policy \in [Nodes -> Allow..Deny] /\ store.lock \in [Nodes -> Open..HumanLocked]
      /\ store.nodes \subseteq Nodes /\ store.parent \in [Nodes -> Nodes \cup {NoNode}]
  BY <1>2, StoreFields
<1> HIDE DEF stamped
<1>4. /\ P \in [Nodes -> Allow..Deny] /\ L \in [Nodes -> Open..HumanLocked]
      /\ U \in [Nodes -> Nodes \cup {NoNode}]
  <2>1. \A m \in Nodes : P[m] \in Allow..Deny
    BY <1>3 DEF Max2, Allow, ExplicitOnly, Deny
  <2>2. \A m \in Nodes : L[m] \in Open..HumanLocked
    BY <1>3 DEF Max2, Open, AiLocked, HumanLocked
  <2>3. \A m \in Nodes : U[m] \in Nodes \cup {NoNode}
    BY <1>3
  <2> QED
    BY <2>1, <2>2, <2>3
<1>5. \A m \in store.nodes : P[m] # Allow => L[m] # Open
  <2> SUFFICES ASSUME NEW m \in store.nodes PROVE P[m] # Allow => L[m] # Open
    OBVIOUS
  <2>1. m \in Nodes /\ store.lock[m] \in Open..HumanLocked
    BY <1>3
  <2>2. store.policy[m] # Allow => store.lock[m] # Open
    BY <1>2 DEF Consistent
  <2> QED
    BY <2>1, <2>2 DEF Max2, Allow, Open, AiLocked, HumanLocked
<1>6. ASSUME NEW m \in store.nodes, U[m] # NoNode
      PROVE  U[m] \in store.nodes /\ store.vault[U[m]] = store.vault[m]
  <2>1. m \in Nodes
    BY <1>3
  <2>2. store.parent[m] # NoNode =>
           store.parent[m] \in store.nodes /\ store.vault[store.parent[m]] = store.vault[m]
    BY <1>2 DEF Consistent
  <2> QED
    BY <1>1, <1>6, <2>1, <2>2
<1> HIDE DEF U, P, L
<1>7. /\ store'.nodes = store.nodes /\ store'.vault = store.vault /\ store'.parent = U
      /\ store'.policy = P /\ store'.lock = L
      /\ store'.history = store.history /\ store'.current = store.current
      /\ store' \in StoreType
  BY <1>1, <1>2, <1>4 DEF StoreType
<1>8. Consistent(store')
  BY <1>2, <1>5, <1>6, <1>7 DEF Consistent
<1>9. Sound'
  BY <1>1, <1>2, <1>7, <1>8 DEF Sound
<1>10. Held'
  BY <1>1, <1>2 DEF Held, Filed
<1>11. Going'
  BY <1>1, <1>2, <1>7, OthersGo
<1> QED
  BY <1>1, <1>9, <1>10, <1>11, NoTransferHolds DEF TransferInv

LEMMA StepHolds == TransferInv /\ [TransferNext]_transferVars => TransferInv'
<1> SUFFICES ASSUME TransferInv, [TransferNext]_transferVars PROVE TransferInv'
  OBVIOUS
<1>1. ASSUME NEW u \in Vaults, ExportVault(u) PROVE TransferInv'
  BY <1>1, ExportHolds
<1>2. CASE ImportVault
  BY <1>2, ImportHolds
<1>3. ASSUME NEW n \in store.nodes, NEW u \in Vaults, NEW p \in store.nodes \cup {NoNode},
             NEW recursive \in BOOLEAN, NEW w \in {v \in Viewers : ~v.quarantined},
             BeginCopy(n, u, p, recursive, w)
      PROVE  TransferInv'
  BY <1>3, BeginHolds
<1>4. ASSUME NEW n \in store.nodes, NEW policy \in {Allow, ExplicitOnly, Deny},
             NEW lock \in {Open, AiLocked}, SetPolicy(n, policy, lock)
      PROVE  TransferInv'
  <2>1. policy \in Allow..Deny /\ lock \in Open..HumanLocked
    BY DEF Allow, ExplicitOnly, Deny, Open, AiLocked, HumanLocked
  <2> QED
    BY <1>4, <2>1, SetPolicyHolds
<1>5. ASSUME NEW n \in store.nodes, DeleteNode(n) PROVE TransferInv'
  BY <1>5, DeleteHolds
<1>6. ASSUME NEW n \in store.nodes, NEW p \in store.nodes \cup {NoNode}, MoveNode(n, p)
      PROVE  TransferInv'
  BY <1>6, MoveHolds
<1>7. CASE WalkCopy
  BY <1>7, WalkHolds
<1>8. CASE CommitCopy
  BY <1>8, CommitHolds
<1>9. CASE AbandonCopy
  BY <1>9, AbandonHolds
<1>10. CASE UNCHANGED transferVars
  <2>1. Going'
    BY <1>10, SameGoes DEF transferVars, TransferInv
  <2>2. Sound' = Sound /\ Held' = Held
    BY <1>10, Zenon DEF transferVars, Sound, Held, Filed
  <2>3. ImportIsTheVault'
    BY <1>10 DEF transferVars, TransferInv, ImportIsTheVault
  <2>4. CopyIsTheSubtree' = CopyIsTheSubtree
    BY <1>10, SMT DEF transferVars, CopyIsTheSubtree
  <2>5. CopyStaysClosed' = CopyStaysClosed
    BY <1>10, Zenon DEF transferVars, CopyStaysClosed
  <2> QED
    BY <2>1, <2>2, <2>3, <2>4, <2>5 DEF TransferInv
<1> QED
  BY <1>1, <1>2, <1>3, <1>4, <1>5, <1>6, <1>7, <1>8, <1>9, <1>10 DEF TransferNext

\* Whatever is imported, copied, deleted or protected, the tables stay what they
\* should be: a parent is in its child's vault, the current version is the newest,
\* what the AI may not freely read it may not write, and no id is given twice.  A
\* file remains an export of the vault it was written from.
THEOREM StoreStaysSound == TransferSpec => [](Sound /\ Held)
<1>1. TransferInv => Sound /\ Held
  BY DEF TransferInv
<1> QED
  BY <1>1, InitHolds, StepHolds, PTL DEF TransferSpec

\* import_vault makes of a file the vault that export_vault wrote: the same tree,
\* with all versions, links among the copies, the same policies, no lock weaker.
THEOREM ImportsAreTheVault == TransferSpec => []ImportIsTheVault
<1>1. TransferInv => ImportIsTheVault
  BY DEF TransferInv
<1> QED
  BY <1>1, InitHolds, StepHolds, PTL DEF TransferSpec

\* copy_node_to_vault, a walk of many statements, makes one tree under its
\* parent, with nothing that is withheld from who asks or that shows an image of
\* the vault; and of what nobody touches meanwhile, all that was asked for, once.
THEOREM CopiesAreTheSubtree == TransferSpec => []CopyIsTheSubtree
<1>1. TransferInv => CopyIsTheSubtree
  BY DEF TransferInv
<1> QED
  BY <1>1, InitHolds, StepHolds, PTL DEF TransferSpec

\* What copy_node_to_vault makes is as closed to an AI as the rows it was made
\* of, as its source was unless somebody has touched that meanwhile, and as the
\* place it was put, whose quarantine it bears itself if it stood at the start.
THEOREM CopiesStayClosed == TransferSpec => []CopyStaysClosed
<1>1. TransferInv => CopyStaysClosed
  BY DEF TransferInv
<1> QED
  BY <1>1, InitHolds, StepHolds, PTL DEF TransferSpec
===============================================================================
