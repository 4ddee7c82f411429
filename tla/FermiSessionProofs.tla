------------------------- MODULE FermiSessionProofs -------------------------
(***************************************************************************)
(* Theorems about a session that drives the Fermi kernel, for any requests *)
(* clients make, any budgets, any faults of the recording and any bounds.  *)
(*                                                                         *)
(* The tree of a state is rebuilt from the actions it records, so all that *)
(* holds of it holds because one action keeps it: StateOK says it of a     *)
(* state, and each action of the kernel keeps StateOK.  PlanHolds lifts it *)
(* to the session: its live actions are known requests that define one     *)
(* question at most, and the state is what they lead to (PlannedState).    *)
(* Depth, rendering and width are recursions over the nodes of a tree, and *)
(* RankedFixpoint says that they have a solution.                          *)
(*                                                                         *)
(* The last section is about the gates alone, for any interval, tolerance  *)
(* and callbacks.                                                          *)
(***************************************************************************)
EXTENDS FermiSession, AgentRuntimeProofs, SequenceTheorems

-----------------------------------------------------------------------------
(* Functions defined by recursion on a rank *)

IterationStart(c)           == c.start
IterationStep(c, n, before) == c.body[before]
Iterations == INSTANCE NatRecursion WITH Start <- IterationStart, Step <- IterationStep

\* Body computes the value at an argument from those at arguments of a lower rank.
IsRanked(D, S, Body, rank, N) ==
    /\ Body \in [[D -> S] -> [D -> S]] /\ rank \in [D -> Nat] /\ N \in Nat
    /\ \A x \in D : rank[x] < N
    /\ \A f, g \in [D -> S], x \in D :
           (\A y \in D : rank[y] < rank[x] => f[y] = g[y]) => Body[f][x] = Body[g][x]

(* A function whose value at each argument is computed from its values at  *)
(* arguments of a lower rank exists: computing all of its values anew, over *)
(* and over, settles those of rank k after k + 1 rounds.                    *)
LEMMA RankedFixpoint ==
    ASSUME NEW D, NEW S, NEW first \in [D -> S], NEW Body, NEW rank, NEW N,
           IsRanked(D, S, Body, rank, N)
    PROVE  \E f \in [D -> S] : f = Body[f]
  <1>r. /\ Body \in [[D -> S] -> [D -> S]] /\ rank \in [D -> Nat] /\ N \in Nat
        /\ \A x \in D : rank[x] < N
        /\ \A f, g \in [D -> S], x \in D :
               (\A y \in D : rank[y] < rank[x] => f[y] = g[y]) => Body[f][x] = Body[g][x]
    BY DEF IsRanked
  <1> DEFINE c == [start |-> first, body |-> Body]
  <1>1. PICK G : Iterations!IsRecursion(c, G)
    BY Iterations!RecursionExists
  <1>2. G[0] = first /\ \A k \in Nat : G[k + 1] = Body[G[k]]
    <2>1. \A k \in Nat : G[k] = IF k = 0 THEN first ELSE Body[G[k - 1]]
      BY <1>1 DEF Iterations!IsRecursion, Iterations!At, IterationStart, IterationStep
    <2>2. \A k \in Nat : k + 1 \in Nat /\ k + 1 # 0 /\ (k + 1) - 1 = k
      OBVIOUS
    <2>3. G[0] = first
      BY <2>1
    <2>4. ASSUME NEW k \in Nat PROVE G[k + 1] = Body[G[k]]
      <3>1. G[k + 1] = Body[G[(k + 1) - 1]]
        BY <2>1, <2>2
      <3> QED
        BY <2>2, <3>1
    <2> QED
      BY <2>3, <2>4
  <1> HIDE DEF c
  <1>3. \A k \in Nat : G[k] \in [D -> S]
    <2> DEFINE K == {k \in Nat : G[k] \in [D -> S]}
    <2>1. 0 \in K
      BY <1>2
    <2>2. \A k \in Nat : k \in K => k + 1 \in K
      BY <1>2, <1>r
    <2> HIDE DEF K
    <2>3. Nat \subseteq K
      BY <2>1, <2>2, Iterations!Induction
    <2> QED
      BY <2>3 DEF K
  <1>4. \A k \in Nat : \A x \in D : rank[x] < k => G[k][x] = G[k + 1][x]
    <2> DEFINE K == {k \in Nat : \A x \in D : rank[x] < k => G[k][x] = G[k + 1][x]}
    <2>1. 0 \in K
      BY <1>r
    <2>2. ASSUME NEW k \in Nat, k \in K PROVE k + 1 \in K
      <3>1. SUFFICES ASSUME NEW x \in D, rank[x] < k + 1
                     PROVE  G[k + 1][x] = G[(k + 1) + 1][x]
        OBVIOUS
      <3>2. \A y \in D : rank[y] < rank[x] => G[k][y] = G[k + 1][y]
        BY <1>r, <2>2, <3>1
      <3>3. G[k] \in [D -> S] /\ G[k + 1] \in [D -> S]
        BY <1>3
      <3>4. Body[G[k]][x] = Body[G[k + 1]][x]
        BY <1>r, <3>2, <3>3
      <3>5. G[k + 1] = Body[G[k]] /\ G[(k + 1) + 1] = Body[G[k + 1]]
        BY <1>2
      <3> QED
        BY <3>4, <3>5
    <2> HIDE DEF K
    <2>3. Nat \subseteq K
      BY <2>1, <2>2, Iterations!Induction
    <2> QED
      BY <2>3 DEF K
  <1>5. G[N] \in [D -> S] /\ G[N + 1] \in [D -> S] /\ G[N + 1] = Body[G[N]]
    BY <1>r, <1>2, <1>3
  <1>6. \A x \in D : G[N][x] = G[N + 1][x]
    BY <1>r, <1>4
  <1>7. G[N] = G[N + 1]
    BY <1>5, <1>6
  <1> QED
    BY <1>5, <1>7

-----------------------------------------------------------------------------
(* The depth of a tree *)

\* The nodes of a tree are numbered, and a parent comes before its children.
HasParents(t) ==
    /\ Len(t.nodes) \in Nat /\ NodesOf(t) = 1..Len(t.nodes) /\ Root \in NodesOf(t)
    /\ \A n \in NodesOf(t) : t.nodes[n].parent \in Nat /\ t.nodes[n].parent < n

\* The depths of a tree are what their recursion says.
LEMMA DepthsFacts ==
    ASSUME NEW t, HasParents(t)
    PROVE  /\ Depths(t)[0] = -1
           /\ \A n \in NodesOf(t) : /\ Depths(t)[n] \in Int
                                    /\ Depths(t)[n] = 1 + Depths(t)[t.nodes[n].parent]
                                    /\ Depths(t)[t.nodes[n].parent] \in Int
  <1> DEFINE D == 0..Len(t.nodes)
             At(f, n) == IF n = 0 THEN -1 ELSE 1 + f[t.nodes[n].parent]
             Body == [f \in [D -> Int] |-> [n \in D |-> At(f, n)]]
             Is(f) == f = [n \in D |-> At(f, n)]
             depths == Depths(t)
  <1>1. /\ Len(t.nodes) \in Nat /\ 0 \in D /\ NodesOf(t) = 1..Len(t.nodes)
        /\ \A n \in D : n = 0 \/ n \in NodesOf(t)
        /\ \A n \in NodesOf(t) : n \in D /\ n # 0 /\ t.nodes[n].parent \in D
                                 /\ t.nodes[n].parent < n
    BY DEF HasParents
  <1>2. \A f \in [D -> Int], n \in D : At(f, n) \in Int
    BY <1>1
  <1>3. \A f, g \in [D -> Int], n \in D : (\A m \in D : m < n => f[m] = g[m]) => At(f, n) = At(g, n)
    BY <1>1
  <1> HIDE DEF At
  <1>4. Body \in [[D -> Int] -> [D -> Int]]
    BY <1>2
  <1>5. \E f \in [D -> Int] : f = Body[f]
    <2> DEFINE rank == [n \in D |-> n]
               first == [n \in D |-> 0]
             N     == Len(t.nodes) + 1
    <2>1. /\ first \in [D -> Int] /\ rank \in [D -> Nat] /\ N \in Nat
          /\ \A n \in D : rank[n] = n
      BY <1>1
    <2>3. \A n \in D : rank[n] < N
      BY <1>1
    <2>2. \A f, g \in [D -> Int], n \in D :
              (\A m \in D : rank[m] < rank[n] => f[m] = g[m]) => Body[f][n] = Body[g][n]
      <3>1. SUFFICES ASSUME NEW f \in [D -> Int], NEW g \in [D -> Int], NEW n \in D,
                            \A m \in D : rank[m] < rank[n] => f[m] = g[m]
                     PROVE  Body[f][n] = Body[g][n]
        OBVIOUS
      <3>2. At(f, n) = At(g, n)
        BY <1>3, <2>1, <3>1
      <3> QED
        BY <3>2
    <2> HIDE DEF rank, first, Body, D, N
    <2>4. IsRanked(D, Int, Body, rank, N)
      BY <1>4, <2>1, <2>2, <2>3 DEF IsRanked
    <2> QED
      BY <2>1, <2>4, RankedFixpoint
  <1>6. PICK f \in [D -> Int] : Is(f)
    BY <1>5
  <1>7. Is(depths)
    BY <1>6 DEF Depths, At
  <1> HIDE DEF depths
  <1>8. depths[0] = -1 /\ \A n \in NodesOf(t) : depths[n] = 1 + depths[t.nodes[n].parent]
    BY <1>1, <1>7 DEF At
  <1>9. \A n \in D : depths[n] \in Int
    <2> DEFINE K == {k \in Nat : \A n \in D : n <= k => depths[n] \in Int}
    <2>1. 0 \in K
      BY <1>1, <1>8
    <2>2. ASSUME NEW k \in Nat, k \in K PROVE k + 1 \in K
      <3>1. SUFFICES ASSUME NEW n \in D, n <= k + 1 PROVE depths[n] \in Int
        OBVIOUS
      <3>2. CASE n = 0
        BY <1>8, <3>2
      <3>3. CASE n \in NodesOf(t)
        <4>1. t.nodes[n].parent \in D /\ t.nodes[n].parent < n
          BY <1>1, <3>3
        <4>2. t.nodes[n].parent <= k
          BY <3>1, <4>1
        <4> QED
          BY <1>8, <2>2, <3>3, <4>1, <4>2
      <3> QED
        BY <1>1, <3>1, <3>2, <3>3
    <2> HIDE DEF K
    <2>3. Nat \subseteq K
      BY <2>1, <2>2, Iterations!Induction
    <2>4. Len(t.nodes) \in K
      BY <1>1, <2>3
    <2> QED
      BY <1>1, <2>4 DEF K
  <1>10. \A n \in NodesOf(t) : depths[n] \in Int /\ depths[t.nodes[n].parent] \in Int
    BY <1>1, <1>9
  <1> QED
    BY <1>8, <1>10 DEF depths

\* Of finitely many integers one is the largest.
LEMMA LargestExists ==
    ASSUME NEW f, NEW N \in Nat \ {0}, \A i \in 1..N : f[i] \in Int
    PROVE  \E i \in 1..N : \A j \in 1..N : f[j] <= f[i]
  <1> DEFINE K == {k \in Nat : k < N => \E i \in 1..(k + 1) : \A j \in 1..(k + 1) : f[j] <= f[i]}
  <1>1. 0 \in K
    <2>1. 1..(0 + 1) = {1} /\ 1 \in 1..N
      OBVIOUS
    <2>2. f[1] <= f[1]
      BY <2>1
    <2> QED
      BY <2>1, <2>2
  <1>2. ASSUME NEW k \in Nat, k \in K PROVE k + 1 \in K
    <2>1. SUFFICES ASSUME k + 1 < N
                   PROVE  \E i \in 1..((k + 1) + 1) : \A j \in 1..((k + 1) + 1) : f[j] <= f[i]
      OBVIOUS
    <2>2. PICK i \in 1..(k + 1) : \A j \in 1..(k + 1) : f[j] <= f[i]
      BY <1>2, <2>1
    <2> DEFINE m == (k + 1) + 1
    <2>3. /\ m \in 1..m /\ i \in 1..m /\ m \in 1..N /\ i \in 1..N
          /\ \A j \in 1..m : j \in 1..N /\ (j = m \/ j \in 1..(k + 1))
      BY <2>1
    <2>4. f[m] \in Int /\ f[i] \in Int /\ \A j \in 1..m : f[j] \in Int
      BY <2>3
    <2> HIDE DEF m
    <2>5. CASE f[m] <= f[i]
      BY <2>2, <2>3, <2>5 DEF m
    <2>6. CASE f[i] <= f[m]
      <3>1. \A j \in 1..m : f[j] <= f[m]
        BY <2>2, <2>3, <2>4, <2>6
      <3> QED
        BY <2>3, <3>1 DEF m
    <2> QED
      BY <2>4, <2>5, <2>6
  <1> HIDE DEF K
  <1>3. Nat \subseteq K
    BY <1>1, <1>2, Iterations!Induction
  <1>4. N - 1 \in Nat /\ N - 1 < N /\ (N - 1) + 1 = N
    OBVIOUS
  <1>5. N - 1 \in K
    BY <1>3, <1>4
  <1> QED
    BY <1>4, <1>5 DEF K

\* The depth of a tree is that of its deepest node.
LEMMA DepthIs ==
    ASSUME NEW t, HasParents(t)
    PROVE  /\ Depth(t) \in Int
           /\ \A n \in NodesOf(t) : Depths(t)[n] <= Depth(t)
           /\ \E n \in NodesOf(t) : Depth(t) = Depths(t)[n]
  <1> DEFINE depth == Depths(t)
  <1>1. \A n \in NodesOf(t) : depth[n] \in Int
    BY DepthsFacts
  <1>2. NodesOf(t) = 1..Len(t.nodes) /\ Len(t.nodes) \in Nat \ {0}
    BY DEF HasParents, Root
  <1> HIDE DEF depth
  <1>3. \E i \in NodesOf(t) : \A j \in NodesOf(t) : depth[j] <= depth[i]
    BY <1>1, <1>2, LargestExists
  <1>4. Depth(t) = CHOOSE d \in {depth[n] : n \in NodesOf(t)} : \A n \in NodesOf(t) : depth[n] <= d
    BY DEF Depth, depth
  <1>5. /\ Depth(t) \in {depth[n] : n \in NodesOf(t)}
        /\ \A n \in NodesOf(t) : depth[n] <= Depth(t)
    BY <1>3, <1>4
  <1> QED
    BY <1>1, <1>5 DEF depth

\* Nodes below nodes that were there make a tree deeper by at most one, and none
\* does not make it deeper.
LEMMA DepthGrows ==
    ASSUME NEW t, HasParents(t), NEW u, HasParents(u), NodesOf(t) \subseteq NodesOf(u),
           \A n \in NodesOf(t) : u.nodes[n].parent = t.nodes[n].parent,
           \A n \in NodesOf(u) \ NodesOf(t) : u.nodes[n].parent \in NodesOf(t)
    PROVE  /\ Depth(u) <= Depth(t) + 1
           /\ NodesOf(u) = NodesOf(t) => Depth(u) <= Depth(t)
           /\ Depth(t) \in Int /\ Depth(u) \in Int
  <1> DEFINE K == {k \in Nat : \A n \in NodesOf(t) : n <= k => Depths(u)[n] = Depths(t)[n]}
  <1>1. 0 \in K
    BY DEF HasParents
  <1>2. ASSUME NEW k \in Nat, k \in K PROVE k + 1 \in K
    <2>1. SUFFICES ASSUME NEW n \in NodesOf(t), n <= k + 1 PROVE Depths(u)[n] = Depths(t)[n]
      OBVIOUS
    <2> DEFINE p == t.nodes[n].parent
    <2>2. /\ p \in Nat /\ p < n /\ (p = 0 \/ (p \in NodesOf(t) /\ p <= k))
          /\ n \in NodesOf(u) /\ u.nodes[n].parent = p
      BY <2>1 DEF HasParents
    <2>3. Depths(u)[p] = Depths(t)[p]
      BY <1>2, <2>2, DepthsFacts
    <2>4. Depths(t)[n] = 1 + Depths(t)[p] /\ Depths(u)[n] = 1 + Depths(u)[p]
      BY <2>1, <2>2, DepthsFacts
    <2> QED
      BY <2>3, <2>4
  <1> HIDE DEF K
  <1>3. Nat \subseteq K
    BY <1>1, <1>2, Iterations!Induction
  <1>4. \A n \in NodesOf(t) : Depths(u)[n] = Depths(t)[n]
    BY <1>3 DEF K, HasParents
  <1>5. Depth(t) \in Int /\ Depth(u) \in Int /\ \A n \in NodesOf(t) : Depths(t)[n] <= Depth(t)
    BY DepthIs
  <1>6. PICK n \in NodesOf(u) : Depth(u) = Depths(u)[n]
    BY DepthIs
  <1>7. CASE n \in NodesOf(t)
    BY <1>4, <1>5, <1>6, <1>7, DepthsFacts
  <1>8. CASE n \notin NodesOf(t)
    <2>1. u.nodes[n].parent \in NodesOf(t)
      BY <1>6, <1>8
    <2>2. Depths(u)[n] = 1 + Depths(t)[u.nodes[n].parent]
      BY <1>4, <1>6, <2>1, DepthsFacts
    <2>3. Depths(t)[u.nodes[n].parent] \in Int /\ Depths(t)[u.nodes[n].parent] <= Depth(t)
      BY <1>5, <2>1, DepthsFacts
    <2> QED
      BY <1>5, <1>6, <1>8, <2>2, <2>3
  <1> QED
    BY <1>7, <1>8

-----------------------------------------------------------------------------
(* Trees that grow *)

\* Of some natural numbers one is the least.
LEMMA LeastExists ==
    ASSUME NEW S \in SUBSET Nat, S # {}
    PROVE  FirstOf(S) \in S /\ \A m \in S : FirstOf(S) <= m
  <1> DEFINE HasLeast == \E m \in S : \A k \in S : m <= k
             K == {k \in Nat : (\E m \in S : m <= k) => HasLeast}
  <1> HIDE DEF HasLeast
  <1>1. 0 \in K
    <2>1. \A m \in S : m <= 0 => \A k \in S : m <= k
      OBVIOUS
    <2> QED
      BY <2>1 DEF HasLeast
  <1>2. ASSUME NEW k \in Nat, k \in K PROVE k + 1 \in K
    <2>1. SUFFICES ASSUME NEW m \in S, m <= k + 1 PROVE HasLeast
      OBVIOUS
    <2>2. CASE \E j \in S : j <= k
      BY <1>2, <2>2
    <2>3. CASE \A j \in S : ~(j <= k)
      <3>1. \A j \in S : m <= j
        BY <2>1, <2>3
      <3> QED
        BY <3>1 DEF HasLeast
    <2> QED
      BY <2>2, <2>3
  <1> HIDE DEF K
  <1>3. Nat \subseteq K
    BY <1>1, <1>2, Iterations!Induction
  <1>4. HasLeast
    <2>1. PICK m \in S : TRUE
      OBVIOUS
    <2>2. m \in K /\ m <= m
      BY <1>3, <2>1
    <2> QED
      BY <2>1, <2>2 DEF K
  <1> QED
    BY <1>4 DEF HasLeast, FirstOf

\* What a kernel that only rebuilds from recorded actions keeps of its tree.
WellFormed(t) ==
    /\ t \in Trees /\ HasParents(t)
    /\ 1 \in DOMAIN t.branches
    /\ \A n \in NodesOf(t) : t.nodes[n].status \in {"open", "expanded", "atomic_leaf"}
    /\ \A e \in DOMAIN t.expansions :
          /\ t.expansions[e].target \in NodesOf(t)
          /\ \A c \in Range(t.expansions[e].children) :
                c \in NodesOf(t) /\ t.expansions[e].target < c
    /\ Endorsed(t) \subseteq DOMAIN t.expansions
    /\ \A e, f \in Endorsed(t) : t.expansions[e].target = t.expansions[f].target => e = f
    /\ \A e \in Endorsed(t) : ~t.expansions[e].redundant

\* u has the nodes of t, and possibly children of them.
Extends(u, t) ==
    /\ NodesOf(t) \subseteq NodesOf(u)
    /\ \A n \in NodesOf(t) : u.nodes[n].parent = t.nodes[n].parent
    /\ \A n \in NodesOf(u) \ NodesOf(t) : u.nodes[n].parent \in NodesOf(t)

KidsOf(n, specs) ==
    [i \in DOMAIN specs |-> [parent |-> n, label |-> specs[i].label, unit |-> specs[i].unit,
                             status |-> "open"]]
WithKids(t, n, specs)   == t.nodes \o KidsOf(n, specs)
GrownNodes(t, n, specs) == [WithKids(t, n, specs) EXCEPT ![n].status = "expanded"]
GrownExpansion(t, n, r, alt, redundant) ==
    [target |-> n, unit |-> r.unit, form |-> r.form,
     children |-> [i \in DOMAIN r.children |-> Len(t.nodes) + i],
     alternativeOf |-> alt, redundant |-> redundant]
Added(s, x) == Append(s, x)
GrownBranches(t, alt) ==
    IF alt # 0 THEN Added(t.branches, Added(t.branches[1], Len(t.expansions) + 1))
    ELSE [t.branches EXCEPT ![1] = Added(t.branches[1], Len(t.expansions) + 1)]
TreeOf(nodes, expansions, branches, gaps, question) ==
    [nodes |-> nodes, expansions |-> expansions, branches |-> branches, gaps |-> gaps,
     question |-> question]
Grown(t, n, r, alt, redundant) ==
    TreeOf(GrownNodes(t, n, r.children),
           Added(t.expansions, GrownExpansion(t, n, r, alt, redundant)),
           GrownBranches(t, alt), t.gaps, t.question)

\* Updating one part of a tree leaves the others.
LEMMA TreeParts ==
    ASSUME NEW a, NEW b, NEW c, NEW d, NEW q
    PROVE  LET t == TreeOf(a, b, c, d, q)
           IN  t.nodes = a /\ t.expansions = b /\ t.branches = c /\ t.gaps = d /\ t.question = q
  BY DEF TreeOf

LEMMA NodesUpdate ==
    ASSUME NEW a, NEW b, NEW c, NEW d, NEW q, NEW x
    PROVE  [TreeOf(a, b, c, d, q) EXCEPT !.nodes = x] = TreeOf(x, b, c, d, q)
  BY DEF TreeOf

LEMMA BranchesUpdate ==
    ASSUME NEW a, NEW b, NEW c, NEW d, NEW q, NEW x
    PROVE  [TreeOf(a, b, c, d, q) EXCEPT !.branches = x] = TreeOf(a, b, x, d, q)
  BY DEF TreeOf

LEMMA FirstBranchUpdate ==
    ASSUME NEW a, NEW b, NEW c, NEW d, NEW q, NEW x
    PROVE  [TreeOf(a, b, c, d, q) EXCEPT !.branches[1] = x]
             = TreeOf(a, b, [c EXCEPT ![1] = x], d, q)
  BY DEF TreeOf

LEMMA GapsUpdate ==
    ASSUME NEW a, NEW b, NEW c, NEW d, NEW q, NEW x
    PROVE  [TreeOf(a, b, c, d, q) EXCEPT !.gaps = x] = TreeOf(a, b, c, x, q)
  BY DEF TreeOf

Expanding(t, x, i) == [t EXCEPT !.expansions = x, !.nodes[i].status = "expanded"]

LEMMA ExpansionUpdate ==
    ASSUME NEW a, NEW b, NEW c, NEW d, NEW q, NEW x, NEW i
    PROVE  Expanding(TreeOf(a, b, c, d, q), x, i)
             = TreeOf([a EXCEPT ![i].status = "expanded"], x, c, d, q)
  <1> DEFINE T == TreeOf(a, b, c, d, q)
             m == TreeOf(a, x, c, d, q)
             y == [a EXCEPT ![i] = [a[i] EXCEPT !.status = "expanded"]]
  <1>1. [T EXCEPT !.expansions = x] = m
    BY DEF TreeOf
  <1>2. [m EXCEPT !.nodes = y] = TreeOf(y, x, c, d, q)
    BY DEF TreeOf
  <1>3. [a EXCEPT ![i].status = "expanded"] = y
    OBVIOUS
  <1>4. Expanding(T, x, i) = [[T EXCEPT !.expansions = x] EXCEPT !.nodes[i].status = "expanded"]
    BY DEF Expanding
  <1>5. m.nodes = a
    BY TreeParts
  <1>6. [m EXCEPT !.nodes[i].status = "expanded"] = [m EXCEPT !.nodes = y]
    BY <1>5
  <1> QED
    BY <1>1, <1>2, <1>3, <1>4, <1>6

\* An expansion that is possible and has the right unit grows the tree.
LEMMA ExpandIs ==
    ASSUME NEW t \in Trees, NEW n, NEW r, NEW alt, NEW redundant,
           expand(t, n, r, alt, redundant) # Failed, r.unit = r.yields
    PROVE  /\ expand(t, n, r, alt, redundant) = Grown(t, n, r, alt, redundant)
           /\ n \in NodesOf(t)
  <1> DEFINE grown == attach_to_branch(materialise_children(t, n, r.children),
                                       Len(t.expansions) + 1, alt # 0)
             x == GrownExpansion(t, n, r, alt, redundant)
  <1>1. PICK a, b, c, d, q : t = TreeOf(a, b, c, d, q)
    BY DEF Trees, TreeOf
  <1>2. t.nodes = a /\ t.expansions = b /\ t.branches = c /\ t.gaps = d /\ t.question = q
    BY <1>1, TreeParts
  <1>3. materialise_children(t, n, r.children)
          = TreeOf(WithKids(t, n, r.children), b, c, d, q)
    <2>1. materialise_children(t, n, r.children) = [t EXCEPT !.nodes = WithKids(t, n, r.children)]
      BY DEF materialise_children, WithKids, KidsOf
    <2> QED
      BY <1>1, <1>2, <2>1, NodesUpdate
  <1>4. grown = TreeOf(WithKids(t, n, r.children), b, GrownBranches(t, alt), d, q)
    <2> DEFINE m == materialise_children(t, n, r.children)
               e == Len(t.expansions) + 1
    <2>1. m.branches = c /\ current_branch(m) = c[1]
      BY <1>3, TreeParts DEF current_branch
    <2> DEFINE W == WithKids(t, n, r.children)
               more == Added(c, Added(c[1], e))
               first == Added(c[1], e)
    <2>m. m = TreeOf(W, b, c, d, q)
      BY <1>3
    <2>4. alt # 0 => grown = [m EXCEPT !.branches = more]
      BY <2>1 DEF attach_to_branch, Added
    <2>5. alt = 0 => grown = [m EXCEPT !.branches[1] = first]
      BY <2>1 DEF attach_to_branch, Added
    <2>6. GrownBranches(t, alt) = IF alt # 0 THEN more ELSE [c EXCEPT ![1] = first]
      BY <1>2 DEF GrownBranches
    <2> HIDE DEF m, more, first, W, grown
    <2>7. /\ [m EXCEPT !.branches = more] = TreeOf(W, b, more, d, q)
          /\ [m EXCEPT !.branches[1] = first] = TreeOf(W, b, [c EXCEPT ![1] = first], d, q)
      BY <2>m, BranchesUpdate, FirstBranchUpdate
    <2>2. CASE alt # 0
      BY <2>2, <2>4, <2>6, <2>7 DEF W
    <2>3. CASE alt = 0
      BY <2>3, <2>5, <2>6, <2>7 DEF W
    <2> QED
      BY <2>2, <2>3
  <1> HIDE DEF grown
  <1>6. [grown EXCEPT !.expansions = Append(@, x), !.nodes[n].status = "expanded"]
          = Grown(t, n, r, alt, redundant)
    <2>1. grown.expansions = b
      BY <1>4, TreeParts
    <2>2. [grown EXCEPT !.expansions = Append(@, x), !.nodes[n].status = "expanded"]
            = Expanding(grown, Added(b, x), n)
      BY <2>1 DEF Added, Expanding
    <2> DEFINE W == WithKids(t, n, r.children)
               B == GrownBranches(t, alt)
               X == Added(b, x)
    <2>3. Grown(t, n, r, alt, redundant) = TreeOf([W EXCEPT ![n].status = "expanded"], X, B, d, q)
      BY <1>2 DEF Grown, GrownNodes
    <2>4. grown = TreeOf(W, b, B, d, q)
      BY <1>4
    <2> HIDE DEF W, B, X
    <2>5. Expanding(TreeOf(W, b, B, d, q), X, n)
             = TreeOf([W EXCEPT ![n].status = "expanded"], X, B, d, q)
      BY ExpansionUpdate
    <2> QED
      BY <2>2, <2>3, <2>4, <2>5 DEF X
  <1>5. /\ ensure_expandable(t, n)
        /\ expand(t, n, r, alt, redundant)
             = [grown EXCEPT !.expansions = Append(@, x), !.nodes[n].status = "expanded"]
    BY DEF expand, grown, GrownExpansion
  <1> QED
    BY <1>5, <1>6 DEF ensure_expandable

\* The sequence u is s and one more element, x.
IsLonger(u, s, x, S) ==
    /\ u \in Seq(S)
    /\ DOMAIN s = 1..Len(s) /\ Len(s) \in Nat
    /\ Len(u) = Len(s) + 1
    /\ DOMAIN u = 1..(Len(s) + 1)
    /\ \A i \in DOMAIN s : u[i] = s[i]
    /\ u[Len(s) + 1] = x

\* The sequence with one more element is that.
LEMMA AddedFacts ==
    ASSUME NEW S, NEW s \in Seq(S), NEW x \in S
    PROVE  IsLonger(Added(s, x), s, x, S)
  <1>1. DOMAIN s = 1..Len(s) /\ Len(s) \in Nat
    BY LenProperties
  <1>2. /\ Added(s, x) \in Seq(S) /\ Len(Added(s, x)) = Len(s) + 1
        /\ \A i \in 1..Len(s) : Added(s, x)[i] = s[i]
        /\ Added(s, x)[Len(s) + 1] = x
    BY AppendProperties DEF Added
  <1>3. DOMAIN Added(s, x) = 1..(Len(s) + 1)
    BY <1>2, LenProperties
  <1> QED
    BY <1>1, <1>2, <1>3 DEF IsLonger

\* The nodes are those t had and, last, those that the relation adds below n.
NodesGrow(nodes, t, n, r) ==
    LET N == Len(t.nodes)
        K == Len(r.children)
    IN  /\ nodes \in Seq(Nodes) /\ N \in Nat /\ K \in Nat
        /\ NodesOf(t) = 1..N /\ Len(nodes) = N + K
        /\ DOMAIN nodes = 1..(N + K)
        /\ \A k \in 1..N : /\ nodes[k].parent = t.nodes[k].parent
                           /\ nodes[k].status \in {"expanded", t.nodes[k].status}
        /\ \A k \in (N + 1)..(N + K) : nodes[k].parent = n /\ nodes[k].status = "open"

\* The nodes of a grown tree are those it had, the expanded one marked, and the
\* children of that one.
LEMMA GrownNodesFacts ==
    ASSUME NEW t, WellFormed(t), NEW n \in NodesOf(t), NEW r \in Relations
    PROVE  NodesGrow(GrownNodes(t, n, r.children), t, n, r)
  <1> DEFINE kids == KidsOf(n, r.children)
             w == WithKids(t, n, r.children)
             K == Len(r.children)
             N == Len(t.nodes)
             marked == [w[n] EXCEPT !.status = "expanded"]
  <1>1. /\ t.nodes \in Seq(Nodes) /\ N \in Nat /\ NodesOf(t) = 1..N
        /\ r.children \in Seq([label : STRING, unit : STRING])
    BY DEF WellFormed, HasParents, Trees, Relations
  <1>2. K \in Nat /\ DOMAIN r.children = 1..K
    BY <1>1, LenProperties
  <1>3. /\ kids \in Seq(Nodes) /\ Len(kids) = K
        /\ \A i \in 1..K : kids[i].parent = n /\ kids[i].status = "open"
    <2>1. \A i \in 1..K : r.children[i] \in [label : STRING, unit : STRING]
      BY <1>1, <1>2, ElementOfSeq
    <2>2. n \in Nat
      BY <1>1
    <2>3. kids \in [1..K -> Nodes]
      BY <1>2, <2>1, <2>2 DEF KidsOf, Nodes
    <2>4. \A i \in 1..K : kids[i].parent = n /\ kids[i].status = "open"
      BY <1>2 DEF KidsOf
    <2> HIDE DEF kids
    <2> QED
      BY <1>2, <2>3, <2>4
  <1> HIDE DEF kids
  <1>4. /\ w \in Seq(Nodes) /\ Len(w) = N + K
        /\ \A i \in 1..(N + K) : w[i] = IF i <= N THEN t.nodes[i] ELSE kids[i - N]
    <2>1. w = t.nodes \o kids
      BY DEF WithKids, kids
    <2> DEFINE s == t.nodes
    <2>2. s \in Seq(Nodes) /\ Len(s) = N
      BY <1>1
    <2> HIDE DEF s, N, K
    <2>3. /\ s \o kids \in Seq(Nodes) /\ Len(s \o kids) = Len(s) + Len(kids)
          /\ \A i \in 1..(Len(s) + Len(kids)) :
                 (s \o kids)[i] = IF i <= Len(s) THEN s[i] ELSE kids[i - Len(s)]
      BY <1>3, <2>2, ConcatProperties
    <2> QED
      BY <1>3, <2>1, <2>2, <2>3 DEF s
  <1> HIDE DEF w
  <1> HIDE DEF N, K
  <1>5. n \in 1..Len(w) /\ w[n] \in Nodes
    <2>1. n \in 1..Len(w)
      BY <1>1, <1>2, <1>4
    <2> QED
      BY <1>4, <2>1, ElementOfSeq
  <1>6. marked \in Nodes /\ marked.status = "expanded" /\ marked.parent = w[n].parent
    BY <1>5 DEF Nodes
  <1> HIDE DEF marked
  <1>7. /\ [w EXCEPT ![n] = marked] \in Seq(Nodes)
        /\ Len([w EXCEPT ![n] = marked]) = N + K
        /\ \A j \in 1..(N + K) : [w EXCEPT ![n] = marked][j] = IF j = n THEN marked ELSE w[j]
    BY <1>4, <1>5, <1>6, ExceptSeq
  <1>8. GrownNodes(t, n, r.children) = [w EXCEPT ![n] = marked]
    BY DEF GrownNodes, w, marked
  <1> DEFINE nodes == GrownNodes(t, n, r.children)
  <1> HIDE DEF nodes, K, N
  <1>9. /\ nodes \in Seq(Nodes) /\ Len(nodes) = N + K
        /\ \A j \in 1..(N + K) : nodes[j] = IF j = n THEN marked ELSE w[j]
    BY <1>7, <1>8 DEF nodes
  <1>10. DOMAIN nodes = 1..(N + K)
    BY <1>9, LenProperties
  <1>11. ASSUME NEW k \in 1..N
         PROVE  nodes[k].parent = t.nodes[k].parent /\ nodes[k].status \in {"expanded", t.nodes[k].status}
    <2>1. k \in 1..(N + K) /\ k <= N
      BY <1>1, <1>2
    <2>2. w[k] = t.nodes[k]
      BY <1>4, <2>1
    <2> QED
      BY <1>6, <1>9, <2>1, <2>2
  <1>12. ASSUME NEW k \in (N + 1)..(N + K)
         PROVE  nodes[k].parent = n /\ nodes[k].status = "open"
    <2>1. k \in 1..(N + K) /\ ~(k <= N) /\ k # n /\ k - N \in 1..K
      BY <1>1, <1>2
    <2>2. w[k] = kids[k - N]
      BY <1>4, <2>1
    <2> QED
      BY <1>3, <1>9, <2>1, <2>2
  <1> QED
    BY <1>1, <1>2, <1>9, <1>10, <1>11, <1>12 DEF NodesGrow, nodes, N, K

\* The expansion is one of n, by r, into the nodes that come last.
ExpansionFits(x, t, n, r, redundant) ==
    /\ x \in Expansions /\ x.target = n /\ x.redundant = redundant
    /\ \A c \in Range(x.children) :
          n < c /\ c \in (Len(t.nodes) + 1)..(Len(t.nodes) + Len(r.children))

\* The expansion added names the nodes added, which come after the one expanded.
LEMMA GrownExpansionFacts ==
    ASSUME NEW t, WellFormed(t), NEW n \in NodesOf(t), NEW r \in Relations, NEW alt \in Nat,
           NEW redundant \in BOOLEAN
    PROVE  ExpansionFits(GrownExpansion(t, n, r, alt, redundant), t, n, r, redundant)
  <1> DEFINE x == GrownExpansion(t, n, r, alt, redundant)
             K == Len(r.children)
             N == Len(t.nodes)
             numbers == [i \in DOMAIN r.children |-> N + i]
  <1>1. N \in Nat /\ n \in 1..N
    BY DEF WellFormed, HasParents
  <1>2. r.children \in Seq([label : STRING, unit : STRING]) /\ r.unit \in STRING /\ r.form \in STRING
    BY DEF Relations
  <1>3. K \in Nat /\ DOMAIN r.children = 1..K
    BY <1>2, LenProperties
  <1> HIDE DEF K, N
  <1>4. numbers \in Seq(Nat) /\ Range(numbers) = {N + i : i \in 1..K}
    <2>1. numbers \in [1..K -> Nat]
      BY <1>1, <1>3
    <2> QED
      BY <1>3, <2>1 DEF Range
  <1> HIDE DEF numbers
  <1>5. x = [target |-> n, unit |-> r.unit, form |-> r.form, children |-> numbers,
             alternativeOf |-> alt, redundant |-> redundant]
    BY DEF GrownExpansion, numbers, N
  <1>6. n \in Nat
    BY <1>1
  <1> HIDE DEF x
  <1>7. x \in Expansions /\ x.target = n /\ x.redundant = redundant /\ x.children = numbers
    BY <1>2, <1>4, <1>5, <1>6 DEF Expansions
  <1>8. \A c \in {N + i : i \in 1..K} : n < c /\ c \in (N + 1)..(N + K)
    BY <1>1, <1>3
  <1> QED
    BY <1>4, <1>7, <1>8 DEF ExpansionFits, x, N, K

\* The branches of a grown tree: an alternative leaves the current one alone, any
\* other expansion is added to it.
LEMMA GrownBranchesFacts ==
    ASSUME NEW t, WellFormed(t), NEW alt \in Nat
    PROVE  LET branches == GrownBranches(t, alt)
           IN  /\ branches \in Seq(Seq(Nat)) /\ 1 \in DOMAIN branches
               /\ alt # 0 => Range(branches[1]) = Endorsed(t)
               /\ alt = 0 => Range(branches[1]) = Endorsed(t) \cup {Len(t.expansions) + 1}
  <1> DEFINE e == Len(t.expansions) + 1
             first == Added(t.branches[1], e)
             branches == GrownBranches(t, alt)
  <1>1. /\ t.branches \in Seq(Seq(Nat)) /\ 1 \in DOMAIN t.branches
        /\ Len(t.expansions) \in Nat /\ Endorsed(t) = Range(t.branches[1])
    <2>1. t.expansions \in Seq(Expansions) /\ t.branches \in Seq(Seq(Nat)) /\ 1 \in DOMAIN t.branches
      BY DEF WellFormed, Trees
    <2> QED
      BY <2>1, LenProperties DEF Endorsed, current_branch
  <1>2. DOMAIN t.branches = 1..Len(t.branches) /\ 1 \in 1..Len(t.branches) /\ t.branches[1] \in Seq(Nat)
    BY <1>1, LenProperties, ElementOfSeq
  <1>3. e \in Nat
    BY <1>1
  <1> HIDE DEF e
  <1>4. /\ first \in Seq(Nat)
        /\ DOMAIN t.branches[1] = 1..Len(t.branches[1]) /\ Len(t.branches[1]) \in Nat
        /\ DOMAIN first = 1..(Len(t.branches[1]) + 1)
        /\ \A i \in DOMAIN t.branches[1] : first[i] = t.branches[1][i]
        /\ first[Len(t.branches[1]) + 1] = e
    <2> DEFINE b == t.branches[1]
               S == Nat
    <2>1. b \in Seq(S) /\ e \in S /\ first = Added(b, e)
      BY <1>2, <1>3
    <2> HIDE DEF b, S, first
    <2>2. IsLonger(Added(b, e), b, e, S)
      BY <2>1, AddedFacts
    <2>3. IsLonger(first, b, e, S)
      BY <2>1, <2>2
    <2> QED
      BY <2>3 DEF b, S, IsLonger
  <1> HIDE DEF first
  <1>5. Range(first) = Range(t.branches[1]) \cup {e}
    <2> DEFINE b == t.branches[1]
    <2>1. /\ DOMAIN first = DOMAIN b \cup {Len(b) + 1} /\ first[Len(b) + 1] = e
          /\ \A i \in DOMAIN b : first[i] = b[i]
      BY <1>4
    <2> HIDE DEF b
    <2>2. Range(first) = Range(b) \cup {e}
      BY <2>1 DEF Range
    <2> QED
      BY <2>2 DEF b
  <1>6. CASE alt # 0
    <2>1. branches = Added(t.branches, first)
      BY <1>6 DEF GrownBranches, first, e
    <2>2. branches \in Seq(Seq(Nat)) /\ 1 \in DOMAIN branches /\ branches[1] = t.branches[1]
      <3> DEFINE bs == t.branches
                 S == Seq(Nat)
      <3>1. bs \in Seq(S) /\ 1 \in DOMAIN bs /\ first \in S /\ branches = Added(bs, first)
        BY <1>1, <1>4, <2>1
      <3> HIDE DEF bs, branches, S
      <3>2. IsLonger(Added(bs, first), bs, first, S)
        BY <3>1, AddedFacts
      <3>3. IsLonger(branches, bs, first, S)
        BY <3>1, <3>2
      <3>4. branches \in Seq(S) /\ 1 \in DOMAIN branches /\ branches[1] = bs[1]
        BY <3>1, <3>3 DEF IsLonger
      <3> QED
        BY <3>4 DEF bs, S
    <2> HIDE DEF branches
    <2> QED
      BY <1>1, <1>6, <2>2 DEF branches
  <1>7. CASE alt = 0
    <2>1. branches = [t.branches EXCEPT ![1] = first]
      BY <1>7 DEF GrownBranches, first, e
    <2>2. /\ [t.branches EXCEPT ![1] = first] \in Seq(Seq(Nat))
          /\ Len([t.branches EXCEPT ![1] = first]) = Len(t.branches)
          /\ [t.branches EXCEPT ![1] = first][1] = first
      BY <1>1, <1>2, <1>4, ExceptSeq
    <2>3. branches \in Seq(Seq(Nat)) /\ 1 \in DOMAIN branches /\ branches[1] = first
      BY <1>2, <2>1, <2>2, LenProperties
    <2> HIDE DEF branches
    <2> QED
      BY <1>1, <1>5, <1>7, <2>3 DEF branches, e
  <1> QED
    BY <1>6, <1>7

\* What a tree becomes when it is extended: nothing that holds of a well-formed
\* tree is lost.
GrowsFrom(u, t) ==
    WellFormed(u) /\ Extends(u, t) /\ Len(u.expansions) = Len(t.expansions) + 1

\* A possible expansion of a node that no endorsed expansion has, or one that
\* competes with another, grows the tree into a well-formed one.
LEMMA GrownIsWellFormed ==
    ASSUME NEW t, WellFormed(t), NEW n \in NodesOf(t), NEW r \in Relations, NEW alt \in Nat,
           NEW redundant \in BOOLEAN, redundant => alt # 0,
           alt = 0 => expansions_at(t, n) \cap Endorsed(t) = {}
    PROVE  GrowsFrom(Grown(t, n, r, alt, redundant), t)
  <1> DEFINE u == Grown(t, n, r, alt, redundant)
             x == GrownExpansion(t, n, r, alt, redundant)
             nodes == GrownNodes(t, n, r.children)
             expansions == Added(t.expansions, x)
             branches == GrownBranches(t, alt)
             N == Len(t.nodes)
             K == Len(r.children)
             M == Len(t.expansions)
             E == t.expansions
  <1>1. u = TreeOf(nodes, expansions, branches, t.gaps, t.question)
    BY DEF Grown
  <1>2. /\ u.nodes = nodes /\ u.expansions = expansions /\ u.branches = branches
        /\ u.gaps = t.gaps /\ u.question = t.question
    BY <1>1, TreeParts
  <1>3. /\ nodes \in Seq(Nodes) /\ N \in Nat /\ K \in Nat
        /\ NodesOf(t) = 1..N /\ Len(nodes) = N + K
        /\ DOMAIN nodes = 1..(N + K)
        /\ \A k \in 1..N : /\ nodes[k].parent = t.nodes[k].parent
                           /\ nodes[k].status \in {"expanded", t.nodes[k].status}
        /\ \A k \in (N + 1)..(N + K) : nodes[k].parent = n /\ nodes[k].status = "open"
    <2>1. NodesGrow(nodes, t, n, r)
      BY GrownNodesFacts
    <2> QED
      BY <2>1 DEF NodesGrow
  <1>4. /\ x \in Expansions /\ x.target = n /\ x.redundant = redundant
        /\ \A c \in Range(x.children) : n < c /\ c \in (N + 1)..(N + K)
    <2>1. ExpansionFits(x, t, n, r, redundant)
      BY GrownExpansionFacts
    <2> QED
      BY <2>1 DEF ExpansionFits
  <1>5. /\ branches \in Seq(Seq(Nat)) /\ 1 \in DOMAIN branches
        /\ alt # 0 => Range(branches[1]) = Endorsed(t)
        /\ alt = 0 => Range(branches[1]) = Endorsed(t) \cup {M + 1}
    BY GrownBranchesFacts
  <1>6. /\ E \in Seq(Expansions) /\ t.gaps \in Seq(Gaps) /\ t.question \in {"open", "atomic_leaf"}
        /\ Root \in NodesOf(t)
        /\ \A k \in NodesOf(t) : /\ t.nodes[k].parent \in Nat /\ t.nodes[k].parent < k
                                 /\ t.nodes[k].status \in {"open", "expanded", "atomic_leaf"}
        /\ \A e \in DOMAIN E :
              /\ E[e].target \in NodesOf(t)
              /\ \A c \in Range(E[e].children) : c \in NodesOf(t) /\ E[e].target < c
        /\ Endorsed(t) \subseteq DOMAIN E
        /\ \A e, f \in Endorsed(t) : E[e].target = E[f].target => e = f
        /\ \A e \in Endorsed(t) : ~E[e].redundant
    BY DEF WellFormed, HasParents, Trees
  <1>7. IsLonger(expansions, E, x, Expansions)
    <2> DEFINE S == Expansions
    <2>1. E \in Seq(S) /\ x \in S
      BY <1>4, <1>6
    <2> HIDE DEF S, E, x
    <2>2. IsLonger(Added(E, x), E, x, S)
      BY <2>1, AddedFacts
    <2> QED
      BY <2>2 DEF S, E
  <1>8. Endorsed(u) = Range(branches[1])
    BY <1>2 DEF Endorsed, current_branch
  <1> HIDE DEF u, x, nodes, expansions, branches, N, K, M, E
  <1>9. /\ expansions \in Seq(Expansions) /\ M \in Nat /\ DOMAIN E = 1..M
        /\ Len(expansions) = M + 1 /\ DOMAIN expansions = 1..(M + 1)
        /\ \A e \in 1..M : expansions[e] = E[e]
        /\ expansions[M + 1] = x
    BY <1>7 DEF IsLonger, M, E
  <1>10. NodesOf(u) = 1..(N + K) /\ NodesOf(t) \subseteq NodesOf(u)
    BY <1>2, <1>3 DEF NodesOf
  <1>11. \A k \in NodesOf(u) : k \in 1..N \/ k \in (N + 1)..(N + K)
    BY <1>3, <1>10
  <1>12. Extends(u, t)
    BY <1>2, <1>3, <1>10, <1>11 DEF Extends
  <1>13. HasParents(u)
    <2>1. Len(u.nodes) = N + K /\ N + K \in Nat /\ Root \in NodesOf(u)
      BY <1>2, <1>3, <1>6, <1>10
    <2>2. ASSUME NEW k \in NodesOf(u) PROVE u.nodes[k].parent \in Nat /\ u.nodes[k].parent < k
      <3>1. CASE k \in 1..N
        BY <1>2, <1>3, <1>6, <3>1
      <3>2. CASE k \in (N + 1)..(N + K)
        BY <1>2, <1>3, <3>2
      <3> QED
        BY <1>11, <3>1, <3>2
    <2> QED
      BY <1>10, <2>1, <2>2 DEF HasParents
  <1>14. u \in Trees
    <2>1. TreeOf(nodes, expansions, branches, t.gaps, t.question) \in Trees
      BY <1>3, <1>5, <1>6, <1>9 DEF TreeOf, Trees
    <2> QED
      BY <1>1, <2>1 DEF u, nodes, expansions, branches, x
  <1>15. \A k \in NodesOf(u) : u.nodes[k].status \in {"open", "expanded", "atomic_leaf"}
    BY <1>2, <1>3, <1>6, <1>11
  <1>16. ASSUME NEW e \in DOMAIN u.expansions
         PROVE  /\ u.expansions[e].target \in NodesOf(u)
                /\ \A c \in Range(u.expansions[e].children) :
                      c \in NodesOf(u) /\ u.expansions[e].target < c
    <2>1. e \in 1..M \/ e = M + 1
      BY <1>2, <1>9
    <2>2. CASE e \in 1..M
      BY <1>2, <1>6, <1>9, <1>10, <2>2
    <2>3. CASE e = M + 1
      <3>1. u.expansions[e] = x
        BY <1>2, <1>9, <2>3
      <3>2. \A c \in (N + 1)..(N + K) : c \in NodesOf(u)
        BY <1>3, <1>10
      <3> QED
        BY <1>4, <1>10, <3>1, <3>2
    <2> QED
      BY <2>1, <2>2, <2>3
  <1>17. /\ Endorsed(u) \subseteq DOMAIN u.expansions
         /\ \A e, f \in Endorsed(u) : u.expansions[e].target = u.expansions[f].target => e = f
         /\ \A e \in Endorsed(u) : ~u.expansions[e].redundant
    <2>1. \A e \in Endorsed(t) : e \in 1..M /\ u.expansions[e] = E[e]
      BY <1>2, <1>6, <1>9
    <2>2. DOMAIN u.expansions = 1..(M + 1) /\ u.expansions[M + 1] = x
      BY <1>2, <1>9
    <2>3. CASE alt # 0
      BY <1>5, <1>6, <1>8, <1>9, <2>1, <2>2, <2>3
    <2>4. CASE alt = 0
      <3>1. Endorsed(u) = Endorsed(t) \cup {M + 1} /\ ~redundant
        BY <1>5, <1>8, <2>4
      <3>2. \A e \in Endorsed(t) : E[e].target # n
        <4>1. \A e \in Endorsed(t) : e \in DOMAIN E /\ e \notin expansions_at(t, n)
          BY <1>6, <2>4
        <4> QED
          BY <4>1 DEF expansions_at, E
      <3>3. M + 1 \in DOMAIN u.expansions /\ 1..M \subseteq DOMAIN u.expansions
        BY <1>9, <2>2
      <3>4. Endorsed(u) \subseteq DOMAIN u.expansions
        BY <2>1, <3>1, <3>3
      <3>5. \A e \in Endorsed(u) : ~u.expansions[e].redundant
        BY <1>4, <1>6, <2>1, <2>2, <3>1
      <3>6. \A e, f \in Endorsed(u) : u.expansions[e].target = u.expansions[f].target => e = f
        BY <1>4, <1>6, <2>1, <2>2, <3>1, <3>2
      <3> QED
        BY <3>4, <3>5, <3>6
    <2> QED
      BY <2>3, <2>4
  <1>18. WellFormed(u)
    BY <1>2, <1>5, <1>13, <1>14, <1>15, <1>16, <1>17 DEF WellFormed
  <1>19. Len(u.expansions) = M + 1
    BY <1>2, <1>9
  <1> QED
    BY <1>12, <1>18, <1>19 DEF GrowsFrom, u, M

-----------------------------------------------------------------------------
(* The tree actions *)

\* u is a tree that differs from t in nothing but the gaps.
DiffersInGaps(u, t) ==
    /\ u.nodes = t.nodes /\ u.expansions = t.expansions
    /\ u.branches = t.branches /\ u.question = t.question
    /\ u \in Trees

WithGap(t, gap) == [t EXCEPT !.gaps = Append(@, gap)]

LEMMA WithGapFacts ==
    ASSUME NEW t \in Trees, NEW gap \in Gaps
    PROVE  DiffersInGaps(WithGap(t, gap), t)
  <1> DEFINE more == Append(t.gaps, gap)
             u == WithGap(t, gap)
  <1>1. PICK a, b, c, d, q : t = TreeOf(a, b, c, d, q)
    BY DEF Trees, TreeOf
  <1>2. t.nodes = a /\ t.expansions = b /\ t.branches = c /\ t.gaps = d /\ t.question = q
    BY <1>1, TreeParts
  <1>3. u = [t EXCEPT !.gaps = more]
    BY DEF WithGap
  <1> HIDE DEF u
  <1>4. more \in Seq(Gaps)
    <2>1. t.gaps \in Seq(Gaps)
      BY DEF Trees
    <2> QED
      BY <2>1
  <1> HIDE DEF more
  <1>5. u = TreeOf(a, b, c, more, q)
    BY <1>1, <1>3, GapsUpdate
  <1>6. u \in Trees
    BY <1>2, <1>4, <1>5 DEF Trees, TreeOf
  <1>7. u.nodes = a /\ u.expansions = b /\ u.branches = c /\ u.question = q
    BY <1>5, TreeParts
  <1> QED
    BY <1>2, <1>6, <1>7 DEF DiffersInGaps, u

LEMMA RecordOfThree ==
    ASSUME NEW A, NEW B, NEW C, NEW a \in A, NEW b \in B, NEW c \in C
    PROVE  [kind |-> a, target |-> b, blocking |-> c] \in [kind : A, target : B, blocking : C]
  OBVIOUS

\* A gap changes nothing but the gaps, whichever it is.
LEMMA MismatchGap ==
    ASSUME NEW t \in Trees, NEW n \in Nat
    PROVE  DiffersInGaps(register_gap(t, "unit_mismatch", n, TRUE), t)
  <1> DEFINE gap == [kind |-> "unit_mismatch", target |-> n, blocking |-> TRUE]
  <1>1. gap \in Gaps
    <2>1. "unit_mismatch" \in GapKinds
      BY DEF GapKinds
    <2> QED
      BY <2>1, RecordOfThree, Zenon DEF Gaps
  <1>2. register_gap(t, "unit_mismatch", n, TRUE) = WithGap(t, gap)
    BY DEF register_gap, WithGap
  <1> QED
    BY <1>1, <1>2, WithGapFacts

LEMMA RejectionGap ==
    ASSUME NEW t \in Trees, NEW n \in Nat
    PROVE  DiffersInGaps(register_gap(t, "atom_rejected", n, TRUE), t)
  <1> DEFINE gap == [kind |-> "atom_rejected", target |-> n, blocking |-> TRUE]
  <1>1. gap \in Gaps
    <2>1. "atom_rejected" \in GapKinds
      BY DEF GapKinds
    <2> QED
      BY <2>1, RecordOfThree, Zenon DEF Gaps
  <1>2. register_gap(t, "atom_rejected", n, TRUE) = WithGap(t, gap)
    BY DEF register_gap, WithGap
  <1> QED
    BY <1>1, <1>2, WithGapFacts

LEMMA RedundancyGap ==
    ASSUME NEW t \in Trees, NEW n \in Nat
    PROVE  DiffersInGaps(register_gap(t, "redundant_alternative", n, FALSE), t)
  <1> DEFINE gap == [kind |-> "redundant_alternative", target |-> n, blocking |-> FALSE]
  <1>1. gap \in Gaps
    <2>1. "redundant_alternative" \in GapKinds
      BY DEF GapKinds
    <2> QED
      BY <2>1, RecordOfThree, Zenon DEF Gaps
  <1>2. register_gap(t, "redundant_alternative", n, FALSE) = WithGap(t, gap)
    BY DEF register_gap, WithGap
  <1> QED
    BY <1>1, <1>2, WithGapFacts

\* A gap registered in a grown tree leaves it grown.
LEMMA GapKeeps ==
    ASSUME NEW u, NEW t, GrowsFrom(u, t), NEW n \in Nat
    PROVE  GrowsFrom(register_gap(u, "redundant_alternative", n, FALSE), t)
  <1> DEFINE v == register_gap(u, "redundant_alternative", n, FALSE)
  <1>1. u \in Trees
    BY DEF GrowsFrom, WellFormed
  <1>2. /\ v.nodes = u.nodes /\ v.expansions = u.expansions
        /\ v.branches = u.branches /\ v \in Trees
    <2>1. DiffersInGaps(v, u)
      BY <1>1, RedundancyGap
    <2> QED
      BY <2>1 DEF DiffersInGaps
  <1> HIDE DEF v
  <1>3. NodesOf(v) = NodesOf(u) /\ Endorsed(v) = Endorsed(u)
    BY <1>2 DEF NodesOf, Endorsed, current_branch
  <1>4. WellFormed(v)
    BY <1>2, <1>3 DEF GrowsFrom, WellFormed, HasParents
  <1>5. Extends(v, t)
    BY <1>2, <1>3 DEF GrowsFrom, Extends
  <1> QED
    BY <1>2, <1>4, <1>5 DEF GrowsFrom, v

\* What an expansion of n may not do: call itself redundant and extend the
\* current branch, or extend that at a node the branch has expanded.
MayExpand(t, n, alt, redundant) ==
    /\ alt \in Nat /\ redundant \in BOOLEAN
    /\ redundant => alt # 0
    /\ alt = 0 => expansions_at(t, n) \cap Endorsed(t) = {}

\* An expansion that adds an expansion grows the tree.
LEMMA ExpandGrows ==
    ASSUME NEW t, WellFormed(t), NEW n \in Nat, NEW r \in Relations, NEW alt, NEW redundant,
           MayExpand(t, n, alt, redundant),
           expand(t, n, r, alt, redundant) # Failed,
           Len(expand(t, n, r, alt, redundant).expansions) # Len(t.expansions)
    PROVE  GrowsFrom(expand(t, n, r, alt, redundant), t)
  <1> DEFINE g == expand(t, n, r, alt, redundant)
  <1>1. t \in Trees
    BY DEF WellFormed
  <1>2. r.unit = r.yields
    <2>1. SUFFICES ASSUME r.unit # r.yields PROVE FALSE
      OBVIOUS
    <2>2. g = register_gap(t, "unit_mismatch", n, TRUE)
      BY <2>1 DEF expand
    <2>3. g.expansions = t.expansions
      <3>1. DiffersInGaps(register_gap(t, "unit_mismatch", n, TRUE), t)
        BY <1>1, MismatchGap
      <3> QED
        BY <2>2, <3>1 DEF DiffersInGaps
    <2> QED
      BY <2>3
  <1>3. g = Grown(t, n, r, alt, redundant) /\ n \in NodesOf(t)
    BY <1>1, <1>2, ExpandIs
  <1> HIDE DEF g
  <1>4. GrowsFrom(Grown(t, n, r, alt, redundant), t)
    BY <1>3, GrownIsWellFormed DEF MayExpand
  <1> QED
    BY <1>3, <1>4 DEF g

\* So does an alternative.
LEMMA AlternativeGrows ==
    ASSUME NEW t, WellFormed(t), NEW n \in Nat, NEW r \in Relations, NEW e \in Nat \ {0},
           propose_alternative_inner(t, n, r, e) # Failed,
           Len(propose_alternative_inner(t, n, r, e).expansions) # Len(t.expansions)
    PROVE  GrowsFrom(propose_alternative_inner(t, n, r, e), t)
  <1> DEFINE redundant == \E other \in expansions_at(t, n) : redundancy_vs(t, r, other)
             g == expand(t, n, r, e, redundant)
             u == propose_alternative_inner(t, n, r, e)
  <1>1. u = IF g = Failed \/ ~redundant THEN g
            ELSE register_gap(g, "redundant_alternative", n, FALSE)
    BY DEF propose_alternative_inner
  <1>2. redundant \in BOOLEAN
    OBVIOUS
  <1> HIDE DEF redundant
  <1>3. MayExpand(t, n, e, redundant)
    BY <1>2 DEF MayExpand
  <1>4. g # Failed
    BY <1>1
  <1>5. Len(g.expansions) # Len(t.expansions)
    <2>1. CASE ~redundant
      BY <1>1, <2>1
    <2>2. CASE redundant
      <3>1. u = register_gap(g, "redundant_alternative", n, FALSE)
        BY <1>1, <1>4, <2>2
      <3>2. g \in Trees
        <4>1. CASE r.unit = r.yields
          <5>1. g = Grown(t, n, r, e, redundant) /\ n \in NodesOf(t)
            BY <1>4, <4>1, ExpandIs DEF WellFormed
          <5>2. GrowsFrom(Grown(t, n, r, e, redundant), t)
            BY <1>3, <5>1, GrownIsWellFormed DEF MayExpand
          <5> QED
            BY <5>1, <5>2 DEF GrowsFrom, WellFormed
        <4>2. CASE r.unit # r.yields
          <5>1. g = register_gap(t, "unit_mismatch", n, TRUE)
            BY <1>4, <4>2 DEF expand
          <5>2. t \in Trees
            BY DEF WellFormed
          <5>3. DiffersInGaps(register_gap(t, "unit_mismatch", n, TRUE), t)
            BY <5>2, MismatchGap
          <5> QED
            BY <5>1, <5>3 DEF DiffersInGaps
        <4> QED
          BY <4>1, <4>2
      <3>3. u.expansions = g.expansions
        <4> HIDE DEF g
        <4>1. DiffersInGaps(register_gap(g, "redundant_alternative", n, FALSE), g)
          BY <3>2, RedundancyGap
        <4> QED
          BY <3>1, <4>1 DEF DiffersInGaps
      <3> QED
        BY <3>3
    <2> QED
      BY <2>1, <2>2
  <1> HIDE DEF u
  <1>6. GrowsFrom(g, t)
    BY <1>3, <1>4, <1>5, ExpandGrows
  <1> HIDE DEF g
  <1>7. u = g \/ u = register_gap(g, "redundant_alternative", n, FALSE)
    BY <1>1
  <1>8. GrowsFrom(register_gap(g, "redundant_alternative", n, FALSE), t)
    BY <1>6, GapKeeps
  <1> QED
    BY <1>6, <1>7, <1>8 DEF u

\* The first of the expansions of a well-formed tree is a number that is not 0.
LEMMA FirstExpansion ==
    ASSUME NEW t, WellFormed(t), NEW S, S # {}, S \subseteq DOMAIN t.expansions
    PROVE  FirstOf(S) \in S /\ FirstOf(S) \in Nat \ {0}
  <1>1. t.expansions \in Seq(Expansions)
    BY DEF WellFormed, Trees
  <1>2. DOMAIN t.expansions = 1..Len(t.expansions) /\ Len(t.expansions) \in Nat
    BY <1>1, LenProperties
  <1>3. S \in SUBSET Nat /\ \A m \in S : m \in Nat \ {0}
    BY <1>2
  <1>4. FirstOf(S) \in S
    BY <1>3, LeastExists
  <1> QED
    BY <1>3, <1>4

\* The nodes u are the nodes a, one of them an atomic leaf.
Marks(u, a) ==
    /\ u \in Seq(Nodes) /\ Len(u) = Len(a) /\ DOMAIN u = DOMAIN a
    /\ \A k \in DOMAIN a : /\ u[k].parent = a[k].parent
                           /\ u[k].status \in {"atomic_leaf", a[k].status}

LEMMA MarkedFacts ==
    ASSUME NEW a \in Seq(Nodes), NEW i \in DOMAIN a
    PROVE  Marks([a EXCEPT ![i].status = "atomic_leaf"], a)
  <1> DEFINE x == [a[i] EXCEPT !.status = "atomic_leaf"]
             u == [a EXCEPT ![i] = x]
  <1>1. DOMAIN a = 1..Len(a) /\ Len(a) \in Nat
    BY LenProperties
  <1>2. a[i] \in Nodes
    BY <1>1, ElementOfSeq
  <1>3. x \in Nodes /\ x.parent = a[i].parent /\ x.status = "atomic_leaf"
    BY <1>2 DEF Nodes
  <1> HIDE DEF x
  <1>4. u \in Seq(Nodes) /\ Len(u) = Len(a) /\ \A j \in 1..Len(a) : u[j] = IF j = i THEN x ELSE a[j]
    BY <1>1, <1>3, ExceptSeq
  <1>5. [a EXCEPT ![i].status = "atomic_leaf"] = u
    BY DEF x
  <1> HIDE DEF u
  <1>6. DOMAIN u = DOMAIN a
    BY <1>1, <1>4, LenProperties
  <1>7. \A k \in DOMAIN a : u[k].parent = a[k].parent /\ u[k].status \in {"atomic_leaf", a[k].status}
    BY <1>1, <1>3, <1>4
  <1> QED
    BY <1>4, <1>5, <1>6, <1>7 DEF Marks

Promoting(t, i, q) == [t EXCEPT !.nodes[i].status = "atomic_leaf", !.question = q]

LEMMA PromotionUpdate ==
    ASSUME NEW a, NEW b, NEW c, NEW d, NEW q, NEW p, NEW i
    PROVE  Promoting(TreeOf(a, b, c, d, q), i, p)
             = TreeOf([a EXCEPT ![i].status = "atomic_leaf"], b, c, d, p)
  <1> DEFINE T == TreeOf(a, b, c, d, q)
             y == [a EXCEPT ![i] = [a[i] EXCEPT !.status = "atomic_leaf"]]
             m == TreeOf(y, b, c, d, q)
  <1>1. [a EXCEPT ![i].status = "atomic_leaf"] = y
    OBVIOUS
  <1>2. T.nodes = a
    BY TreeParts
  <1>3. [T EXCEPT !.nodes[i].status = "atomic_leaf"] = [T EXCEPT !.nodes = y]
    BY <1>2
  <1>4. [T EXCEPT !.nodes = y] = m
    BY NodesUpdate
  <1>5. Promoting(T, i, p) = [[T EXCEPT !.nodes[i].status = "atomic_leaf"] EXCEPT !.question = p]
    BY DEF Promoting
  <1>6. [m EXCEPT !.question = p] = TreeOf(y, b, c, d, p)
    BY DEF TreeOf
  <1> QED
    BY <1>1, <1>3, <1>4, <1>5, <1>6

\* A promoted node changes no parent and no expansion.
LEMMA PromotionKeeps ==
    ASSUME NEW t, WellFormed(t), NEW n \in NodesOf(t), NEW p \in {"open", "atomic_leaf"}
    PROVE  /\ WellFormed(Promoting(t, n, p)) /\ Extends(Promoting(t, n, p), t)
           /\ NodesOf(Promoting(t, n, p)) = NodesOf(t)
  <1>1. PICK a, b, c, d, q : t = TreeOf(a, b, c, d, q)
    BY DEF WellFormed, Trees, TreeOf
  <1>2. t.nodes = a /\ t.expansions = b /\ t.branches = c /\ t.gaps = d /\ t.question = q
    BY <1>1, TreeParts
  <1> DEFINE u == Promoting(t, n, p)
             nodes == [a EXCEPT ![n].status = "atomic_leaf"]
  <1>3. a \in Seq(Nodes) /\ n \in DOMAIN a /\ b \in Seq(Expansions) /\ c \in Seq(Seq(Nat))
        /\ d \in Seq(Gaps) /\ NodesOf(t) = DOMAIN a
    BY <1>2 DEF WellFormed, Trees, NodesOf
  <1>4. Marks(nodes, a)
    BY <1>3, MarkedFacts
  <1>5. u = TreeOf(nodes, b, c, d, p)
    BY <1>1, PromotionUpdate
  <1> HIDE DEF u, nodes
  <1>6. u.nodes = nodes /\ u.expansions = b /\ u.branches = c
    BY <1>5, TreeParts
  <1>7. u \in Trees
    BY <1>3, <1>4, <1>5 DEF Marks, TreeOf, Trees
  <1>8. NodesOf(u) = NodesOf(t) /\ Endorsed(u) = Endorsed(t) /\ Len(u.nodes) = Len(t.nodes)
    BY <1>2, <1>4, <1>6 DEF Marks, NodesOf, Endorsed, current_branch
  <1>9. \A k \in NodesOf(t) : /\ u.nodes[k].parent = t.nodes[k].parent
                              /\ u.nodes[k].status \in {"atomic_leaf", t.nodes[k].status}
    BY <1>2, <1>3, <1>4, <1>6 DEF Marks
  <1>10. Extends(u, t)
    BY <1>8, <1>9 DEF Extends
  <1>11. HasParents(u)
    BY <1>8, <1>9 DEF WellFormed, HasParents
  <1>12. \A k \in NodesOf(u) : u.nodes[k].status \in {"open", "expanded", "atomic_leaf"}
    BY <1>8, <1>9 DEF WellFormed
  <1>13. WellFormed(u)
    BY <1>2, <1>6, <1>7, <1>8, <1>11, <1>12 DEF WellFormed
  <1> QED
    BY <1>8, <1>10, <1>13 DEF u

\* What a tree action does to the tree, when it is recorded.
Settles(u, t, op) ==
    /\ WellFormed(u) /\ Extends(u, t)
    /\ op.name = "propose_atom" => NodesOf(u) = NodesOf(t)

LEMMA SettleKeeps ==
    ASSUME NEW t, WellFormed(t), NEW op \in FermiOps, op.name \in tree_action_names,
           settle(t, op) # Failed
    PROVE  Settles(settle(t, op), t, op)
  <1> DEFINE u == settle(t, op)
  <1>1. t \in Trees
    BY DEF WellFormed
  <1>2. CASE op.name = "expand"
    <2> DEFINE g == expand_state(t, op.node, op.relation)
               rivals == expansions_at(t, op.node) \cap Endorsed(t)
    <2>1. op.node \in Nat /\ op.relation \in Relations
      BY <1>2, FermiAssumption
    <2>2. u = judged(t, op, g)
      BY <1>2 DEF settle
    <2>3. g # Failed /\ Len(g.expansions) # Len(t.expansions) /\ u = g
      <3> HIDE DEF g
      <3> QED
        BY <1>2, <2>2 DEF judged
    <2>4. CASE rivals # {}
      <3>1. rivals \subseteq DOMAIN t.expansions
        BY DEF expansions_at
      <3>2. FirstOf(rivals) \in Nat \ {0}
        <4> HIDE DEF rivals
        <4> QED
          BY <2>4, <3>1, FirstExpansion
      <3>3. g = propose_alternative_inner(t, op.node, op.relation, FirstOf(rivals))
        BY <2>4 DEF expand_state
      <3> DEFINE e == FirstOf(rivals)
                 n == op.node
                 r == op.relation
      <3> HIDE DEF e, g, u, n, r
      <3>4. GrowsFrom(g, t)
        <4>1. g = propose_alternative_inner(t, n, r, e) /\ e \in Nat \ {0} /\ n \in Nat /\ r \in Relations
          BY <2>1, <3>2, <3>3 DEF e, n, r
        <4>2. GrowsFrom(propose_alternative_inner(t, n, r, e), t)
          BY <2>3, <4>1, AlternativeGrows
        <4> QED
          BY <4>1, <4>2
      <3> QED
        BY <1>2, <2>3, <3>4 DEF GrowsFrom, Settles, u
    <2>5. CASE rivals = {}
      <3>1. g = expand(t, op.node, op.relation, 0, FALSE)
        BY <2>5 DEF expand_state
      <3>2. MayExpand(t, op.node, 0, FALSE)
        BY <2>5 DEF MayExpand
      <3> HIDE DEF g, u
      <3>3. GrowsFrom(expand(t, op.node, op.relation, 0, FALSE), t)
        BY <2>1, <2>3, <3>1, <3>2, ExpandGrows
      <3> QED
        BY <1>2, <2>3, <3>1, <3>3 DEF GrowsFrom, Settles, u
    <2> QED
      BY <2>4, <2>5
  <1>3. CASE op.name = "propose_alternative"
    <2> DEFINE g == propose_alternative(t, op.node, op.relation)
               all == expansions_at(t, op.node)
               e == pick_dominant_expansion(t, all)
    <2>1. op.node \in Nat /\ op.relation \in Relations
      BY <1>3, FermiAssumption
    <2>2. u = judged(t, op, g)
      BY <1>3 DEF settle
    <2>3. g # Failed /\ Len(g.expansions) # Len(t.expansions) /\ u = g
      <3> HIDE DEF g
      <3> QED
        BY <1>3, <2>2 DEF judged
    <2>4. all # {} /\ all \subseteq DOMAIN t.expansions
      BY <2>3 DEF propose_alternative, expansions_at
    <2>5. g = propose_alternative_inner(t, op.node, op.relation, e)
      BY <2>4 DEF propose_alternative
    <2>6. e \in Nat \ {0}
      <3> HIDE DEF all
      <3>1. CASE all \cap Endorsed(t) # {}
        <4> DEFINE some == all \cap Endorsed(t)
        <4>1. some # {} /\ some \subseteq DOMAIN t.expansions /\ e = FirstOf(some)
          BY <2>4, <3>1 DEF pick_dominant_expansion
        <4> HIDE DEF some, e
        <4> QED
          BY <4>1, FirstExpansion
      <3>2. CASE all \cap Endorsed(t) = {}
        <4>1. e = FirstOf(all)
          BY <3>2 DEF pick_dominant_expansion
        <4> QED
          BY <2>4, <4>1, FirstExpansion
      <3> QED
        BY <3>1, <3>2
    <2> HIDE DEF e, g, u
    <2>7. GrowsFrom(propose_alternative_inner(t, op.node, op.relation, e), t)
      BY <2>1, <2>3, <2>5, <2>6, AlternativeGrows
    <2> QED
      BY <1>3, <2>3, <2>5, <2>7 DEF GrowsFrom, Settles, u
  <1>4. CASE op.name = "propose_atom"
    <2> DEFINE g == propose_atom(t, op.claim)
               n == op.claim.node
    <2>1. n \in Nat
      BY <1>4, FermiAssumption
    <2>2. u = judged(t, op, g)
      BY <1>4 DEF settle
    <2>3. g # Failed /\ g.nodes[n].status = "atomic_leaf" /\ u = g
      <3> HIDE DEF g
      <3> QED
        BY <1>4, <2>2 DEF judged
    <2>4. \/ g = register_gap(t, "atom_rejected", n, TRUE)
          \/ g = register_gap(t, "unit_mismatch", n, TRUE)
          \/ g = Promoting(t, n, IF question_can_be_marked_atomic(t) THEN "atomic_leaf" ELSE t.question)
      BY <2>3 DEF propose_atom, Promoting
    <2>5. n \in NodesOf(t)
      BY <2>3 DEF propose_atom
    <2> HIDE DEF g, n, u
    <2>6. CASE DiffersInGaps(g, t)
      <3>1. NodesOf(g) = NodesOf(t) /\ Endorsed(g) = Endorsed(t)
        BY <2>6 DEF DiffersInGaps, NodesOf, Endorsed, current_branch
      <3>2. WellFormed(g)
        BY <2>6, <3>1 DEF DiffersInGaps, WellFormed, HasParents
      <3>3. Extends(g, t)
        BY <2>6, <3>1 DEF DiffersInGaps, Extends
      <3> QED
        BY <1>4, <2>3, <3>1, <3>2, <3>3 DEF Settles, u
    <2>7. CASE g = Promoting(t, n, IF question_can_be_marked_atomic(t) THEN "atomic_leaf" ELSE t.question)
      <3> DEFINE p == IF question_can_be_marked_atomic(t) THEN "atomic_leaf" ELSE t.question
      <3>1. p \in {"open", "atomic_leaf"}
        BY <1>1 DEF Trees
      <3>2. g = Promoting(t, n, p)
        BY <2>7
      <3> HIDE DEF p
      <3>3. /\ WellFormed(Promoting(t, n, p)) /\ Extends(Promoting(t, n, p), t)
            /\ NodesOf(Promoting(t, n, p)) = NodesOf(t)
        BY <2>5, <3>1, PromotionKeeps
      <3> QED
        BY <1>4, <2>3, <3>2, <3>3 DEF Settles, u
    <2>8. g = register_gap(t, "atom_rejected", n, TRUE) => DiffersInGaps(g, t)
      BY <1>1, <2>1, RejectionGap
    <2>9. g = register_gap(t, "unit_mismatch", n, TRUE) => DiffersInGaps(g, t)
      BY <1>1, <2>1, MismatchGap
    <2> QED
      BY <2>4, <2>6, <2>7, <2>8, <2>9
  <1> QED
    BY <1>2, <1>3, <1>4 DEF tree_action_names

-----------------------------------------------------------------------------
(* Rebuilding the tree from the recorded actions *)

TreesStart(actions)           == create_decomposition
TreesStep(actions, i, before) == IF before = Failed THEN Failed ELSE settle(before, actions[i])
Rebuilds == INSTANCE NatRecursion WITH Start <- TreesStart, Step <- TreesStep

\* The trees of a rebuild are what their recursion says.
LEMMA TreesAfterFacts ==
    ASSUME NEW a
    PROVE  /\ TreesAfter(a)[0] = create_decomposition
           /\ \A n \in Nat : TreesAfter(a)[n + 1] = TreesStep(a, n + 1, TreesAfter(a)[n])
  <1> DEFINE Is(t) == t = [n \in Nat |-> IF n = 0 THEN create_decomposition ELSE TreesStep(a, n, t[n - 1])]
             after == TreesAfter(a)
  <1>1. PICK f : Rebuilds!IsRecursion(a, f)
    BY Rebuilds!RecursionExists
  <1>2. Is(f)
    BY <1>1 DEF Rebuilds!IsRecursion, Rebuilds!At, TreesStart
  <1>3. Is(after)
    BY <1>2 DEF TreesAfter, TreesStep
  <1> HIDE DEF after
  <1>4. ASSUME NEW n \in Nat PROVE after[n + 1] = TreesStep(a, n + 1, after[n])
    <2>1. n + 1 \in Nat /\ n + 1 # 0 /\ (n + 1) - 1 = n
      OBVIOUS
    <2>2. after[n + 1] = TreesStep(a, n + 1, after[(n + 1) - 1])
      BY <1>3, <2>1
    <2> QED
      BY <2>1, <2>2
  <1>5. after[0] = create_decomposition
    BY <1>3
  <1> QED
    BY <1>4, <1>5 DEF after

\* Rebuilding from one more action continues from the tree of those before it.
LEMMA RebuildStep ==
    ASSUME NEW a \in Seq(FermiOps), NEW op \in FermiOps
    PROVE  rebuild_tree(Append(a, op))
             = IF rebuild_tree(a) = Failed THEN Failed ELSE settle(rebuild_tree(a), op)
  <1> DEFINE b == Append(a, op)
             n == Len(a)
  <1>1. /\ n \in Nat /\ Len(b) = n + 1 /\ b[n + 1] = op
        /\ \A i \in 1..n : b[i] = a[i]
    BY AppendProperties
  <1> HIDE DEF b, n
  <1> DEFINE K == {k \in Nat : k <= n => TreesAfter(b)[k] = TreesAfter(a)[k]}
  <1>2. 0 \in K
    BY TreesAfterFacts
  <1>3. ASSUME NEW k \in Nat, k \in K PROVE k + 1 \in K
    <2>1. SUFFICES ASSUME k + 1 <= n PROVE TreesAfter(b)[k + 1] = TreesAfter(a)[k + 1]
      OBVIOUS
    <2>2. k <= n /\ b[k + 1] = a[k + 1]
      BY <1>1, <2>1
    <2>3. TreesAfter(b)[k] = TreesAfter(a)[k]
      BY <1>3, <2>2
    <2> QED
      BY <2>2, <2>3, TreesAfterFacts DEF TreesStep
  <1> HIDE DEF K
  <1>4. Nat \subseteq K
    BY <1>2, <1>3, Rebuilds!Induction
  <1>5. n \in K
    BY <1>1, <1>4
  <1>6. TreesAfter(b)[n] = TreesAfter(a)[n]
    BY <1>1, <1>5 DEF K
  <1>7. TreesAfter(b)[n + 1] = TreesStep(b, n + 1, TreesAfter(b)[n])
    BY <1>1, TreesAfterFacts
  <1>8. rebuild_tree(b) = TreesAfter(b)[n + 1] /\ rebuild_tree(a) = TreesAfter(a)[n]
    BY <1>1 DEF rebuild_tree, n
  <1> QED
    BY <1>1, <1>6, <1>7, <1>8 DEF TreesStep, b

\* Without actions there is only the root.
LEMMA RebuildNothing == rebuild_tree(<<>>) = create_decomposition
  <1>1. Len(<<>>) = 0
    OBVIOUS
  <1> QED
    BY <1>1, TreesAfterFacts DEF rebuild_tree

LEMMA FreshTree == WellFormed(create_decomposition) /\ Depth(create_decomposition) = 0
  <1> DEFINE root == [parent |-> 0, label |-> RootLabel, unit |-> RootUnit, status |-> "open"]
             t == create_decomposition
             e == << >>
             b == << <<>> >>
             nodes == <<root>>
  <1>1. t = TreeOf(nodes, e, b, e, "open")
    BY DEF create_decomposition, TreeOf
  <1>2. t.nodes = nodes /\ t.expansions = e /\ t.branches = b /\ t.gaps = e
    BY <1>1, TreeParts
  <1>3. root \in Nodes /\ root.parent = 0 /\ root.status = "open"
    BY FermiAssumption DEF Nodes
  <1> HIDE DEF t, root
  <1>4. /\ nodes \in Seq(Nodes) /\ Len(nodes) = 1 /\ DOMAIN nodes = {1} /\ nodes[1] = root
    BY <1>3
  <1>5. /\ e \in Seq(Expansions) /\ e \in Seq(Gaps) /\ e \in Seq(Nat) /\ DOMAIN e = {} /\ Len(e) = 0
    OBVIOUS
  <1>6. b \in Seq(Seq(Nat)) /\ DOMAIN b = {1} /\ b[1] = e
    BY <1>5
  <1> HIDE DEF nodes, e, b
  <1>7. t \in Trees
    BY <1>1, <1>4, <1>5, <1>6 DEF TreeOf, Trees
  <1>8. NodesOf(t) = {1} /\ Endorsed(t) = {}
    <2>1. current_branch(t) = e
      BY <1>2, <1>6 DEF current_branch
    <2> QED
      BY <1>2, <1>4, <1>5, <2>1 DEF NodesOf, Endorsed, Range
  <1>9. HasParents(t)
    BY <1>2, <1>3, <1>4, <1>8 DEF HasParents, Root
  <1>10. WellFormed(t)
    BY <1>2, <1>3, <1>4, <1>5, <1>6, <1>7, <1>8, <1>9 DEF WellFormed
  <1>11. Depths(t)[1] = 0
    BY <1>2, <1>3, <1>4, <1>8, <1>9, DepthsFacts
  <1>12. Depth(t) = 0
    BY <1>8, <1>9, <1>11, DepthIs
  <1> QED
    BY <1>10, <1>12 DEF t

-----------------------------------------------------------------------------
(* The expression of the current branch *)

\* The children of a node in the expression: later nodes, which the current
\* branch reaches.
LEMMA RenderedChildrenFacts ==
    ASSUME NEW t, WellFormed(t), NEW n \in NodesOf(t), ActiveAt(t, n) # {}
    PROVE  \A c \in RenderedChildren(t, n) :
               c \in NodesOf(t) /\ n < c /\ c \in reachable_node_ids(t)
  <1> DEFINE chosen == CHOOSE e \in ActiveAt(t, n) : \A other \in ActiveAt(t, n) : other <= e
  <1>1. PICK e \in ActiveAt(t, n) : TRUE
    OBVIOUS
  <1>2. \A f \in ActiveAt(t, n) : f \in Endorsed(t) /\ f \in DOMAIN t.expansions /\ t.expansions[f].target = n
    BY DEF ActiveAt, expansions_at
  <1>3. \A f \in ActiveAt(t, n) : f = e
    BY <1>1, <1>2 DEF WellFormed
  <1>4. e <= e
    <2>1. t.expansions \in Seq(Expansions)
      BY DEF WellFormed, Trees
    <2>2. DOMAIN t.expansions = 1..Len(t.expansions) /\ Len(t.expansions) \in Nat
      BY <2>1, LenProperties
    <2>3. e \in Nat
      BY <1>1, <1>2, <2>2
    <2> QED
      BY <2>3
  <1>5. chosen = e
    BY <1>1, <1>3, <1>4
  <1>6. RenderedChildren(t, n) = Range(t.expansions[e].children)
    BY <1>5 DEF RenderedChildren
  <1> HIDE DEF chosen
  <1>7. e \in Endorsed(t) /\ e \in DOMAIN t.expansions /\ t.expansions[e].target = n
    BY <1>1, <1>2
  <1>8. \A c \in Range(t.expansions[e].children) : c \in NodesOf(t) /\ n < c
    BY <1>7 DEF WellFormed
  <1>9. \A c \in Range(t.expansions[e].children) : c \in reachable_node_ids(t)
    BY <1>7 DEF reachable_node_ids
  <1> QED
    BY <1>6, <1>8, <1>9

\* The leaves below each node are what their recursion says.
LEMMA RenderedFacts ==
    ASSUME NEW t, WellFormed(t)
    PROVE  \A n \in NodesOf(t) :
               /\ Rendered(t)[n] \subseteq NodesOf(t)
               /\ Rendered(t)[n] = IF ActiveAt(t, n) = {} THEN {n}
                                   ELSE UNION {Rendered(t)[c] : c \in RenderedChildren(t, n)}
  <1> DEFINE D == NodesOf(t)
             S == SUBSET D
             N == Len(t.nodes)
             At(f, n) == IF ActiveAt(t, n) = {} THEN {n}
                         ELSE UNION {f[c] : c \in RenderedChildren(t, n)}
             Body == [f \in [D -> S] |-> [n \in D |-> At(f, n)]]
             Is(f) == f = [n \in D |-> At(f, n)]
             leaves == Rendered(t)
             rank == [n \in D |-> N - n]
             first == [n \in D |-> {}]
  <1>1. D = 1..N /\ N \in Nat
    BY DEF WellFormed, HasParents
  <1>2. \A n \in D : ActiveAt(t, n) # {} =>
            \A c \in RenderedChildren(t, n) : c \in D /\ n < c
    BY RenderedChildrenFacts
  <1>3. ASSUME NEW f \in [D -> S], NEW n \in D PROVE At(f, n) \in S
    <2>1. CASE ActiveAt(t, n) = {}
      BY <2>1
    <2>2. CASE ActiveAt(t, n) # {}
      <3>1. \A c \in RenderedChildren(t, n) : f[c] \in S
        BY <1>2, <2>2
      <3> QED
        BY <2>2, <3>1
    <2> QED
      BY <2>1, <2>2
  <1>4. rank \in [D -> Nat] /\ first \in [D -> S] /\ \A n \in D : rank[n] < N
    BY <1>1
  <1>5. ASSUME NEW f \in [D -> S], NEW g \in [D -> S], NEW n \in D,
               \A m \in D : rank[m] < rank[n] => f[m] = g[m]
        PROVE  At(f, n) = At(g, n)
    <2>1. CASE ActiveAt(t, n) = {}
      BY <2>1
    <2>2. CASE ActiveAt(t, n) # {}
      <3>1. \A c \in RenderedChildren(t, n) : c \in D /\ rank[c] < rank[n]
        BY <1>1, <1>2, <2>2
      <3>2. \A c \in RenderedChildren(t, n) : f[c] = g[c]
        BY <1>5, <3>1
      <3> QED
        BY <2>2, <3>2
    <2> QED
      BY <2>1, <2>2
  <1> HIDE DEF At
  <1>6. Body \in [[D -> S] -> [D -> S]]
    BY <1>3
  <1>7. \A f, g \in [D -> S], n \in D :
            (\A m \in D : rank[m] < rank[n] => f[m] = g[m]) => Body[f][n] = Body[g][n]
    <2>1. SUFFICES ASSUME NEW f \in [D -> S], NEW g \in [D -> S], NEW n \in D,
                          \A m \in D : rank[m] < rank[n] => f[m] = g[m]
                   PROVE  Body[f][n] = Body[g][n]
      OBVIOUS
    <2>2. At(f, n) = At(g, n)
      BY <1>5, <2>1
    <2>3. Body[f] = [m \in D |-> At(f, m)] /\ Body[g] = [m \in D |-> At(g, m)]
      OBVIOUS
    <2> QED
      BY <2>2, <2>3
  <1>8. \E f \in [D -> S] : f = Body[f]
    <2> HIDE DEF rank, first, Body, D, S, N
    <2>1. IsRanked(D, S, Body, rank, N)
      BY <1>1, <1>4, <1>6, <1>7 DEF IsRanked
    <2> QED
      BY <1>4, <2>1, RankedFixpoint
  <1>9. PICK f \in [D -> S] : Is(f)
    BY <1>8
  <1>10. Is(leaves)
    BY <1>9 DEF Rendered, At
  <1> HIDE DEF leaves
  <1>11. \A n \in D : leaves[n] = At(leaves, n)
    BY <1>10
  <1>12. \A n \in D : leaves[n] \in S
    <2> DEFINE K == {k \in Nat : \A n \in D : N - n < k => leaves[n] \in S}
    <2>1. 0 \in K
      BY <1>1
    <2>2. ASSUME NEW k \in Nat, k \in K PROVE k + 1 \in K
      <3>1. SUFFICES ASSUME NEW n \in D, N - n < k + 1 PROVE leaves[n] \in S
        OBVIOUS
      <3>2. CASE ActiveAt(t, n) = {}
        BY <1>11, <3>2 DEF At
      <3>3. CASE ActiveAt(t, n) # {}
        <4>1. \A c \in RenderedChildren(t, n) : c \in D /\ N - c < k
          BY <1>1, <1>2, <3>1, <3>3
        <4>2. \A c \in RenderedChildren(t, n) : leaves[c] \in S
          BY <2>2, <4>1
        <4>3. leaves[n] = UNION {leaves[c] : c \in RenderedChildren(t, n)}
          BY <1>11, <3>1, <3>3 DEF At
        <4> QED
          BY <4>2, <4>3
      <3> QED
        BY <3>2, <3>3
    <2> HIDE DEF K
    <2>3. Nat \subseteq K
      BY <2>1, <2>2, Iterations!Induction
    <2>4. N + 1 \in K /\ \A n \in D : N - n < N + 1
      BY <1>1, <2>3
    <2> QED
      BY <2>4 DEF K
  <1> QED
    BY <1>11, <1>12 DEF leaves, At

\* A leaf of the expression is a node the current branch reaches and endorses no
\* expansion of.
IsActiveLeaf(t, n) ==
    n \in NodesOf(t) /\ n \in reachable_node_ids(t) /\ ActiveAt(t, n) = {}

LEMMA ActiveLeavesFacts ==
    ASSUME NEW t, WellFormed(t)
    PROVE  \A n \in ActiveLeaves(t) : IsActiveLeaf(t, n)
  <1> DEFINE D == NodesOf(t)
             N == Len(t.nodes)
             K == {k \in Nat : \A n \in D : N - n < k /\ n \in reachable_node_ids(t) =>
                                   \A m \in Rendered(t)[n] : IsActiveLeaf(t, m)}
  <1>1. D = 1..N /\ N \in Nat /\ Root \in D
    BY DEF WellFormed, HasParents
  <1>2. 0 \in K
    BY <1>1
  <1>3. ASSUME NEW k \in Nat, k \in K PROVE k + 1 \in K
    <2>1. SUFFICES ASSUME NEW n \in D, N - n < k + 1, n \in reachable_node_ids(t),
                          NEW m \in Rendered(t)[n]
                   PROVE  IsActiveLeaf(t, m)
      OBVIOUS
    <2>2. CASE ActiveAt(t, n) = {}
      BY <2>1, <2>2, RenderedFacts DEF IsActiveLeaf
    <2>3. CASE ActiveAt(t, n) # {}
      <3>0. Rendered(t)[n] = UNION {Rendered(t)[c] : c \in RenderedChildren(t, n)}
        BY <2>1, <2>3, RenderedFacts
      <3>1. PICK c \in RenderedChildren(t, n) : m \in Rendered(t)[c]
        BY <2>1, <3>0
      <3>2. c \in D /\ n < c /\ c \in reachable_node_ids(t)
        BY <2>3, <3>1, RenderedChildrenFacts
      <3>3. N - c < k
        BY <1>1, <2>1, <3>2
      <3> QED
        BY <1>3, <3>1, <3>2, <3>3
    <2> QED
      BY <2>2, <2>3
  <1> HIDE DEF K
  <1>4. Nat \subseteq K
    BY <1>2, <1>3, Iterations!Induction
  <1>5. N + 1 \in K /\ N - Root < N + 1
    BY <1>1, <1>4
  <1>6. Root \in reachable_node_ids(t)
    BY DEF reachable_node_ids
  <1> QED
    BY <1>1, <1>5, <1>6 DEF K, ActiveLeaves

\* There are finitely many, each a node.
LEMMA ActiveLeavesFinite ==
    ASSUME NEW t, WellFormed(t)
    PROVE  /\ ActiveLeaves(t) \subseteq NodesOf(t)
           /\ ActiveLeaves(t) \in SUBSET Nat
           /\ IsFiniteSet(ActiveLeaves(t))
  <1>1. ActiveLeaves(t) \subseteq NodesOf(t)
    BY ActiveLeavesFacts DEF IsActiveLeaf
  <1>2. NodesOf(t) = 1..Len(t.nodes) /\ Len(t.nodes) \in Nat
    BY DEF WellFormed, HasParents
  <1>3. IsFiniteSet(1..Len(t.nodes))
    BY <1>2, FS_Interval
  <1> QED
    BY <1>1, <1>2, <1>3, FS_Subset

\* An active leaf that is not atomic is on the frontier.
LEMMA ActiveIsOffered ==
    ASSUME NEW t, WellFormed(t), NEW n \in ActiveLeaves(t)
    PROVE  t.nodes[n].status = "atomic_leaf" \/ n \in frontier(t)
  <1>1. n \in NodesOf(t) /\ n \in reachable_node_ids(t) /\ ActiveAt(t, n) = {}
    BY ActiveLeavesFacts DEF IsActiveLeaf
  <1>2. expansions_at(t, n) \cap Endorsed(t) = {}
    BY <1>1 DEF ActiveAt, WellFormed
  <1>3. t.nodes[n].status \in {"open", "expanded", "atomic_leaf"}
    BY <1>1 DEF WellFormed
  <1> QED
    BY <1>1, <1>2, <1>3 DEF frontier, SettledStatuses

-----------------------------------------------------------------------------
(* The evaluation of a tree *)

\* What is known of each leaf: one of a finite set of leaves has one of the
\* marginals.
LeavesKnown(m) ==
    /\ m = [n \in DOMAIN m |-> m[n]]
    /\ DOMAIN m \in SUBSET Nat /\ IsFiniteSet(DOMAIN m)
    /\ \A n \in DOMAIN m : m[n] \in {"constant", "tight", "wide", "unknown"}

LeavesAs(m, kind) == {n \in DOMAIN m : m[n] = kind}

LEMMA WidthType ==
    ASSUME NEW m, LeavesKnown(m)
    PROVE  /\ IsFiniteSet(LeavesAs(m, "tight")) /\ IsFiniteSet(LeavesAs(m, "wide"))
           /\ Cardinality(LeavesAs(m, "tight")) \in Nat
           /\ Cardinality(LeavesAs(m, "wide")) \in Nat
           /\ TotalWidth(m) = Cardinality(LeavesAs(m, "tight")) + 3 * Cardinality(LeavesAs(m, "wide"))
           /\ TotalWidth(m) \in Nat
  <1> DEFINE T == LeavesAs(m, "tight")
             W == LeavesAs(m, "wide")
  <1>1. T \subseteq DOMAIN m /\ W \subseteq DOMAIN m
    BY DEF LeavesAs
  <1>2. TotalWidth(m) = Cardinality(T) + 3 * Cardinality(W)
    BY DEF TotalWidth, LeavesAs
  <1> HIDE DEF T, W
  <1>3. IsFiniteSet(T) /\ IsFiniteSet(W)
    BY <1>1, FS_Subset DEF LeavesKnown
  <1>4. Cardinality(T) \in Nat /\ Cardinality(W) \in Nat
    BY <1>3, FS_CardinalityType
  <1>5. TotalWidth(m) \in Nat
    BY <1>2, <1>4
  <1> QED
    BY <1>2, <1>3, <1>4, <1>5 DEF T, W

\* The atom that is current for a node was recorded for it.
LEMMA AtomIsLast ==
    ASSUME NEW a \in Seq(FermiOps), NEW n, AtomActions(a, n) # {}
    PROVE  atom_of(a, n).name = "propose_atom" /\ atom_of(a, n) \in FermiOps
  <1> DEFINE S == AtomActions(a, n)
             N == Len(a)
  <1>1. N \in Nat /\ DOMAIN a = 1..N
    BY LenProperties
  <1>2. S \in SUBSET (1..N) /\ S # {}
    BY <1>1 DEF AtomActions
  <1> DEFINE i == LastOf(S)
  <1>3. i \in S
    <2> HIDE DEF S, N
    <2> QED
      BY <1>1, <1>2, LastOfExists
  <1>4. atom_of(a, n) = a[i]
    BY DEF atom_of, LastOf
  <1>5. a[i].name = "propose_atom" /\ i \in 1..N
    BY <1>1, <1>3 DEF AtomActions
  <1>6. a[i] \in FermiOps
    <2> HIDE DEF i
    <2> QED
      BY <1>5, ElementOfSeq
  <1> QED
    BY <1>4, <1>5, <1>6

\* In a complete context every leaf is known.
LEMMA ContextIsKnown ==
    ASSUME NEW s, NEW t, WellFormed(t), s.actions \in Seq(FermiOps), Evaluable(s, t)
    PROVE  LeavesKnown(marginals_of(s, ActiveLeaves(t)))
  <1> DEFINE L == ActiveLeaves(t)
             m == marginals_of(s, L)
  <1>1. L \in SUBSET Nat /\ IsFiniteSet(L)
    BY ActiveLeavesFinite
  <1>2. \A n \in L : AtomActions(s.actions, n) # {} /\ atom_of(s.actions, n).marginal # "malformed"
    BY DEF Evaluable, HasContext
  <1> HIDE DEF L
  <1>3. DOMAIN m = L /\ \A n \in L : m[n] = atom_of(s.actions, n).marginal
    BY DEF marginals_of
  <1>4. ASSUME NEW n \in L PROVE m[n] \in {"constant", "tight", "wide", "unknown"}
    <2>1. atom_of(s.actions, n).marginal \in Marginals
      BY <1>2, AtomIsLast, FermiAssumption
    <2> QED
      BY <1>2, <1>3, <2>1 DEF Marginals
  <1>5. m = [n \in DOMAIN m |-> m[n]]
    BY DEF marginals_of
  <1> HIDE DEF m
  <1> QED
    BY <1>1, <1>3, <1>4, <1>5 DEF LeavesKnown, m, L

\* A valid sample has the total width of known leaves, without an unknown one and
\* with a dependence where it matters; an invalid one has no interval.
LEMMA SampleFacts ==
    ASSUME NEW m, LeavesKnown(m), NEW joint, joint_sample(m, joint) # Failed
    PROVE  /\ joint_sample(m, joint) \in Summaries
           /\ joint_sample(m, joint).valid =>
                /\ joint_sample(m, joint).low = 0 /\ joint_sample(m, joint).high = TotalWidth(m)
                /\ \A n \in DOMAIN m : m[n] # "unknown"
                /\ Cardinality(Uncertain(m)) > 1 => joint \notin {None, "unknown"}
  <1> DEFINE x == joint_sample(m, joint)
             known == \A n \in DOMAIN m : m[n] # "unknown"
             declared == Cardinality(Uncertain(m)) > 1 => joint \notin {None, "unknown"}
             w == TotalWidth(m)
             good == [valid |-> TRUE, low |-> 0, high |-> w, calibration |-> "unmeasured"]
  <1>1. w \in Nat
    BY WidthType
  <1>2. \/ x = Unpropagated("unknown_marginal")
        \/ x = Unpropagated("dependency_gap")
        \/ x = good /\ known /\ declared
    BY DEF joint_sample
  <1> HIDE DEF x, w, known, declared
  <1>3. good \in Summaries /\ good.valid = TRUE /\ good.low = 0 /\ good.high = w
    BY <1>1 DEF Summaries
  <1>4. Unpropagated("unknown_marginal") \in Summaries /\ Unpropagated("unknown_marginal").valid = FALSE
    BY DEF Summaries, Unpropagated
  <1>5. Unpropagated("dependency_gap") \in Summaries /\ Unpropagated("dependency_gap").valid = FALSE
    BY DEF Summaries, Unpropagated
  <1> HIDE DEF good
  <1> QED
    BY <1>2, <1>3, <1>4, <1>5 DEF x, w, known, declared

\* The leaf ranked first is one of the uncertain leaves that narrow the interval
\* most, when there is one and the interval is valid.
LEMMA RankedFirst ==
    ASSUME NEW m, LeavesKnown(m), NEW joint
    PROVE  LET top == rank_width_reduction(m, joint)
           IN  \/ top = None
               \/ /\ top \in Nat /\ top \in Uncertain(m)
                  /\ \A other \in Uncertain(m) : TotalWidth(measured_exactly(m, top))
                                                   <= TotalWidth(measured_exactly(m, other))
  <1> DEFINE left(n) == TotalWidth(measured_exactly(m, n))
             best == {n \in Uncertain(m) : \A other \in Uncertain(m) : left(n) <= left(other)}
             top  == rank_width_reduction(m, joint)
  <1>1. top = IF best = {} \/ ~joint_sample(m, joint).valid THEN None ELSE Min(best)
    BY DEF rank_width_reduction
  <1>2. Min(best) = FirstOf(best)
    BY DEF Min, FirstOf
  <1>3. best \in SUBSET Nat
    BY DEF Uncertain, LeavesKnown
  <1>4. CASE best = {} \/ ~joint_sample(m, joint).valid
    BY <1>1, <1>4
  <1>5. CASE ~(best = {} \/ ~joint_sample(m, joint).valid)
    <2>1. FirstOf(best) \in best
      <3> HIDE DEF best
      <3> QED
        BY <1>3, <1>5, LeastExists
    <2>2. top \in best
      BY <1>1, <1>2, <1>5, <2>1
    <2>3. top \in Nat
      BY <1>3, <2>2
    <2> QED
      BY <2>2, <2>3
  <1> QED
    BY <1>4, <1>5

\* An evaluation, unless it raises, is one.
LEMMA EvaluationType ==
    ASSUME NEW s, NEW t, WellFormed(t), s.actions \in Seq(FermiOps), Evaluable(s, t),
           evaluation_of(s, t) # Failed
    PROVE  LET m == marginals_of(s, ActiveLeaves(t))
           IN  /\ evaluation_of(s, t) \in Evaluations
               /\ joint_sample(m, s.joint) # Failed
               /\ evaluation_of(s, t).summary = joint_sample(m, s.joint)
               /\ evaluation_of(s, t).sufficiency
                    = evaluate_sufficiency(joint_sample(m, s.joint), tolerance_of(s))
  <1> DEFINE m == marginals_of(s, ActiveLeaves(t))
             x == joint_sample(m, s.joint)
             ok == evaluate_sufficiency(x, tolerance_of(s))
             top == rank_width_reduction(m, s.joint)
             v == evaluation_of(s, t)
             D == DOMAIN m
  <1>1. LeavesKnown(m)
    BY ContextIsKnown
  <1>2. v = IF x = Failed THEN Failed
            ELSE [leaves |-> D, summary |-> x, sufficiency |-> ok, next |-> top]
    BY DEF evaluation_of, evaluation_on
  <1>3. x # Failed
    BY <1>2
  <1> HIDE DEF m
  <1>4. x \in Summaries
    BY <1>1, <1>3, SampleFacts
  <1>5. ok \in {"passes", "fails", "not_assessable"}
    BY DEF evaluate_sufficiency
  <1>6. top \in Nat \cup {None}
    BY <1>1, RankedFirst
  <1>7. D \in SUBSET Nat
    BY <1>1 DEF LeavesKnown
  <1> HIDE DEF v, x, ok, top, D
  <1>8. v \in Evaluations /\ v.summary = x /\ v.sufficiency = ok
    BY <1>2, <1>3, <1>4, <1>5, <1>6, <1>7 DEF Evaluations
  <1> QED
    BY <1>3, <1>8 DEF v, x, ok, m

-----------------------------------------------------------------------------
(* The states of the Fermi kernel *)

Session(q, a, t, j, e, f, d) ==
    [question |-> q, actions |-> a, tree |-> t, joint |-> j, evaluation |-> e,
     frontierTest |-> f, depth |-> d]

LEMMA SessionParts ==
    ASSUME NEW q, NEW a, NEW t, NEW j, NEW e, NEW f, NEW d
    PROVE  LET s == Session(q, a, t, j, e, f, d)
           IN  /\ s.question = q /\ s.actions = a /\ s.tree = t /\ s.joint = j
               /\ s.evaluation = e /\ s.frontierTest = f /\ s.depth = d
  BY DEF Session

\* What of the state an evaluation reads.
SameContext(u, s) == u.question = s.question /\ u.actions = s.actions /\ u.joint = s.joint

LEMMA ContextSuffices ==
    ASSUME NEW u, NEW s, NEW t, SameContext(u, s)
    PROVE  /\ Evaluable(u, t) <=> Evaluable(s, t)
           /\ evaluation_of(u, t) = evaluation_of(s, t)
           /\ marginals_of(u, ActiveLeaves(t)) = marginals_of(s, ActiveLeaves(t))
  <1>1. marginals_of(u, ActiveLeaves(t)) = marginals_of(s, ActiveLeaves(t))
    BY DEF marginals_of, SameContext
  <1>2. tolerance_of(u) = tolerance_of(s)
    BY DEF tolerance_of, SameContext
  <1>3. Evaluable(u, t) <=> Evaluable(s, t)
    BY DEF Evaluable, HasContext, SameContext
  <1>4. evaluation_of(u, t) = evaluation_of(s, t)
    BY <1>1, <1>2 DEF evaluation_of, evaluation_on, SameContext
  <1> QED
    BY <1>1, <1>3, <1>4

\* The tree and its depth are those of the recorded actions.
TreeOK(s) ==
    /\ s.actions \in Seq(FermiOps)
    /\ s.question = None => s.actions = <<>> /\ s.tree = None /\ s.depth = 0
    /\ s.question # None => /\ s.question \in Nat
                            /\ s.tree = rebuild_tree(s.actions)
                            /\ WellFormed(s.tree)
                            /\ s.depth = Depth(s.tree)

\* The evaluation is that of the tree and the dependence.
EvaluationOK(s) ==
    s.evaluation # None =>
        /\ s.question # None
        /\ Evaluable(s, s.tree)
        /\ s.evaluation = evaluation_of(s, s.tree)
        /\ s.evaluation # Failed

\* The frontier test is a test of that evaluation.
TestsEvaluation(y, s, x) ==
    /\ y # Failed
    /\ \E op \in FermiOps :
          /\ op.name = "test_frontier"
          /\ y = frontier_test_of(marginals_of(s, ActiveLeaves(s.tree)), s.joint, x, op)

TestOK(s) ==
    s.frontierTest # None =>
        s.evaluation # None /\ TestsEvaluation(s.frontierTest, s, s.evaluation)

IsSession(s) == \E q, a, t, j, e, f, d : s = Session(q, a, t, j, e, f, d)

StateOK(s) == IsSession(s) /\ TreeOK(s) /\ EvaluationOK(s) /\ TestOK(s)

LEMMA FirstState == StateOK(fermi_initial_state) /\ fermi_initial_state.question = None
  <1>1. fermi_initial_state = Session(None, <<>>, None, None, None, None, 0)
    BY DEF fermi_initial_state, Session
  <1> DEFINE s == fermi_initial_state
             none == <<>>
  <1>2. none \in Seq(FermiOps)
    OBVIOUS
  <1> HIDE DEF s, none
  <1>3. s = Session(None, none, None, None, None, None, 0)
    BY <1>1 DEF s, none
  <1>4. /\ s.question = None /\ s.actions = none /\ s.tree = None /\ s.evaluation = None
        /\ s.frontierTest = None /\ s.depth = 0
    BY <1>3, SessionParts
  <1>5. IsSession(s)
    BY <1>3 DEF IsSession
  <1>6. TreeOK(s) /\ EvaluationOK(s) /\ TestOK(s)
    BY <1>2, <1>4 DEF TreeOK, EvaluationOK, TestOK, none
  <1> QED
    BY <1>4, <1>5, <1>6 DEF StateOK, s

\* Setting one field leaves the others.
LEMMA EvaluationSet ==
    ASSUME NEW q, NEW a, NEW t, NEW j, NEW e, NEW f, NEW d, NEW x
    PROVE  [Session(q, a, t, j, e, f, d) EXCEPT !.evaluation = x] = Session(q, a, t, j, x, f, d)
  BY DEF Session

LEMMA TestSet ==
    ASSUME NEW q, NEW a, NEW t, NEW j, NEW e, NEW f, NEW d, NEW x
    PROVE  [Session(q, a, t, j, e, f, d) EXCEPT !.frontierTest = x] = Session(q, a, t, j, e, x, d)
  BY DEF Session

LEMMA JointSet ==
    ASSUME NEW q, NEW a, NEW t, NEW j, NEW e, NEW f, NEW d, NEW x
    PROVE  [Session(q, a, t, j, e, f, d) EXCEPT !.joint = x] = Session(q, a, t, x, e, f, d)
  BY DEF Session

LEMMA QuestionSet ==
    ASSUME NEW q, NEW a, NEW t, NEW j, NEW e, NEW f, NEW d, NEW x
    PROVE  [Session(q, a, t, j, e, f, d) EXCEPT !.question = x] = Session(x, a, t, j, e, f, d)
  BY DEF Session

LEMMA ActionsSet ==
    ASSUME NEW q, NEW a, NEW t, NEW j, NEW e, NEW f, NEW d, NEW x
    PROVE  [Session(q, a, t, j, e, f, d) EXCEPT !.actions = x] = Session(q, x, t, j, e, f, d)
  BY DEF Session

LEMMA TreeSet ==
    ASSUME NEW q, NEW a, NEW t, NEW j, NEW e, NEW f, NEW d, NEW x
    PROVE  [Session(q, a, t, j, e, f, d) EXCEPT !.tree = x] = Session(q, a, x, j, e, f, d)
  BY DEF Session

LEMMA DepthSet ==
    ASSUME NEW q, NEW a, NEW t, NEW j, NEW e, NEW f, NEW d, NEW x
    PROVE  [Session(q, a, t, j, e, f, d) EXCEPT !.depth = x] = Session(q, a, t, j, e, f, x)
  BY DEF Session

LEMMA ResetState ==
    ASSUME NEW q, NEW a, NEW t, NEW j, NEW e, NEW f, NEW d
    PROVE  reset(Session(q, a, t, j, e, f, d)) = Session(q, a, t, j, None, None, d)
  <1> DEFINE s == Session(q, a, t, j, e, f, d)
             u == Session(q, a, t, j, None, f, d)
  <1>1. [s EXCEPT !.evaluation = None] = u
    BY EvaluationSet
  <1>2. [u EXCEPT !.frontierTest = None] = Session(q, a, t, j, None, None, d)
    BY TestSet
  <1>3. reset(s) = [[s EXCEPT !.evaluation = None] EXCEPT !.frontierTest = None]
    BY DEF reset
  <1> HIDE DEF s, u
  <1> QED
    BY <1>1, <1>2, <1>3 DEF s

LEMMA RecordedState ==
    ASSUME NEW q, NEW a, NEW t, NEW j, NEW e, NEW f, NEW d, NEW op, NEW u,
           recorded(op, Session(q, a, t, j, e, f, d), u) # Failed
    PROVE  /\ u # Failed
           /\ recorded(op, Session(q, a, t, j, e, f, d), u)
                = Session(q, Append(a, op), u, j, None, None, Depth(u))
  <1> DEFINE s == Session(q, a, t, j, e, f, d)
             b == Append(a, op)
             h == Depth(u)
  <1>1. u # Failed
    BY DEF recorded
  <1>2. reset(s) = Session(q, a, t, j, None, None, d)
    BY ResetState
  <1>3. reset(s).actions = a
    BY <1>2, SessionParts
  <1>4. recorded(op, s, u) = [reset(s) EXCEPT !.actions = b, !.tree = u, !.depth = h]
    BY <1>1, <1>3 DEF recorded
  <1> HIDE DEF s, b, h
  <1>5. [Session(q, a, t, j, None, None, d) EXCEPT !.actions = b, !.tree = u, !.depth = h]
          = Session(q, b, u, j, None, None, h)
    <2> DEFINE r == Session(q, a, t, j, None, None, d)
    <2>1. [r EXCEPT !.actions = b] = Session(q, b, t, j, None, None, d)
      BY ActionsSet
    <2>2. [Session(q, b, t, j, None, None, d) EXCEPT !.tree = u] = Session(q, b, u, j, None, None, d)
      BY TreeSet
    <2>3. [Session(q, b, u, j, None, None, d) EXCEPT !.depth = h] = Session(q, b, u, j, None, None, h)
      BY DepthSet
    <2>4. [r EXCEPT !.actions = b, !.tree = u, !.depth = h]
            = [[[r EXCEPT !.actions = b] EXCEPT !.tree = u] EXCEPT !.depth = h]
      OBVIOUS
    <2> QED
      BY <2>1, <2>2, <2>3, <2>4
  <1> QED
    BY <1>1, <1>2, <1>4, <1>5 DEF s, b, h

\* What the execution of an action makes of a state.
ExecutesTo(u, s, op) ==
    /\ StateOK(u)
    /\ u.question # None <=> (s.question # None \/ op.name = "define_question")
    /\ u.depth \in Int /\ s.depth \in Int
    /\ u.depth <= s.depth + 1
    /\ op.name \notin {"expand", "propose_alternative"} => u.depth <= s.depth

LEMMA DepthType == ASSUME NEW s, TreeOK(s) PROVE s.depth \in Int
  <1>1. CASE s.question = None
    BY <1>1 DEF TreeOK
  <1>2. CASE s.question # None
    BY <1>2, DepthIs DEF TreeOK, WellFormed
  <1> QED
    BY <1>1, <1>2

LEMMA DefineKeeps ==
    ASSUME NEW op \in FermiOps, op.name = "define_question", NEW s, StateOK(s), s.question = None
    PROVE  ExecutesTo(fermi_execute(op, s), s, op)
  <1>1. PICK q, a, t, j, e, f, d : s = Session(q, a, t, j, e, f, d)
    BY DEF StateOK, IsSession
  <1> DEFINE c == create_decomposition
             x == op.acceptable
             u == fermi_execute(op, s)
  <1>2. x \in Nat /\ x # None
    BY FermiAssumption, NoneAssumption
  <1>3. s.actions = <<>> /\ s.depth = 0 /\ s.actions \in Seq(FermiOps)
    BY DEF StateOK, TreeOK
  <1>4. a = s.actions /\ d = s.depth
    BY <1>1, SessionParts
  <1>5. u = Session(x, a, c, j, None, None, 0)
    <2>1. u = [reset(s) EXCEPT !.question = x, !.tree = c, !.depth = 0]
      <3>1. fermi_execute(op, s) = [reset(s) EXCEPT !.question = op.acceptable,
                                                    !.tree = create_decomposition, !.depth = 0]
        BY DEF fermi_execute, tree_action_names
      <3> QED
        BY <3>1 DEF u, x, c
    <2>2. reset(s) = Session(q, a, t, j, None, None, d)
      BY <1>1, ResetState
    <2> DEFINE r == reset(s)
    <2> HIDE DEF r, u, x, c
    <2>3. u = [[[r EXCEPT !.question = x] EXCEPT !.tree = c] EXCEPT !.depth = 0]
      BY <2>1 DEF r
    <2>4. [r EXCEPT !.question = x] = Session(x, a, t, j, None, None, d)
      BY <2>2, QuestionSet DEF r
    <2>5. [Session(x, a, t, j, None, None, d) EXCEPT !.tree = c] = Session(x, a, c, j, None, None, d)
      BY TreeSet
    <2>6. [Session(x, a, c, j, None, None, d) EXCEPT !.depth = 0] = Session(x, a, c, j, None, None, 0)
      BY DepthSet
    <2> QED
      BY <2>3, <2>4, <2>5, <2>6
  <1> HIDE DEF u, x, c
  <1>6. /\ u.question = x /\ u.actions = a /\ u.tree = c /\ u.evaluation = None
        /\ u.frontierTest = None /\ u.depth = 0
    BY <1>5, SessionParts
  <1>7. WellFormed(c) /\ Depth(c) = 0 /\ c = rebuild_tree(a)
    BY <1>3, <1>4, FreshTree, RebuildNothing DEF c
  <1>8. StateOK(u)
    <2>1. IsSession(u)
      BY <1>5 DEF IsSession
    <2>2. TreeOK(u)
      BY <1>2, <1>3, <1>4, <1>6, <1>7 DEF TreeOK
    <2>3. EvaluationOK(u) /\ TestOK(u)
      BY <1>6 DEF EvaluationOK, TestOK
    <2> QED
      BY <2>1, <2>2, <2>3 DEF StateOK
  <1> QED
    BY <1>2, <1>3, <1>6, <1>8 DEF ExecutesTo, u

LEMMA RecordKeeps ==
    ASSUME NEW op \in FermiOps, op.name \in tree_action_names, NEW s, StateOK(s),
           fermi_execute(op, s) # Failed
    PROVE  ExecutesTo(fermi_execute(op, s), s, op)
  <1>1. PICK q, a, t, j, e, f, d : s = Session(q, a, t, j, e, f, d)
    BY DEF StateOK, IsSession
  <1>2. s.question = q /\ s.actions = a /\ s.tree = t /\ s.depth = d
    BY <1>1, SessionParts
  <1> DEFINE b == Append(a, op)
             v == rebuild_tree(b)
             u == fermi_execute(op, s)
  <1>3. q # None /\ u = recorded(op, s, v)
    BY <1>2 DEF fermi_execute, tree_action_names, record_tree_action
  <1>4. /\ a \in Seq(FermiOps) /\ q \in Nat /\ t = rebuild_tree(a) /\ WellFormed(t) /\ d = Depth(t)
    BY <1>2, <1>3 DEF StateOK, TreeOK
  <1>5. b \in Seq(FermiOps)
    BY <1>4
  <1>6. v = IF t = Failed THEN Failed ELSE settle(t, op)
    BY <1>4, RebuildStep
  <1> DEFINE h == Depth(v)
  <1> HIDE DEF u, v
  <1>7. v # Failed /\ u = Session(q, b, v, j, None, None, h)
    <2>1. recorded(op, Session(q, a, t, j, e, f, d), v) # Failed
      BY <1>1, <1>3 DEF u
    <2> HIDE DEF b, h
    <2> QED
      BY <1>1, <1>3, <2>1, RecordedState DEF b, h
  <1>8. v = settle(t, op)
    BY <1>6, <1>7
  <1>9. Settles(v, t, op)
    BY <1>4, <1>7, <1>8, SettleKeeps
  <1> HIDE DEF b, h
  <1>10. /\ u.question = q /\ u.actions = b /\ u.tree = v /\ u.evaluation = None
         /\ u.frontierTest = None /\ u.depth = h
    BY <1>7, SessionParts
  <1>11. StateOK(u)
    <2>1. IsSession(u)
      BY <1>7 DEF IsSession
    <2>2. TreeOK(u)
      BY <1>3, <1>4, <1>5, <1>9, <1>10 DEF TreeOK, Settles, v, h
    <2>3. EvaluationOK(u) /\ TestOK(u)
      BY <1>10 DEF EvaluationOK, TestOK
    <2> QED
      BY <2>1, <2>2, <2>3 DEF StateOK
  <1>12. /\ h <= d + 1 /\ h \in Int /\ d \in Int
         /\ op.name \notin {"expand", "propose_alternative"} => h <= d
    <2>1. HasParents(t) /\ HasParents(v) /\ Extends(v, t)
      BY <1>4, <1>9 DEF Settles, WellFormed
    <2>2. /\ Depth(v) <= Depth(t) + 1 /\ Depth(t) \in Int /\ Depth(v) \in Int
          /\ NodesOf(v) = NodesOf(t) => Depth(v) <= Depth(t)
      BY <2>1, DepthGrows DEF Extends
    <2>3. op.name \notin {"expand", "propose_alternative"} => NodesOf(v) = NodesOf(t)
      BY <1>9 DEF Settles, tree_action_names
    <2> QED
      BY <1>4, <2>2, <2>3 DEF h
  <1>13. op.name # "define_question"
    BY DEF tree_action_names
  <1> QED
    BY <1>2, <1>3, <1>10, <1>11, <1>12 DEF ExecutesTo, u

\* A state with the question, the actions and the tree of another.
LEMMA SameTree ==
    ASSUME NEW u, NEW s, TreeOK(s), u.question = s.question, u.actions = s.actions,
           u.tree = s.tree, u.depth = s.depth
    PROVE  TreeOK(u)
  BY DEF TreeOK

LEMMA DependKeeps ==
    ASSUME NEW op \in FermiOps, op.name = "set_dependence", NEW s, StateOK(s),
           fermi_execute(op, s) # Failed
    PROVE  ExecutesTo(fermi_execute(op, s), s, op)
  <1>1. PICK q, a, t, j, e, f, d : s = Session(q, a, t, j, e, f, d)
    BY DEF StateOK, IsSession
  <1>2. s.question = q /\ s.actions = a /\ s.tree = t /\ s.depth = d
    BY <1>1, SessionParts
  <1> DEFINE x == op.dependence
             u == fermi_execute(op, s)
  <1>3. u = [reset(s) EXCEPT !.joint = x]
    BY DEF fermi_execute, tree_action_names
  <1>4. reset(s) = Session(q, a, t, j, None, None, d)
    BY <1>1, ResetState
  <1> HIDE DEF u, x
  <1>5. u = Session(q, a, t, x, None, None, d)
    BY <1>3, <1>4, JointSet
  <1>6. /\ u.question = q /\ u.actions = a /\ u.tree = t /\ u.evaluation = None
        /\ u.frontierTest = None /\ u.depth = d
    BY <1>5, SessionParts
  <1>7. TreeOK(s)
    BY DEF StateOK
  <1>8. TreeOK(u)
    BY <1>2, <1>6, <1>7, SameTree
  <1>9. StateOK(u)
    BY <1>5, <1>6, <1>8 DEF StateOK, IsSession, EvaluationOK, TestOK
  <1>10. d \in Int
    BY <1>2, <1>7, DepthType
  <1> QED
    BY <1>2, <1>6, <1>9, <1>10 DEF ExecutesTo, u

\* Evaluating, with the tree of the recorded actions.
LEMMA EvaluateIs ==
    ASSUME NEW s, StateOK(s), evaluate(s, rebuild_tree(s.actions)) # Failed
    PROVE  \E q, a, t, j, d :
               LET x == evaluation_of(s, t)
                   u == Session(q, a, t, j, x, None, d)
               IN  /\ evaluate(s, rebuild_tree(s.actions)) = u
                   /\ q = s.question /\ a = s.actions /\ t = s.tree /\ j = s.joint /\ d = s.depth
                   /\ q # None /\ t = rebuild_tree(a) /\ WellFormed(t)
                   /\ Evaluable(s, t) /\ x # Failed /\ x \in Evaluations /\ x # None
  <1>1. PICK q, a, t, j, e, f, d : s = Session(q, a, t, j, e, f, d)
    BY DEF StateOK, IsSession
  <1>2. s.question = q /\ s.actions = a /\ s.tree = t /\ s.joint = j /\ s.depth = d
    BY <1>1, SessionParts
  <1> DEFINE v == rebuild_tree(s.actions)
             x == evaluation_of(s, v)
             u == evaluate(s, v)
  <1> HIDE DEF v
  <1>3. Evaluable(s, v) /\ x # Failed /\ u = [reset(s) EXCEPT !.evaluation = x]
    <2>1. u # Failed
      BY DEF v
    <2> QED
      BY <2>1 DEF evaluate
  <1>4. q # None
    BY <1>2, <1>3 DEF Evaluable, HasContext
  <1>5. t = v /\ WellFormed(t) /\ a \in Seq(FermiOps) /\ v = rebuild_tree(a)
    BY <1>2, <1>4 DEF StateOK, TreeOK, v
  <1>6. x \in Evaluations
    BY <1>2, <1>3, <1>5, EvaluationType
  <1>7. x # None
    BY <1>6, FermiAssumption
  <1>8. reset(s) = Session(q, a, t, j, None, None, d)
    BY <1>1, ResetState
  <1> HIDE DEF x, u
  <1>9. u = Session(q, a, t, j, x, None, d)
    BY <1>3, <1>8, EvaluationSet
  <1>10. x = evaluation_of(s, t)
    BY <1>5 DEF x
  <1> QED
    BY <1>2, <1>3, <1>4, <1>5, <1>6, <1>7, <1>9, <1>10 DEF u, v

\* An evaluated state is sound, with a test of the evaluation or without one.
LEMMA EvaluatedIsSound ==
    ASSUME NEW s, StateOK(s), NEW x, NEW y, NEW u,
           u = Session(s.question, s.actions, s.tree, s.joint, x, y, s.depth),
           s.question # None, Evaluable(s, s.tree), x = evaluation_of(s, s.tree), x # Failed,
           y # None => x # None /\ TestsEvaluation(y, s, x)
    PROVE  StateOK(u) /\ u.question = s.question /\ u.depth = s.depth /\ s.depth \in Int
  <1>1. /\ u.question = s.question /\ u.actions = s.actions /\ u.tree = s.tree /\ u.joint = s.joint
        /\ u.evaluation = x /\ u.frontierTest = y /\ u.depth = s.depth
    BY SessionParts
  <1>2. IsSession(u)
    BY DEF IsSession
  <1>3. TreeOK(s)
    BY DEF StateOK
  <1>4. TreeOK(u) /\ s.depth \in Int
    BY <1>1, <1>3, SameTree, DepthType
  <1>5. SameContext(u, s)
    BY <1>1 DEF SameContext
  <1> DEFINE t == s.tree
  <1> HIDE DEF t
  <1>6. /\ Evaluable(u, t) <=> Evaluable(s, t)
        /\ evaluation_of(u, t) = evaluation_of(s, t)
        /\ marginals_of(u, ActiveLeaves(t)) = marginals_of(s, ActiveLeaves(t))
    BY <1>5, ContextSuffices
  <1>7. EvaluationOK(u)
    BY <1>1, <1>6 DEF EvaluationOK, t
  <1>8. TestOK(u)
    BY <1>1, <1>6 DEF TestOK, TestsEvaluation, t
  <1> QED
    BY <1>1, <1>2, <1>4, <1>7, <1>8 DEF StateOK

LEMMA EvaluateKeeps ==
    ASSUME NEW op \in FermiOps, op.name = "evaluate", NEW s, StateOK(s),
           fermi_execute(op, s) # Failed
    PROVE  ExecutesTo(fermi_execute(op, s), s, op)
  <1> DEFINE u == fermi_execute(op, s)
  <1>1. u = evaluate(s, rebuild_tree(s.actions))
    BY DEF fermi_execute, tree_action_names
  <1> HIDE DEF u
  <1>2. PICK q, a, t, j, d :
            LET x == evaluation_of(s, t)
            IN  /\ u = Session(q, a, t, j, x, None, d)
                /\ q = s.question /\ a = s.actions /\ t = s.tree /\ j = s.joint /\ d = s.depth
                /\ q # None /\ Evaluable(s, t) /\ x # Failed
    BY <1>1, EvaluateIs DEF u
  <1>3. StateOK(u) /\ u.question = s.question /\ u.depth = s.depth /\ s.depth \in Int
    BY <1>2, EvaluatedIsSound
  <1> QED
    BY <1>2, <1>3 DEF ExecutesTo, u

LEMMA TestKeeps ==
    ASSUME NEW op \in FermiOps, op.name = "test_frontier", NEW s, StateOK(s),
           fermi_execute(op, s) # Failed
    PROVE  ExecutesTo(fermi_execute(op, s), s, op)
  <1> DEFINE u == fermi_execute(op, s)
             evaluated == evaluate(s, rebuild_tree(s.actions))
             v == rebuild_tree(s.actions)
             y == frontier_test_of(marginals_of(s, ActiveLeaves(v)), s.joint, evaluated.evaluation, op)
  <1>1. u = test_frontier(op, s, v)
    BY DEF fermi_execute, tree_action_names
  <1>2. evaluated # Failed /\ y # Failed /\ u = [evaluated EXCEPT !.frontierTest = y]
    <2> HIDE DEF u
    <2>1. u # Failed
      BY DEF u
    <2>2. u = IF evaluated = Failed \/ y = Failed THEN Failed ELSE [evaluated EXCEPT !.frontierTest = y]
      BY <1>1 DEF test_frontier
    <2> HIDE DEF evaluated, y
    <2> QED
      BY <2>1, <2>2
  <1> HIDE DEF u, v, y
  <1>3. PICK q, a, t, j, d :
            LET x == evaluation_of(s, t)
            IN  /\ evaluated = Session(q, a, t, j, x, None, d)
                /\ q = s.question /\ a = s.actions /\ t = s.tree /\ j = s.joint /\ d = s.depth
                /\ q # None /\ t = rebuild_tree(a) /\ WellFormed(t)
                /\ Evaluable(s, t) /\ x # Failed /\ x \in Evaluations /\ x # None
    BY <1>2, EvaluateIs
  <1> HIDE DEF evaluated
  <1> DEFINE x == evaluation_of(s, t)
  <1> HIDE DEF x
  <1>4. /\ evaluated = Session(q, a, t, j, x, None, d)
        /\ q = s.question /\ a = s.actions /\ t = s.tree /\ j = s.joint /\ d = s.depth
        /\ q # None /\ t = v /\ Evaluable(s, t) /\ x # Failed /\ x # None
        /\ evaluated.evaluation = x
    BY <1>3, SessionParts DEF x, v
  <1>5. y = frontier_test_of(marginals_of(s, ActiveLeaves(t)), s.joint, x, op)
    BY <1>4 DEF y
  <1>6. u = Session(q, a, t, j, x, y, d)
    BY <1>2, <1>4, TestSet
  <1>7. StateOK(u) /\ u.question = s.question /\ u.depth = s.depth /\ s.depth \in Int
    <2>1. x = evaluation_of(s, s.tree)
      BY <1>4 DEF x
    <2>2. TestsEvaluation(y, s, x)
      BY <1>2, <1>4, <1>5 DEF TestsEvaluation
    <2>3. /\ u = Session(s.question, s.actions, s.tree, s.joint, x, y, s.depth)
          /\ s.question # None /\ Evaluable(s, s.tree) /\ x # Failed /\ x # None
      BY <1>4, <1>6
    <2> QED
      BY <2>1, <2>2, <2>3, EvaluatedIsSound
  <1> QED
    BY <1>4, <1>7 DEF ExecutesTo, u

LEMMA ExecuteKeeps ==
    ASSUME NEW op \in FermiOps, op.name \in action_names, NEW s, StateOK(s),
           op.name = "define_question" => s.question = None,
           fermi_execute(op, s) # Failed
    PROVE  ExecutesTo(fermi_execute(op, s), s, op)
  BY DefineKeeps, RecordKeeps, DependKeeps, EvaluateKeeps, TestKeeps DEF action_names

-----------------------------------------------------------------------------
(* The live actions of a Fermi session *)

\* The kernel the runtime drives is the Fermi kernel (FermiKernel as the
\* KernelProtocol argument of AgentRuntime).
KernelIsFermi ==
    /\ Ops = FermiOps
    /\ KernelStates = FermiStates
    /\ NoState = Failed
    /\ InitialState = fermi_initial_state
    /\ DepthOps = fermi_depth_ops
    /\ \A op, s : Validates(op, s) <=> fermi_validate(op, s)
    /\ \A op, s : Execute(op, s) = fermi_execute(op, s)
    /\ \A s : DepthOf(s) = fermi_depth(s)
    /\ \A s : Verdict(s) = fermi_verdict(s)

\* Known requests, of which one at most defines the question.
Defines(e, i) == e[i].name = "define_question"
IsPlan(e) ==
    /\ \A i \in DOMAIN e : e[i] \in FermiOps /\ e[i].name \in action_names
    /\ \A i, j \in DOMAIN e : Defines(e, i) /\ Defines(e, j) => i = j

\* What a projection is after n positions.
PlanState(e, n) ==
    LET s == StatesAfter(e)[n] IN
    s # Failed =>
        /\ StateOK(s)
        /\ s.question # None <=> \E i \in DOMAIN e : Defines(e, i) /\ i <= n

\* A plan that executes leads through sound states.
LEMMA PlanProjects ==
    ASSUME KernelIsFermi, NEW e, IsPlan(e), NEW m \in Nat, DOMAIN e \subseteq 1..m
    PROVE  \A n \in Nat : PlanState(e, n)
  <1> DEFINE K == {n \in Nat : PlanState(e, n)}
  <1>1. 0 \in K
    <2>1. StatesAfter(e)[0] = fermi_initial_state
      BY StatesAfterFacts DEF KernelIsFermi
    <2>2. \A i \in DOMAIN e : ~(i <= 0)
      OBVIOUS
    <2> QED
      BY <2>1, <2>2, FirstState DEF PlanState
  <1>2. ASSUME NEW n \in Nat, n \in K PROVE n + 1 \in K
    <2> DEFINE s == StatesAfter(e)[n]
               u == StatesAfter(e)[n + 1]
               op == e[n + 1]
    <2>1. u = IF n + 1 \in DOMAIN e /\ s # Failed THEN fermi_execute(op, s) ELSE s
      <3>1. u = ProjectionStep(e, n + 1, s)
        BY StatesAfterFacts
      <3> QED
        BY <3>1 DEF ProjectionStep, KernelIsFermi
    <2>2. s # Failed => /\ StateOK(s)
                        /\ s.question # None <=> \E i \in DOMAIN e : Defines(e, i) /\ i <= n
      BY <1>2 DEF PlanState
    <2>3. \A i \in DOMAIN e : i \in Nat /\ (i <= n + 1 <=> i <= n \/ i = n + 1)
      OBVIOUS
    <2> HIDE DEF s, u
    <2>4. CASE n + 1 \notin DOMAIN e \/ s = Failed
      <3>1. u = s
        BY <2>1, <2>4
      <3>2. s # Failed => \A i \in DOMAIN e : i <= n + 1 <=> i <= n
        BY <2>3, <2>4
      <3> QED
        BY <2>2, <3>1, <3>2 DEF PlanState, u
    <2>5. CASE n + 1 \in DOMAIN e /\ s # Failed /\ u # Failed
      <3>1. u = fermi_execute(op, s) /\ StateOK(s)
        BY <2>1, <2>2, <2>5
      <3>2. op \in FermiOps /\ op.name \in action_names
        BY <2>5 DEF IsPlan
      <3>3. op.name = "define_question" => s.question = None
        <4>1. \A i \in DOMAIN e : Defines(e, i) /\ Defines(e, n + 1) => i = n + 1
          BY <2>5 DEF IsPlan
        <4>2. \A i \in DOMAIN e : i <= n => i # n + 1
          BY <2>3
        <4> QED
          BY <2>2, <2>5, <4>1, <4>2 DEF Defines
      <3>4. ExecutesTo(u, s, op)
        BY <2>5, <3>1, <3>2, <3>3, ExecuteKeeps
      <3>5. StateOK(u) /\ (u.question # None <=> (s.question # None \/ op.name = "define_question"))
        BY <3>4 DEF ExecutesTo
      <3>6. u.question # None <=> \E i \in DOMAIN e : Defines(e, i) /\ i <= n + 1
        <4>1. op.name = "define_question" <=> Defines(e, n + 1)
          BY DEF Defines
        <4> QED
          BY <2>2, <2>3, <2>5, <3>5, <4>1
      <3> QED
        BY <3>5, <3>6 DEF PlanState, u
    <2>6. CASE u = Failed
      BY <2>6 DEF PlanState, u
    <2> QED
      BY <2>4, <2>5, <2>6
  <1> HIDE DEF K
  <1>3. Nat \subseteq K
    BY <1>1, <1>2, Projections!Induction
  <1> QED
    BY <1>3 DEF K

\* The live actions are a plan, and the state is a sound one.
PlanHolds == IsPlan(Effects(log))

LEMMA PlannedState ==
    ASSUME KernelIsFermi, IInv, PlanHolds
    PROVE  /\ StateOK(state)
           /\ state.question # None <=> \E i \in DOMAIN Effects(log) : Defines(Effects(log), i)
  <1> DEFINE e == Effects(log)
             n == Len(log)
  <1>1. log \in Seq(Pairs) /\ state \in KernelStates /\ state = Project(e)
    BY DEF IInv, TypeOK, StateIsProjection
  <1>2. n \in Nat /\ DOMAIN e \subseteq 1..n
    BY <1>1, LenProperties, EffectsDomain
  <1>3. IsPlan(e)
    BY DEF PlanHolds
  <1> HIDE DEF e, n
  <1>4. state = StatesAfter(e)[n]
    BY <1>1, <1>2, ProjectIsLast
  <1>5. state # Failed
    BY <1>1, KernelAssumption DEF KernelIsFermi
  <1>6. PlanState(e, n)
    BY <1>2, <1>3, PlanProjects
  <1>7. \A i \in DOMAIN e : i <= n
    BY <1>2
  <1> QED
    BY <1>4, <1>5, <1>6, <1>7 DEF PlanState, e

LEMMA PlanStep ==
    ASSUME KernelIsFermi, IInv, IInv', PlanHolds, [Next]_vars
    PROVE  PlanHolds'
  <1> DEFINE e == Effects(log)
             n == Len(log) + 1
  <1>1. IsPlan(e)
    BY DEF PlanHolds
  <1> SUFFICES IsPlan(Effects(log'))
    BY DEF PlanHolds
  <1> DEFINE f == Effects(log')
  <1>2. CASE KeepsActions
    BY <1>1, <1>2 DEF KeepsActions
  <1>3. CASE UndoesAction
    <2>1. Restricts(f, e)
      BY <1>3 DEF UndoesAction
    <2> HIDE DEF e, f
    <2> QED
      BY <1>1, <2>1 DEF Restricts, IsPlan, Defines, f
  <1>4. CASE ExecutesAction
    <2>1. PICK op \in Ops : Validates(op, state) /\ Adds(f, e, n, op)
      BY <1>4 DEF ExecutesAction
    <2>2. op \in FermiOps /\ fermi_validate(op, state)
      BY <2>1 DEF KernelIsFermi
    <2>3. op.name \in action_names /\ (op.name = "define_question" => state.question = None)
      BY <2>2 DEF fermi_validate
    <2>4. op.name = "define_question" => \A i \in DOMAIN e : ~Defines(e, i)
      BY <2>3, PlannedState
    <2> HIDE DEF e, f, n
    <2>5. DOMAIN f = DOMAIN e \cup {n} /\ f[n] = op /\ \A i \in DOMAIN e : f[i] = e[i]
      BY <2>1 DEF Adds
    <2>6. \A i \in DOMAIN f : f[i] \in FermiOps /\ f[i].name \in action_names
      BY <1>1, <2>2, <2>3, <2>5 DEF IsPlan
    <2>7. \A i \in DOMAIN e : Defines(f, i) <=> Defines(e, i)
      BY <2>5 DEF Defines
    <2>8. Defines(f, n) <=> op.name = "define_question"
      BY <2>5 DEF Defines
    <2>9. \A i, j \in DOMAIN f : Defines(f, i) /\ Defines(f, j) => i = j
      BY <1>1, <2>4, <2>5, <2>7, <2>8 DEF IsPlan
    <2> QED
      BY <2>6, <2>9 DEF IsPlan, f
  <1> QED
    BY <1>2, <1>3, <1>4, ActionSteps

LEMMA InitPlan == ASSUME Init PROVE PlanHolds
  <1>1. DOMAIN Effects(log) = {}
    BY DEF Init, Effects, StartPair
  <1> QED
    BY <1>1 DEF PlanHolds, IsPlan

\* Every session of the Fermi kernel has a plan.
THEOREM PlanKept == ASSUME KernelIsFermi PROVE Spec => []PlanHolds
  <1>1. Init => PlanHolds
    BY InitPlan
  <1>2. IInv /\ IInv' /\ PlanHolds /\ [Next]_vars => PlanHolds'
    BY PlanStep
  <1> QED
    BY <1>1, <1>2, InvariantHolds, PTL DEF Spec

(* The exported tree is the one the recorded tree actions rebuild, whatever *)
(* was rolled back, refused or evaluated in between (_record_tree_action).  *)
THEOREM TreeCorrect == ASSUME KernelIsFermi PROVE Spec => []TreeIsRebuilt
  <1>1. IInv /\ PlanHolds => TreeIsRebuilt
    BY PlannedState DEF TreeIsRebuilt, StateOK, TreeOK
  <1> QED
    BY <1>1, InvariantHolds, PlanKept, PTL
-----------------------------------------------------------------------------
(* What an executed frontier test says *)

MarginalsIn(s) == marginals_of(s, ActiveLeaves(s.tree))

\* The context of a test is complete, and its evaluation is the sample of it.
Sampled(s, m, x) ==
    /\ s.question \in Nat /\ Evaluable(s, s.tree)
    /\ LeavesKnown(m)
    /\ x # Failed
    /\ s.evaluation.summary = x
    /\ s.evaluation.sufficiency = evaluate_sufficiency(x, tolerance_of(s))

LEMMA EvaluationMeans ==
    ASSUME NEW s, StateOK(s), s.evaluation # None
    PROVE  Sampled(s, MarginalsIn(s), joint_sample(MarginalsIn(s), s.joint))
  <1> DEFINE t == s.tree
             x == s.evaluation
  <1>1. s.question # None /\ Evaluable(s, t) /\ x = evaluation_of(s, t) /\ x # Failed
    BY DEF StateOK, EvaluationOK
  <1>2. s.question \in Nat /\ WellFormed(t) /\ s.actions \in Seq(FermiOps)
    BY <1>1 DEF StateOK, TreeOK
  <1>3. LeavesKnown(MarginalsIn(s))
    BY <1>1, <1>2, ContextIsKnown DEF MarginalsIn
  <1> HIDE DEF t, x
  <1>4. LET m == marginals_of(s, ActiveLeaves(t))
        IN  /\ joint_sample(m, s.joint) # Failed
            /\ x.summary = joint_sample(m, s.joint)
            /\ x.sufficiency = evaluate_sufficiency(joint_sample(m, s.joint), tolerance_of(s))
    BY <1>1, <1>2, EvaluationType
  <1> QED
    BY <1>1, <1>2, <1>3, <1>4 DEF Sampled, MarginalsIn, t, x

\* The answers of a test.
LEMMA TestMeans ==
    ASSUME NEW s, StateOK(s), s.frontierTest # None
    PROVE  LET m == MarginalsIn(s)
               x == s.evaluation
               y == s.frontierTest
           IN  /\ x # None
               /\ y.status = "insufficient" <=> x.sufficiency # "passes"
               /\ y.status = "certified" =>
                    /\ x.sufficiency = "passes"
                    /\ y.useful \in Int /\ IsThreshold(y.useful)
                    /\ evaluate_saturation(x.summary, refinements(m, s.joint), y.useful)
  <1> DEFINE m == MarginalsIn(s)
             x == s.evaluation
             y == s.frontierTest
  <1>1. x # None /\ TestsEvaluation(y, s, x)
    BY DEF StateOK, TestOK
  <1>2. PICK op \in FermiOps :
            /\ op.name = "test_frontier"
            /\ y = frontier_test_of(m, s.joint, x, op)
    BY <1>1 DEF TestsEvaluation, MarginalsIn
  <1>3. op.useful \in Int
    BY <1>2, FermiAssumption
  <1>4. ~x.summary.valid => x.sufficiency # "passes"
    BY <1>1, EvaluationMeans DEF Sampled, evaluate_sufficiency
  <1> DEFINE nec == [n \in DOMAIN m |->
                       evaluate_necessity(x.summary,
                           [deletion |-> deletion_of(m, s.joint, n)], op.material)]
             sat == evaluate_saturation(x.summary, refinements(m, s.joint), op.useful)
  <1>5. y # Failed
    BY <1>1 DEF TestsEvaluation
  <1>6. CASE ~x.summary.valid
    <2>1. y.status = certify_frontier(x.sufficiency, <<>>, FALSE)
      BY <1>2, <1>6 DEF frontier_test_of
    <2>2. y.status = "insufficient"
      BY <1>4, <1>6, <2>1 DEF certify_frontier
    <2> QED
      BY <1>1, <1>4, <1>6, <2>2
  <1>7. CASE x.summary.valid
    <2>1. IsThreshold(op.useful) /\ y.status = certify_frontier(x.sufficiency, nec, sat)
          /\ y.useful = op.useful
      <3>1. y = IF ~IsThreshold(op.material) \/ ~IsThreshold(op.useful) THEN Failed
                ELSE [status |-> certify_frontier(x.sufficiency, nec, sat),
                      material |-> op.material, useful |-> op.useful]
        BY <1>2, <1>7 DEF frontier_test_of
      <3> HIDE DEF nec, sat, y
      <3> QED
        BY <1>5, <3>1
    <2> HIDE DEF nec, sat
    <2>2. /\ y.status = "insufficient" <=> x.sufficiency # "passes"
          /\ y.status = "certified" => x.sufficiency = "passes" /\ sat
      BY <2>1 DEF certify_frontier
    <2> QED
      BY <1>1, <1>3, <2>1, <2>2 DEF sat
  <1> QED
    BY <1>6, <1>7

(* No evaluation or frontier test outlives the question, the tree, the atoms *)
(* and the dependence it was made of (execute, rebuild_projection).          *)
THEOREM FreshnessCorrect == ASSUME KernelIsFermi PROVE Spec => []EvaluationIsFresh
  <1>1. ASSUME IInv, PlanHolds PROVE EvaluationIsFresh
    <2>1. StateOK(state)
      BY <1>1, PlannedState
    <2>2. state.evaluation # None =>
            LET tree == rebuild_tree(state.actions) IN
            Evaluable(state, tree) /\ state.evaluation = evaluation_of(state, tree)
      BY <2>1 DEF StateOK, EvaluationOK, TreeOK
    <2>3. state.frontierTest # None =>
            /\ state.evaluation # None
            /\ state.frontierTest.status = "insufficient"
                  <=> state.evaluation.sufficiency # "passes"
      BY <2>1, TestMeans
    <2> QED
      BY <2>2, <2>3 DEF EvaluationIsFresh
  <1> QED
    BY <1>1, InvariantHolds, PlanKept, PTL

(* The current branch is a tree at every step: one expansion at most of a   *)
(* node, no redundant one, and every active leaf settled or on offer        *)
(* (attach_to_branch, render, frontier).                                    *)
THEOREM BranchCorrect == ASSUME KernelIsFermi PROVE Spec => []CurrentBranchIsATree
  <1>1. ASSUME IInv, PlanHolds PROVE CurrentBranchIsATree
    <2>1. state.question # None => WellFormed(state.tree)
      BY <1>1, PlannedState DEF StateOK, TreeOK
    <2>2. WellFormed(state.tree) =>
            /\ \A e, f \in Endorsed(state.tree) :
                  state.tree.expansions[e].target = state.tree.expansions[f].target => e = f
            /\ \A e \in Endorsed(state.tree) : ~state.tree.expansions[e].redundant
      BY DEF WellFormed
    <2>3. WellFormed(state.tree) =>
            \A n \in ActiveLeaves(state.tree) :
                state.tree.nodes[n].status = "atomic_leaf" \/ n \in frontier(state.tree)
      BY ActiveIsOffered
    <2> QED
      BY <2>1, <2>2, <2>3 DEF CurrentBranchIsATree
  <1> QED
    BY <1>1, InvariantHolds, PlanKept, PTL
-----------------------------------------------------------------------------
(* What a certificate promises *)

\* Measuring a leaf exactly makes a constant of it and leaves the others.
LEMMA MeasuredFacts ==
    ASSUME NEW m, LeavesKnown(m), NEW n \in DOMAIN m
    PROVE  LET k == measured_exactly(m, n)
           IN  /\ LeavesKnown(k)
               /\ DOMAIN k = DOMAIN m
               /\ k[n] = "constant" /\ \A other \in DOMAIN m : other # n => k[other] = m[other]
               /\ Uncertain(k) \subseteq Uncertain(m)
  <1> DEFINE k == measured_exactly(m, n)
  <1>1. /\ DOMAIN k = DOMAIN m /\ k = [other \in DOMAIN k |-> k[other]]
        /\ k[n] = "constant" /\ \A other \in DOMAIN m : other # n => k[other] = m[other]
    BY DEF measured_exactly, LeavesKnown
  <1> HIDE DEF k
  <1>2. LeavesKnown(k)
    BY <1>1 DEF LeavesKnown
  <1>3. Uncertain(k) \subseteq Uncertain(m)
    BY <1>1 DEF Uncertain
  <1> QED
    BY <1>1, <1>2, <1>3 DEF k

\* The exact measurement of an uncertain leaf can be sampled where the leaves can.
LEMMA MeasuredIsValid ==
    ASSUME NEW m, LeavesKnown(m), NEW n \in DOMAIN m, NEW joint,
           joint_sample(m, joint) # Failed, joint_sample(m, joint).valid
    PROVE  LET k == measured_exactly(m, n)
           IN  /\ joint_sample(k, joint).low = 0
               /\ joint_sample(k, joint).high = TotalWidth(k)
  <1> DEFINE k == measured_exactly(m, n)
             U(f) == Cardinality(Uncertain(f))
  <1>1. /\ LeavesKnown(k) /\ DOMAIN k = DOMAIN m /\ k[n] = "constant"
        /\ \A other \in DOMAIN m : other # n => k[other] = m[other]
        /\ Uncertain(k) \subseteq Uncertain(m)
    BY MeasuredFacts
  <1> HIDE DEF k
  <1>2. IsFiniteSet(Uncertain(m)) /\ IsFiniteSet(Uncertain(k))
    <2>1. Uncertain(m) \subseteq DOMAIN m /\ Uncertain(k) \subseteq DOMAIN k
      BY DEF Uncertain
    <2> QED
      BY <1>1, <2>1, FS_Subset DEF LeavesKnown
  <1>3. U(m) \in Nat /\ U(k) \in Nat /\ U(k) <= U(m)
    BY <1>1, <1>2, FS_Subset, FS_CardinalityType
  <1>4. /\ \A other \in DOMAIN m : m[other] # "unknown"
        /\ U(m) > 1 => joint \notin {None, "unknown"}
    BY SampleFacts
  <1>5. ~(joint = "negative" /\ U(m) > 2)
    <2>1. ~(\E other \in DOMAIN m : m[other] = "unknown")
      BY <1>4
    <2> QED
      BY <2>1 DEF joint_sample
  <1>6. ~(\E other \in DOMAIN k : k[other] = "unknown")
    BY <1>1, <1>4
  <1>7. ~(joint = "negative" /\ U(k) > 2) /\ ~(joint \in {None, "unknown"} /\ U(k) > 1)
    BY <1>3, <1>4, <1>5
  <1>8. joint_sample(k, joint)
          = [valid |-> TRUE, low |-> 0, high |-> TotalWidth(k), calibration |-> "unmeasured"]
    BY <1>6, <1>7 DEF joint_sample
  <1> QED
    BY <1>8 DEF k

\* With a valid sample some uncertain leaf, if there is one, is ranked first.
LEMMA SomeRanked ==
    ASSUME NEW m, LeavesKnown(m), NEW joint, joint_sample(m, joint).valid, Uncertain(m) # {}
    PROVE  rank_width_reduction(m, joint) # None
  <1> DEFINE left(n) == TotalWidth(measured_exactly(m, n))
             best == {n \in Uncertain(m) : \A other \in Uncertain(m) : left(n) <= left(other)}
             W == {left(n) : n \in Uncertain(m)}
  <1>1. \A n \in Uncertain(m) : n \in DOMAIN m
    BY DEF Uncertain
  <1>2. ASSUME NEW n \in Uncertain(m) PROVE left(n) \in Nat
    BY <1>1, MeasuredFacts, WidthType
  <1> HIDE DEF left
  <1>3. W \in SUBSET Nat /\ W # {}
    BY <1>2
  <1>4. FirstOf(W) \in W /\ \A w \in W : FirstOf(W) <= w
    <2> HIDE DEF W
    <2> QED
      BY <1>3, LeastExists
  <1>5. PICK n \in Uncertain(m) : left(n) = FirstOf(W)
    BY <1>4
  <1>6. n \in best
    BY <1>4, <1>5
  <1>7. best \in SUBSET Nat
    BY <1>1 DEF LeavesKnown
  <1>8. FirstOf(best) \in best
    <2> HIDE DEF best
    <2> QED
      BY <1>6, <1>7, LeastExists
  <1>9. FirstOf(best) # None
    BY <1>7, <1>8, NoneAssumption
  <1>10. rank_width_reduction(m, joint) = FirstOf(best)
    <2>1. rank_width_reduction(m, joint)
            = IF best = {} \/ ~joint_sample(m, joint).valid THEN None ELSE Min(best)
      BY DEF rank_width_reduction, left
    <2>2. Min(best) = FirstOf(best)
      BY DEF Min, FirstOf
    <2> HIDE DEF best
    <2> QED
      BY <1>6, <2>1, <2>2
  <1> QED
    BY <1>9, <1>10

\* The first of two offers is walked, and a saturated walk finds it of no use.
LEMMA FirstOfferIsWeighed ==
    ASSUME NEW x, NEW first, NEW second, NEW useful,
           evaluate_saturation(x, <<first, second>>, useful)
    PROVE  ~OverThreshold(x, first, useful)
  <1> DEFINE offers == <<first, second>>
  <1>1. DOMAIN offers = {1, 2} /\ offers[1] = first
    OBVIOUS
  <1> HIDE DEF offers
  <1>2. 1 \in Walked(x, offers, useful)
    BY <1>1 DEF Walked, Ends
  <1> QED
    BY <1>1, <1>2 DEF evaluate_saturation, offers

\* A saturated search leaves no leaf whose exact measurement gains more than is
\* useful.
LEMMA SaturationBoundsGain ==
    ASSUME NEW m, LeavesKnown(m), NEW joint, NEW useful \in Int, IsThreshold(useful),
           joint_sample(m, joint) # Failed, joint_sample(m, joint).valid,
           evaluate_saturation(joint_sample(m, joint), refinements(m, joint), useful),
           NEW n \in DOMAIN m
    PROVE  TotalWidth(m) - TotalWidth(measured_exactly(m, n)) <= useful
  <1> DEFINE left(k) == TotalWidth(measured_exactly(m, k))
             w == TotalWidth(m)
             x == joint_sample(m, joint)
             top == rank_width_reduction(m, joint)
  <1>1. w \in Nat /\ \A k \in DOMAIN m : left(k) \in Nat
    BY WidthType, MeasuredFacts
  <1>2. x.valid /\ x.low = 0 /\ x.high = w
    BY SampleFacts
  <1>3. CASE n \notin Uncertain(m)
    <2>1. m[n] = "constant"
      BY <1>3 DEF Uncertain
    <2>2. measured_exactly(m, n) = m
      BY <2>1 DEF measured_exactly, LeavesKnown
    <2> QED
      BY <1>1, <2>2 DEF IsThreshold
  <1>4. CASE n \in Uncertain(m)
    <2>1. top # None
      BY <1>4, SomeRanked
    <2>2. top \in Uncertain(m) /\ \A other \in Uncertain(m) : left(top) <= left(other)
      BY <2>1, RankedFirst
    <2>3. top \in DOMAIN m
      BY <2>2 DEF Uncertain
    <2> DEFINE z == joint_sample(measured_exactly(m, top), joint)
               offer == [kind |-> "measured", low |-> z.low, high |-> z.high]
               nothing == [kind |-> "exhausted", low |-> None, high |-> None]
    <2>4. z.low = 0 /\ z.high = left(top)
      BY <2>3, MeasuredIsValid
    <2>5. refinements(m, joint) = <<offer, nothing>>
      BY <2>1 DEF refinements
    <2>6. ~OverThreshold(x, offer, useful)
      BY <2>5, FirstOfferIsWeighed
    <2>7. offer.kind = "measured" /\ offer.low = 0 /\ offer.high = left(top)
      BY <2>4
    <2> HIDE DEF left, w, x, z, offer, top
    <2>8. WidthOf(x) - WidthOf(offer) = w - left(top)
      BY <1>1, <1>2, <2>3, <2>7 DEF WidthOf
    <2>9. w - left(top) <= useful
      BY <1>1, <1>2, <2>3, <2>6, <2>7, <2>8 DEF OverThreshold, Narrowing, IsThreshold
    <2>10. left(top) <= left(n)
      BY <1>4, <2>2
    <2> QED
      BY <1>1, <2>3, <2>9, <2>10 DEF left, w
  <1> QED
    BY <1>3, <1>4

\* A state the kernel certifies is answerable.
LEMMA CertifiedState ==
    ASSUME NEW s, StateOK(s), fermi_verdict(s) = "certified"
    PROVE  LET marginals == MarginalsIn(s)
               gained(n) == TotalWidth(marginals) - TotalWidth(measured_exactly(marginals, n))
           IN  /\ \A n \in DOMAIN marginals :
                     /\ s.tree.nodes[n].status = "atomic_leaf"
                     /\ marginals[n] \in {"constant", "tight", "wide"}
                     /\ gained(n) <= s.frontierTest.useful
               /\ Cardinality(Uncertain(marginals)) > 1 => s.joint \notin {None, "unknown"}
               /\ TotalWidth(marginals) <= s.question
  <1> DEFINE m == MarginalsIn(s)
             x == joint_sample(m, s.joint)
             useful == s.frontierTest.useful
             tol == tolerance_of(s)
  <1>1. s.frontierTest # None /\ s.frontierTest.status = "certified"
    BY DEF fermi_verdict
  <1>2. /\ s.evaluation # None /\ s.evaluation.sufficiency = "passes"
        /\ useful \in Int /\ IsThreshold(useful)
        /\ evaluate_saturation(s.evaluation.summary, refinements(m, s.joint), useful)
    BY <1>1, TestMeans
  <1>3. Sampled(s, m, x)
    BY <1>2, EvaluationMeans
  <1> HIDE DEF m, x, useful, tol
  <1>4. LeavesKnown(m) /\ x # Failed /\ x = joint_sample(m, s.joint) /\ s.evaluation.summary = x
    BY <1>3 DEF Sampled, x
  <1>5. x.valid /\ Within(x, tol)
    BY <1>2, <1>3 DEF Sampled, evaluate_sufficiency, tol
  <1>6. /\ x.low = 0 /\ x.high = TotalWidth(m) /\ TotalWidth(m) \in Nat
        /\ \A n \in DOMAIN m : m[n] # "unknown"
        /\ Cardinality(Uncertain(m)) > 1 => s.joint \notin {None, "unknown"}
    BY <1>4, <1>5, SampleFacts, WidthType
  <1>7. \A n \in DOMAIN m : s.tree.nodes[n].status = "atomic_leaf"
    <2>1. DOMAIN m = ActiveLeaves(s.tree)
      BY DEF m, MarginalsIn, marginals_of
    <2> QED
      BY <1>3, <2>1 DEF Sampled, Evaluable, HasContext
  <1>8. \A n \in DOMAIN m : TotalWidth(m) - TotalWidth(measured_exactly(m, n)) <= useful
    BY <1>2, <1>4, <1>5, SaturationBoundsGain
  <1>9. TotalWidth(m) <= s.question
    <2>1. tol.width = s.question /\ s.question \in Nat /\ s.question # None
      BY <1>3, NoneAssumption DEF Sampled, tol, tolerance_of
    <2>2. WidthOf(x) <= s.question
      BY <1>5, <2>1 DEF Within
    <2> QED
      BY <1>6, <2>1, <2>2 DEF WidthOf
  <1>10. \A n \in DOMAIN m : m[n] \in {"constant", "tight", "wide"}
    BY <1>4, <1>6 DEF LeavesKnown
  <1> QED
    BY <1>6, <1>7, <1>8, <1>9, <1>10 DEF m, useful

(* A certificate is earned by the state it is given to: whatever led there,  *)
(* every active leaf is atomic and known, the dependence declared, the       *)
(* interval narrow enough and no measurement of use (finalize, frontier.py). *)
THEOREM AnswerableCorrect == ASSUME KernelIsFermi PROVE Spec => []CertifiedIsAnswerable
  <1>1. ASSUME IInv, PlanHolds PROVE CertifiedIsAnswerable
    <2>1. StateOK(state)
      BY <1>1, PlannedState
    <2>2. status = "certified" => fermi_verdict(state) = "certified"
      BY <1>1 DEF IInv, CertifiedIsEarned, KernelIsFermi
    <2> QED
      BY <2>1, <2>2, CertifiedState DEF CertifiedIsAnswerable, MarginalsIn
  <1> QED
    BY <1>1, InvariantHolds, PlanKept, PTL

-----------------------------------------------------------------------------
(* The depth budget *)

\* The counter is the depth of the tree; a session that goes on has not used the
\* budget up, and without a rollback the tree is not deeper than it.
DepthInv ==
    /\ counters.depth = state.depth
    /\ status = "active" /\ "stamp" \notin Faults => ~Reached(counters.depth, MaxDepth)
    /\ ~HasRollback(log) => ~(state.depth > 0 /\ Beyond(state.depth, MaxDepth))

LEMMA InitDepth == ASSUME KernelIsFermi, Init PROVE DepthInv
  <1>1. state.depth = 0 /\ counters.depth = 0
    BY DEF Init, KernelIsFermi, fermi_initial_state, StartCounters
  <1>2. status = "active" => ~Reached(counters.depth, MaxDepth)
    BY DEF Init, mark_budget_partial, budget_is_exhausted_for
  <1> QED
    BY <1>1, <1>2 DEF DepthInv

LEMMA DepthStep ==
    ASSUME KernelIsFermi, IInv, IInv', PlanHolds, PlanHolds', DepthInv, [Next]_vars
    PROVE  DepthInv'
  <1>1. StateOK(state) /\ StateOK(state')
    <2>1. StateOK(state)
      BY PlannedState
    <2>2. (KernelIsFermi /\ IInv /\ PlanHolds => StateOK(state))'
      BY PlannedState, PTL
    <2> QED
      BY <2>1, <2>2
  <1>2. state.depth \in Int /\ state'.depth \in Int
    BY <1>1, DepthType DEF StateOK
  <1>3. DepthOf(state') = state'.depth
    BY DEF KernelIsFermi, fermi_depth
  <1>4. /\ counters'.depth = state'.depth
        /\ status' = "active" /\ "stamp" \notin Faults => ~Reached(counters'.depth, MaxDepth)
    <2>1. CASE RejectForm
      <3>1. counters'.depth = counters.depth
        <4>1. counters \in Counters
          BY DEF IInv, TypeOK
        <4> QED
          BY <2>1, <4>1 DEF RejectForm, Counters
      <3> QED
        BY <2>1, <3>1 DEF RejectForm, DepthInv
    <2>2. CASE DangleForm
      BY <2>2 DEF DangleForm, DepthInv
    <2>3. CASE RebuildForm
      <3>1. state' = state
        BY <2>3, RebuildKeeps
      <3> QED
        BY <2>3, <3>1 DEF RebuildForm, DepthInv
    <2>4. CASE FinalizeForm
      <3>1. counters'.depth = counters.depth
        <4>1. counters \in Counters
          BY DEF IInv, TypeOK
        <4> QED
          BY <2>4, <4>1 DEF FinalizeForm, projected_counters, Counters
      <3>2. status' # "active" /\ state' = state
        BY <2>4 DEF FinalizeForm, StatusOf
      <3> QED
        BY <3>1, <3>2 DEF DepthInv
    <2>5. CASE CommitForm
      <3>1. PICK a \in Actions, new \in KernelStates, cost \in Int : Commit(a, new, cost)
        BY <2>5 DEF CommitForm
      <3>2. /\ state' = new /\ counters' = candidate_counters(a.op, cost, new)
            /\ \/ status' = mark_budget_partial(status, counters')
               \/ "stamp" \in Faults
        BY <3>1 DEF Commit
      <3>3. counters'.depth = candidate_depth(state')
        BY <3>2 DEF candidate_counters
      <3>4. counters'.depth = state'.depth
        BY <1>2, <1>3, <3>3 DEF candidate_depth
      <3>5. mark_budget_partial(status, counters') = "active" => ~Reached(counters'.depth, MaxDepth)
        BY DEF mark_budget_partial, budget_is_exhausted_for
      <3> QED
        BY <3>2, <3>4, <3>5
    <2>6. CASE UNCHANGED vars
      BY <2>6 DEF vars, DepthInv
    <2> QED
      BY <2>1, <2>2, <2>3, <2>4, <2>5, <2>6, StepForms DEF Forms
  <1>5. ~HasRollback(log') => ~(state'.depth > 0 /\ Beyond(state'.depth, MaxDepth))
    <2>1. SUFFICES ASSUME ~HasRollback(log') PROVE ~(state'.depth > 0 /\ Beyond(state'.depth, MaxDepth))
      OBVIOUS
    <2>2. ~(state.depth > 0 /\ Beyond(state.depth, MaxDepth)) /\ counters.depth = state.depth
      BY <2>1, ActionSteps DEF DepthInv
    <2>3. CASE KeepsActions
      BY <2>2, <2>3 DEF KeepsActions
    <2>4. CASE ExecutesAction
      <3>1. PICK op \in Ops :
                /\ Validates(op, state)
                /\ op \in DepthOps => ~Beyond(counters.depth + 1, MaxDepth)
                /\ state' = Execute(op, state)
        BY <2>4 DEF ExecutesAction
      <3>2. op \in FermiOps /\ fermi_validate(op, state) /\ state' = fermi_execute(op, state)
        BY <3>1 DEF KernelIsFermi
      <3>3. op.name \in action_names /\ (op.name = "define_question" => state.question = None)
        BY <3>2 DEF fermi_validate
      <3>4. state' # Failed
        BY KernelAssumption DEF IInv, TypeOK, KernelIsFermi
      <3>5. ExecutesTo(state', state, op)
        BY <1>1, <3>2, <3>3, <3>4, ExecuteKeeps
      <3>6. /\ state'.depth <= state.depth + 1
            /\ op.name \notin {"expand", "propose_alternative"} => state'.depth <= state.depth
        BY <3>5 DEF ExecutesTo
      <3>7. op.name \in {"expand", "propose_alternative"} => ~Beyond(state.depth + 1, MaxDepth)
        BY <2>2, <3>1, <3>2 DEF KernelIsFermi, fermi_depth_ops
      <3>8. MaxDepth \in Int \cup {Unlimited}
        BY BudgetAssumption DEF Caps
      <3> QED
        BY <1>2, <2>2, <3>6, <3>7, <3>8 DEF Beyond
    <2>5. CASE UndoesAction
      BY <2>1, <2>5 DEF UndoesAction
    <2> QED
      BY <2>3, <2>4, <2>5, ActionSteps
  <1> QED
    BY <1>4, <1>5 DEF DepthInv

THEOREM DepthHolds == ASSUME KernelIsFermi PROVE Spec => []DepthInv
  <1>1. Init => DepthInv
    BY InitDepth
  <1>2. IInv /\ IInv' /\ PlanHolds /\ PlanHolds' /\ DepthInv /\ [Next]_vars => DepthInv'
    BY DepthStep
  <1> QED
    BY <1>1, <1>2, InvariantHolds, PlanKept, PTL DEF Spec

(* No sequence of expansions and alternatives grows the tree beyond the     *)
(* depth budget; only a rollback can, and it settles the session            *)
(* (_budget_violation, _candidate_depth, _mark_budget_partial).             *)
THEOREM DepthCorrect == ASSUME KernelIsFermi PROVE Spec => []DepthWithinCap
  <1>1. ASSUME IInv, PlanHolds, DepthInv PROVE DepthWithinCap
    <2>1. state.depth \in Int
      BY <1>1, PlannedState, DepthType DEF StateOK
    <2>2. MaxDepth \in Int \cup {Unlimited}
      BY BudgetAssumption DEF Caps
    <2>3. Beyond(state.depth, MaxDepth) => Reached(state.depth, MaxDepth)
      BY <2>1, <2>2 DEF Beyond, Reached
    <2> QED
      BY <1>1, <2>3 DEF DepthInv, DepthWithinCap, HasRollback
  <1> QED
    BY <1>1, InvariantHolds, PlanKept, DepthHolds, PTL

-----------------------------------------------------------------------------
(* What a certificate says, for every interval, tolerance, threshold and   *)
(* behaviour of the callbacks                                              *)

Offers == [kind : {"exhausted", "raised", "skipped", "measured"},
           low : Int \cup {None}, high : Int \cup {None}]

\* A walk that is saturated ends where the callback says it has nothing more;
\* before that it neither raised nor offered a useful refinement.
LEMMA SaturatedWalk ==
    ASSUME NEW summary, NEW offers \in Seq(Offers), NEW useful \in Nat,
           evaluate_saturation(summary, offers, useful)
    PROVE  \E i \in DOMAIN offers :
              /\ offers[i].kind = "exhausted"
              /\ \A j \in 1..i : /\ offers[j].kind # "raised"
                                 /\ ~OverThreshold(summary, offers[j], useful)
  <1>1. PICK i \in Walked(summary, offers, useful) : offers[i].kind = "exhausted"
    BY DEF evaluate_saturation
  <1>2. DOMAIN offers = 1..Len(offers) /\ Len(offers) \in Nat
    OBVIOUS
  <1>3. i \in DOMAIN offers /\ i \in Nat /\ i \in Ends(summary, offers, useful)
    BY <1>1, <1>2 DEF Walked, Ends
  <1>4. ASSUME NEW j \in 1..i
        PROVE  offers[j].kind # "raised" /\ ~OverThreshold(summary, offers[j], useful)
    <2>1. j \in DOMAIN offers
      BY <1>2, <1>3
    <2>2. \A k \in Ends(summary, offers, useful) : k \in Int /\ i <= k
      BY <1>1, <1>2 DEF Walked, Ends
    <2>3. CASE j = i
      <3>1. offers[j].kind # "raised"
        BY <1>1, <2>3
      <3>2. ~OverThreshold(summary, offers[j], useful)
        BY <1>1, <2>3 DEF evaluate_saturation
      <3> QED
        BY <3>1, <3>2
    <2>4. CASE j # i
      <3>1. j \notin Ends(summary, offers, useful)
        BY <2>2, <2>4, <1>3
      <3> QED
        BY <3>1, <2>1 DEF Ends
    <2> QED
      BY <2>3, <2>4
  <1> QED
    BY <1>1, <1>3, <1>4

WalkStart(c)         == "open"
WalkNext(c, n, walk) == WalkStep(c.summary, c.offers[n], c.useful, walk)
Walks == INSTANCE NatRecursion WITH Start <- WalkStart, Step <- WalkNext

LEMMA LoopIsRecursion ==
    ASSUME NEW summary, NEW offers, NEW useful
    PROVE  \E walk : /\ walk[0] = "open"
                     /\ \A n \in Nat : walk[n + 1] = WalkStep(summary, offers[n + 1], useful, walk[n])
                     /\ saturation_loop(summary, offers, useful) <=> walk[Len(offers)] = "exhausted"
  <1> DEFINE c     == [summary |-> summary, offers |-> offers, useful |-> useful]
             Is(w) == w = [n \in Nat |-> IF n = 0 THEN "open"
                                         ELSE WalkStep(summary, offers[n], useful, w[n - 1])]
             walk  == CHOOSE w : Is(w)
  <1>c. c.summary = summary /\ c.offers = offers /\ c.useful = useful
    OBVIOUS
  <1> HIDE DEF c
  <1>1. PICK w : Walks!IsRecursion(c, w)
    BY Walks!RecursionExists
  <1>2. Is(w)
    BY <1>1, <1>c DEF Walks!IsRecursion, Walks!At, WalkStart, WalkNext
  <1>3. Is(walk)
    BY <1>2
  <1>4. saturation_loop(summary, offers, useful) <=> walk[Len(offers)] = "exhausted"
    BY DEF saturation_loop
  <1> HIDE DEF walk
  <1>5. Walks!IsRecursion(c, walk)
    BY <1>3, <1>c DEF Walks!IsRecursion, Walks!At, WalkStart, WalkNext
  <1>6. walk[0] = "open" /\ \A n \in Nat : walk[n + 1] = WalkStep(summary, offers[n + 1], useful, walk[n])
    BY <1>5, <1>c, Walks!RecursionSteps DEF WalkStart, WalkNext
  <1> QED
    BY <1>4, <1>6

\* What breaks the loop at an offer that ends it.
Broken(summary, offer, useful) ==
    IF offer.kind \in {"exhausted", "raised"} THEN offer.kind ELSE "useful"

\* The n-th call finds the walk open, or some call before it was the first end.
BrokenOff(summary, offers, useful, n, walk) ==
    LET ends == Ends(summary, offers, useful)
    IN  \/ walk = "open" /\ \A j \in 1..n : j \notin ends
        \/ \E i \in 1..n : /\ i \in ends /\ \A j \in ends : i <= j
                            /\ walk = Broken(summary, offers[i], useful)

(* frontier.evaluate_saturation: for every interval, every threshold and     *)
(* everything the callback may answer, the gate as it is defined over the    *)
(* first end of the walk is what the loop of the code computes call by call. *)
THEOREM SaturationFollowsCalls ==
    ASSUME NEW summary, NEW offers \in Seq(Offers), NEW useful \in Nat
    PROVE  evaluate_saturation(summary, offers, useful) <=> saturation_loop(summary, offers, useful)
  <1> DEFINE ends == Ends(summary, offers, useful)
             N    == Len(offers)
  <1>1. PICK walk : /\ walk[0] = "open"
                    /\ \A n \in Nat : walk[n + 1] = WalkStep(summary, offers[n + 1], useful, walk[n])
                    /\ saturation_loop(summary, offers, useful) <=> walk[N] = "exhausted"
    BY LoopIsRecursion
  <1>2. /\ N \in Nat /\ DOMAIN offers = 1..N
        /\ \A i \in 1..N : i \in ends <=> \/ offers[i].kind \in {"exhausted", "raised"}
                                           \/ OverThreshold(summary, offers[i], useful)
        /\ \A i \in ends : i \in 1..N
    BY DEF Ends
  <1> HIDE DEF ends, N
  <1> DEFINE K == {n \in Nat : n <= N => BrokenOff(summary, offers, useful, n, walk[n])}
  <1>3. 0 \in K
    BY <1>1 DEF BrokenOff
  <1>4. ASSUME NEW n \in Nat, n \in K PROVE n + 1 \in K
    <2>1. SUFFICES ASSUME n + 1 <= N PROVE BrokenOff(summary, offers, useful, n + 1, walk[n + 1])
      OBVIOUS
    <2>2. BrokenOff(summary, offers, useful, n, walk[n])
      BY <1>2, <1>4, <2>1
    <2>i. n + 1 \in 1..N
      BY <1>2, <2>1
    <2>w. walk[n + 1] = WalkStep(summary, offers[n + 1], useful, walk[n])
      BY <1>1
    <2>3. n + 1 \in 1..N /\ walk[n + 1] = WalkStep(summary, offers[n + 1], useful, walk[n])
      BY <2>i, <2>w
    <2>4. CASE walk[n] = "open" /\ \A j \in 1..n : j \notin ends
      <3>1. CASE n + 1 \in ends
        <4>1. walk[n + 1] = Broken(summary, offers[n + 1], useful)
          BY <1>2, <2>3, <2>4, <3>1 DEF WalkStep, Broken
        <4>2. ASSUME NEW j \in ends PROVE n + 1 <= j
          <5>1. j \in 1..N /\ j \notin 1..n
            BY <1>2, <2>4
          <5> QED
            BY <1>2, <5>1
        <4> QED
          BY <3>1, <4>1, <4>2 DEF BrokenOff, ends
      <3>2. CASE n + 1 \notin ends
        <4>1. walk[n + 1] = "open"
          BY <1>2, <2>3, <2>4, <3>2 DEF WalkStep
        <4>2. \A j \in 1..(n + 1) : j \notin ends
          <5>1. \A j \in 1..(n + 1) : j \in 1..n \/ j = n + 1
            OBVIOUS
          <5> QED
            BY <2>4, <3>2, <5>1
        <4> QED
          BY <4>1, <4>2 DEF BrokenOff, ends
      <3> QED
        BY <3>1, <3>2
    <2>5. ASSUME NEW i \in 1..n, i \in ends, \A j \in ends : i <= j,
                 walk[n] = Broken(summary, offers[i], useful)
          PROVE  BrokenOff(summary, offers, useful, n + 1, walk[n + 1])
      <3>1. walk[n] # "open"
        BY <2>5 DEF Broken
      <3>2. walk[n + 1] = walk[n]
        BY <2>3, <3>1 DEF WalkStep
      <3>3. i \in 1..(n + 1)
        OBVIOUS
      <3> QED
        BY <2>5, <3>2, <3>3 DEF BrokenOff, ends
    <2> QED
      BY <2>2, <2>4, <2>5 DEF BrokenOff, ends
  <1>5. BrokenOff(summary, offers, useful, N, walk[N])
    <2>1. Nat \subseteq K
      BY <1>3, <1>4, Walks!Induction
    <2> QED
      BY <1>2, <2>1
  <1> HIDE DEF K
  <1>6. \A i \in 1..N : i \in Walked(summary, offers, useful) <=> \A j \in ends : i <= j
    BY <1>2 DEF Walked, ends
  <1>w. \A i \in Walked(summary, offers, useful) : i \in 1..N
    BY <1>2 DEF Walked
  <1>7. CASE walk[N] = "open" /\ \A j \in 1..N : j \notin ends
    <2>1. \A i \in 1..N : offers[i].kind # "exhausted"
      BY <1>2, <1>7
    <2>2. ~evaluate_saturation(summary, offers, useful)
      BY <1>w, <2>1 DEF evaluate_saturation
    <2> QED
      BY <1>1, <1>7, <2>2
  <1>8. ASSUME NEW i \in 1..N, i \in ends, \A j \in ends : i <= j,
               walk[N] = Broken(summary, offers[i], useful)
        PROVE  evaluate_saturation(summary, offers, useful) <=> saturation_loop(summary, offers, useful)
    <2>1. i \in Walked(summary, offers, useful)
      BY <1>6, <1>8
    <2>2. \A k \in Walked(summary, offers, useful) : k = i \/ k \notin ends
      <3>1. ASSUME NEW k \in Walked(summary, offers, useful), k \in ends PROVE k = i
        <4>1. k \in 1..N /\ k <= i /\ i <= k
          BY <1>6, <1>8, <1>w, <3>1
        <4> QED
          BY <1>2, <4>1
      <3> QED
        BY <3>1
    <2>3. \A k \in Walked(summary, offers, useful) :
              k # i => offers[k].kind # "exhausted" /\ ~OverThreshold(summary, offers[k], useful)
      BY <1>2, <1>w, <2>2
    <2>4. offers[i].kind = "exhausted" => ~OverThreshold(summary, offers[i], useful)
      BY DEF OverThreshold, Narrowing
    <2>5. evaluate_saturation(summary, offers, useful) <=> offers[i].kind = "exhausted"
      BY <2>1, <2>3, <2>4 DEF evaluate_saturation
    <2>6. walk[N] = "exhausted" <=> offers[i].kind = "exhausted"
      BY <1>8 DEF Broken
    <2> QED
      BY <1>1, <2>5, <2>6
  <1> QED
    BY <1>5, <1>7, <1>8 DEF BrokenOff, ends

\* frontier.certify_frontier: a certified frontier has a valid interval that
\* meets every part of the tolerance, only necessary leaves, and refinements
\* that were walked to their end without a useful one.
THEOREM CertificateIsHonest ==
    ASSUME NEW summary, NEW tolerance, NEW necessity,
           NEW offers \in Seq(Offers), NEW useful \in Nat,
           certify_frontier(evaluate_sufficiency(summary, tolerance), necessity,
                            evaluate_saturation(summary, offers, useful)) = "certified"
    PROVE  /\ summary.valid
           /\ HasTolerance(tolerance)
           /\ Within(summary, tolerance)
           /\ \A leaf \in DOMAIN necessity : necessity[leaf]
           /\ \E i \in DOMAIN offers :
                 /\ offers[i].kind = "exhausted"
                 /\ \A j \in 1..i : /\ offers[j].kind # "raised"
                                    /\ ~OverThreshold(summary, offers[j], useful)
  <1>1. /\ evaluate_sufficiency(summary, tolerance) = "passes"
        /\ \A leaf \in DOMAIN necessity : necessity[leaf]
        /\ evaluate_saturation(summary, offers, useful)
    BY DEF certify_frontier
  <1>2. summary.valid /\ HasTolerance(tolerance) /\ Within(summary, tolerance)
    BY <1>1 DEF evaluate_sufficiency
  <1> QED
    BY <1>1, <1>2, SaturatedWalk

\* fermi_kernel_evaluation._frontier_test deletes a leaf by leaving the others,
\* and the expression refers to each leaf: the deletion is never computable, so
\* the kernel's necessity gate passes for every leaf, interval and threshold.
THEOREM KernelNecessityHolds ==
    ASSUME NEW leaves, NEW leaf \in leaves, NEW resampled, NEW summary, NEW material
    PROVE  evaluate_necessity(summary,
              [deletion |-> execute_deletion(leaves,
                  [kind |-> "returned", leaves |-> leaves \ {leaf}], resampled)], material)
  <1> DEFINE answer   == [kind |-> "returned", leaves |-> leaves \ {leaf}]
             executed == [deletion |-> execute_deletion(leaves, answer, resampled)]
  <1>1. ~(leaves \subseteq answer.leaves) /\ answer.kind = "returned"
    OBVIOUS
  <1>2. execute_deletion(leaves, answer, resampled) = [status |-> "non_computable", width |-> None]
    BY <1>1 DEF execute_deletion
  <1>3. DOMAIN executed = {"deletion"}
        /\ executed["deletion"] = [status |-> "non_computable", width |-> None]
    BY <1>2
  <1> HIDE DEF executed, answer
  <1>4. evaluate_necessity(summary, executed, material)
    BY <1>3 DEF evaluate_necessity, Tolerated
  <1> QED
    BY <1>4 DEF executed, answer
=============================================================================
