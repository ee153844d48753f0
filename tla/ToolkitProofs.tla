----------------------------- MODULE ToolkitProofs -----------------------------
(***************************************************************************)
(* Proofs about Traversal, for any graph, depth and number of events,      *)
(* about SemanticCache, for any goroutines, handles, keys and scores and   *)
(* any number of calls, and about ContextBuilder, for any texts,           *)
(* priorities and budgets.                                                 *)
(***************************************************************************)
EXTENDS TraversalProperties, CacheProperties, ContextProperties, FiniteSetTheorems,
        SequenceTheorems, WellFoundedInduction, TLAPS

-----------------------------------------------------------------------------
(* Traversal *)

Items(s) == {s[i] : i \in 1..Len(s)}

Ascending(s) ==
    \A i, j \in 1..Len(s) : i =< j => s[i].depth =< s[j].depth

-----------------------------------------------------------------------------
(* The inductive invariant *)

TraversalTypes ==
    /\ edges \subseteq Links /\ known \subseteq edges
    /\ order \in Orders /\ maxDepth \in Nat
    /\ walk \in {"pop", "get", "scan", "done"}
    /\ walk = "done" => frontier = <<>>
    /\ frontier \in Seq(Item) /\ current \in Item
    /\ Visited \subseteq GraphNodes /\ level \in [Visited -> Nat]
    /\ lost \subseteq GraphNodes

(* The node whose edges are still to be read. *)
InHand == IF walk \in {"get", "scan"} THEN {current.node} ELSE {}

InHandVisited ==
    \A n \in InHand : n \in Visited /\ level[n] = current.depth

(* What waits in the frontier was led to by a walk. *)
ItemsAreWalks ==
    \A x \in Items(frontier) : Walks(edges, x.node, x.depth) # {}

(* Breadth first, the frontier ascends and spans two levels. *)
FrontierAscends ==
    order = "bfs" =>
      /\ Ascending(frontier)
      /\ \A x \in Items(frontier) :
           current.depth =< x.depth /\ x.depth =< current.depth + 1
      /\ \A n \in Visited : level[n] =< current.depth

(* Depths do not outrun the number of nodes visited. *)
DepthsCount ==
    /\ IsFiniteSet(Visited)
    /\ \A n \in Visited : level[n] < Cardinality(Visited)
    /\ \A x \in Items(frontier) : x.depth =< Cardinality(Visited)

(* A node waits, or was visited, at depth d or above. *)
Reached(n, d) ==
    \/ n \in Visited /\ level[n] =< d
    \/ \E x \in Items(frontier) : x.node = n /\ x.depth =< d

Met(n) == n \in Visited \/ \E x \in Items(frontier) : x.node = n

Scanned == Visited \ (lost \cup InHand)

StartMet ==
    \/ Visited = {} /\ frontier = <<At(Start, 0)>> /\ walk = "pop"
    \/ Start \in Visited /\ level[Start] = 0

(* Edges that were there from the start lead to nodes reached or met.      *)
BFSCovered ==
    order = "bfs" => \A n \in Scanned, m \in GraphNodes :
      <<n, m>> \in known /\ level[n] < maxDepth => Reached(m, level[n] + 1)

DeepCovered ==
    maxDepth >= Cardinality(GraphNodes) - 1 =>
      \A n \in Scanned, m \in GraphNodes : <<n, m>> \in known => Met(m)

EdgesFound ==
    /\ \A e \in found : e \in edges /\ e[1] \in Visited
    /\ \A e \in known : e[1] \in Scanned => e \in found

TraversalIInv ==
    /\ TraversalTypes /\ InHandVisited /\ NothingTooFar /\ ItemsAreWalks
    /\ FrontierAscends /\ DepthsCount /\ StartMet /\ BFSCovered /\ DeepCovered
    /\ EdgesFound

-----------------------------------------------------------------------------
(* The frontier *)

LEMMA TypedFacts ==
    ASSUME TraversalTypes
    PROVE  /\ \A x \in Items(frontier) :
                x \in Item /\ x.node \in GraphNodes /\ x.depth \in Nat
           /\ \A n \in Visited : n \in GraphNodes /\ level[n] \in Nat
           /\ current.node \in GraphNodes /\ current.depth \in Nat
<1>1. \A x \in Items(frontier) : x \in Item
  BY DEF TraversalTypes, Items
<1>2. \A x \in Item : x.node \in GraphNodes /\ x.depth \in Nat
  BY DEF Item
<1> QED BY <1>1, <1>2 DEF TraversalTypes

(* Taking an item, from either end. *)
LEMMA TakeOne ==
    ASSUME frontier \in Seq(Item), frontier # <<>>
    PROVE  /\ NextItem \in Item /\ NextItem \in Items(frontier)
           /\ Rest \in Seq(Item)
           /\ Items(frontier) = Items(Rest) \cup {NextItem}
<1>1. CASE TakesFirst
  <2>1. /\ NextItem = frontier[1] /\ Rest \in Seq(Item)
        /\ Len(Rest) = Len(frontier) - 1 /\ Len(frontier) \in Nat \ {0}
        /\ \A i \in 1..Len(Rest) : Rest[i] = frontier[i + 1]
    BY <1>1 DEF NextItem, Rest
  <2>2. ASSUME NEW i \in 1..Len(frontier), i # 1
        PROVE  i - 1 \in 1..Len(Rest) /\ Rest[i - 1] = frontier[i]
    BY <2>1, <2>2
  <2>3. ASSUME NEW i \in 1..Len(Rest)
        PROVE  i + 1 \in 1..Len(frontier) /\ Rest[i] = frontier[i + 1]
    BY <2>1
  <2>4. 1 \in 1..Len(frontier) /\ frontier[1] \in Item
    BY <2>1
  <2> QED BY <2>1, <2>2, <2>3, <2>4 DEF Items
<1>2. CASE ~TakesFirst
  <2>0. /\ Len(frontier) \in Nat \ {0} /\ Len(frontier) - 1 \in Int /\ 1 \in Int
        /\ \A i \in 1..(Len(frontier) - 1) : frontier[i] \in Item
    OBVIOUS
  <2> DEFINE n == Len(frontier) - 1
             r == SubSeq(frontier, 1, n)
  <2>a. /\ r \in Seq(Item) /\ Len(r) = IF 1 <= n THEN n - 1 + 1 ELSE 0
        /\ \A i \in 1..(n - 1 + 1) : r[i] = frontier[1 + i - 1]
    BY <2>0, SubSeqProperties
  <2>b. NextItem = frontier[Len(frontier)] /\ Rest = r
    BY <1>2 DEF NextItem, Rest
  <2> HIDE DEF r
  <2>1. /\ NextItem = frontier[Len(frontier)] /\ Rest \in Seq(Item)
        /\ Len(Rest) = Len(frontier) - 1 /\ Len(frontier) \in Nat \ {0}
        /\ \A i \in 1..Len(Rest) : Rest[i] = frontier[i]
    BY <2>0, <2>a, <2>b
  <2>2. Len(frontier) \in 1..Len(frontier) /\ frontier[Len(frontier)] \in Item
    BY <2>1
  <2>3. \A i \in 1..Len(frontier) : i = Len(frontier) \/ i \in 1..Len(Rest)
    BY <2>1
  <2>4. \A i \in 1..Len(Rest) : i \in 1..Len(frontier)
    BY <2>1
  <2> QED BY <2>1, <2>2, <2>3, <2>4 DEF Items
<1> QED BY <1>1, <1>2

LEMMA TakeFirst ==
    ASSUME frontier \in Seq(Item), frontier # <<>>, order = "bfs",
           Ascending(frontier)
    PROVE  /\ Ascending(Rest)
           /\ \A x \in Items(frontier) : NextItem.depth =< x.depth
<1>1. /\ NextItem = frontier[1] /\ Rest \in Seq(Item)
      /\ Len(Rest) = Len(frontier) - 1 /\ Len(frontier) \in Nat \ {0}
      /\ \A i \in 1..Len(Rest) : Rest[i] = frontier[i + 1]
  BY DEF NextItem, Rest, TakesFirst
<1>2. ASSUME NEW i \in 1..Len(Rest), NEW j \in 1..Len(Rest), i =< j
      PROVE  Rest[i].depth =< Rest[j].depth
  <2>1. i + 1 \in 1..Len(frontier) /\ j + 1 \in 1..Len(frontier) /\ i + 1 =< j + 1
    BY <1>1, <1>2
  <2> QED BY <1>1, <2>1 DEF Ascending
<1>3. ASSUME NEW j \in 1..Len(frontier) PROVE frontier[1].depth =< frontier[j].depth
  BY <1>1 DEF Ascending
<1> QED BY <1>1, <1>2, <1>3 DEF Ascending, Items

LEMMA SeqFacts ==
    ASSUME NEW S, NEW n \in Nat, NEW s \in [1..n -> S]
    PROVE  s \in Seq(S) /\ Len(s) = n
OBVIOUS

LEMMA ConcatFacts ==
    ASSUME NEW S, NEW s \in Seq(S), NEW t \in Seq(S)
    PROVE  /\ s \o t \in Seq(S) /\ Len(s \o t) = Len(s) + Len(t)
           /\ Len(s) \in Nat /\ Len(t) \in Nat
           /\ \A i \in 1..Len(s) : (s \o t)[i] = s[i]
           /\ \A i \in 1..Len(t) : (s \o t)[Len(s) + i] = t[i]
OBVIOUS

LEMMA AtFields == \A n, d : At(n, d).node = n /\ At(n, d).depth = d
BY DEF At

(* What a Scan of n appends. *)
Appended(s, d) == [i \in 1..Len(s) |-> At(s[i], d)]

LEMMA AppendItems ==
    ASSUME NEW b \in Seq(Item), NEW S, S \subseteq GraphNodes,
           NEW s \in Listings(S), NEW d \in Nat,
           NEW f, f = b \o Appended(s, d)
    PROVE  /\ f \in Seq(Item)
           /\ Items(f) = Items(b) \cup {At(n, d) : n \in S}
           /\ Ascending(b) /\ (\A x \in Items(b) : x.depth =< d)
                => Ascending(f)
<1>1. IsFiniteSet(S)
  <2>1. S \in SUBSET GraphNodes /\ IsFiniteSet(GraphNodes)
    BY TraversalAssumption
  <2> QED BY <2>1, FS_Subset, Zenon
<1>2. Cardinality(S) \in Nat
  BY <1>1, FS_CardinalityType
<1>3. /\ s \in Seq(S) /\ Len(s) = Cardinality(S) /\ Len(s) \in Nat
      /\ \A x \in S : \E i \in 1..Len(s) : s[i] = x
      /\ \A i \in 1..Len(s) : s[i] \in S
  <2>1. /\ s \in [1..Cardinality(S) -> S]
        /\ \A x \in S : \E i \in DOMAIN s : s[i] = x
    BY DEF Listings
  <2>2. s \in Seq(S) /\ Len(s) = Cardinality(S)
    BY <1>2, <2>1, SeqFacts
  <2> QED BY <1>2, <2>1, <2>2
<1> DEFINE a == Appended(s, d)
<1>4. /\ a \in Seq(Item) /\ Len(a) = Len(s)
      /\ \A i \in 1..Len(a) : a[i] = At(s[i], d)
  <2>1. a \in [1..Len(s) -> Item]
    BY <1>3 DEF Appended, At, Item
  <2>2. a \in Seq(Item) /\ Len(a) = Len(s)
    BY <1>3, <2>1, SeqFacts
  <2> QED BY <2>2 DEF Appended
<1> HIDE DEF a
<1>5. /\ f \in Seq(Item) /\ Len(f) = Len(b) + Len(a)
      /\ Len(b) \in Nat /\ Len(a) \in Nat
      /\ \A i \in 1..Len(b) : f[i] = b[i]
      /\ \A i \in 1..Len(a) : f[Len(b) + i] = a[i]
  BY <1>4, ConcatFacts DEF a
<1>6. ASSUME NEW j \in 1..Len(f), j \notin 1..Len(b)
      PROVE  j - Len(b) \in 1..Len(a) /\ f[j] = a[j - Len(b)]
  BY <1>5, <1>6
<1>7. Items(f) = Items(b) \cup {At(n, d) : n \in S}
  <2>1. ASSUME NEW j \in 1..Len(f)
        PROVE  f[j] \in Items(b) \cup {At(n, d) : n \in S}
    <3>1. CASE j \in 1..Len(b)
      BY <1>5, <3>1 DEF Items
    <3>2. CASE j \notin 1..Len(b)
      BY <1>3, <1>4, <1>6, <3>2
    <3> QED BY <3>1, <3>2
  <2>2. ASSUME NEW j \in 1..Len(b) PROVE b[j] \in Items(f)
    <3>1. j \in 1..Len(f) /\ f[j] = b[j]
      BY <1>5
    <3> QED BY <3>1 DEF Items
  <2>3. ASSUME NEW n \in S PROVE At(n, d) \in Items(f)
    <3>1. PICK i \in 1..Len(s) : s[i] = n
      BY <1>3
    <3>2. Len(b) + i \in 1..Len(f) /\ f[Len(b) + i] = At(n, d)
      BY <1>3, <1>4, <1>5, <3>1
    <3> QED BY <3>2 DEF Items
  <2> QED BY <2>1, <2>2, <2>3 DEF Items
<1>8. ASSUME Ascending(b), \A x \in Items(b) : x.depth =< d,
             NEW i \in 1..Len(f), NEW j \in 1..Len(f), i =< j
      PROVE  f[i].depth =< f[j].depth
  <2>1. \A k \in 1..Len(a) : a[k].depth = d
    BY <1>4, AtFields
  <2>2. CASE j \in 1..Len(b)
    <3>1. i \in 1..Len(b)
      BY <1>5, <1>8, <2>2
    <3> QED BY <1>5, <1>8, <2>2, <3>1 DEF Ascending
  <2>3. CASE j \notin 1..Len(b)
    <3>1. f[j].depth = d
      BY <1>6, <2>1, <2>3
    <3>2. CASE i \in 1..Len(b)
      BY <1>5, <1>8, <3>1, <3>2 DEF Items
    <3>3. CASE i \notin 1..Len(b)
      <4>1. f[i].depth = d
        BY <1>6, <2>1, <3>3
      <4> QED BY <3>1, <4>1
    <3> QED BY <3>2, <3>3
  <2> QED BY <2>2, <2>3
<1> QED BY <1>5, <1>7, <1>8 DEF Ascending

-----------------------------------------------------------------------------
(* Walks *)

LEMMA MoreEdges ==
    ASSUME NEW G, NEW H, G \subseteq H, NEW n, NEW k, Walks(G, n, k) # {}
    PROVE  Walks(H, n, k) # {}
<1>1. PICK p : p \in Walks(G, n, k)
  OBVIOUS
<1>2. p \in Walks(H, n, k)
  BY <1>1 DEF Walks
<1> QED BY <1>2

LEMMA LongerWalk ==
    ASSUME NEW G, NEW n \in GraphNodes, NEW m \in GraphNodes, NEW k \in Nat,
           Walks(G, n, k) # {}, <<n, m>> \in G
    PROVE  Walks(G, m, k + 1) # {}
<1>1. PICK p : p \in Walks(G, n, k)
  OBVIOUS
<1>2. /\ p \in [0..k -> GraphNodes] /\ p[0] = Start /\ p[k] = n
      /\ \A i \in 1..k : <<p[i - 1], p[i]>> \in G
  BY <1>1 DEF Walks
<1> DEFINE q == [i \in 0..(k + 1) |-> IF i = k + 1 THEN m ELSE p[i]]
<1>3. q \in [0..(k + 1) -> GraphNodes]
  BY <1>2
<1>4. q[0] = Start /\ q[k + 1] = m
  BY <1>2
<1>5. ASSUME NEW i \in 1..(k + 1) PROVE <<q[i - 1], q[i]>> \in G
  <2>1. CASE i = k + 1
    <3>1. i - 1 = k /\ k \in 0..(k + 1) /\ k # k + 1
      BY <2>1
    <3>2. q[i - 1] = n /\ q[i] = m
      BY <1>2, <2>1, <3>1
    <3> QED BY <3>2
  <2>2. CASE i # k + 1
    <3>1. i \in 1..k /\ i - 1 \in 0..(k + 1) /\ i \in 0..(k + 1) /\ i - 1 # k + 1
      BY <2>2
    <3>2. q[i - 1] = p[i - 1] /\ q[i] = p[i]
      BY <2>2, <3>1
    <3> QED BY <1>2, <3>1, <3>2
  <2> QED BY <2>1, <2>2
<1> HIDE DEF q
<1>6. q \in Walks(G, m, k + 1)
  BY <1>3, <1>4, <1>5 DEF Walks
<1> QED BY <1>6

LEMMA NoWalk == \A G : Walks(G, Start, 0) # {}
<1> TAKE G
<1> DEFINE p == [i \in 0..0 |-> Start]
<1>1. p \in Walks(G, Start, 0)
  BY TraversalAssumption DEF Walks
<1> QED BY <1>1

-----------------------------------------------------------------------------
THEOREM TraversalInitIInv == TraversalInit => TraversalIInv
<1> SUFFICES ASSUME TraversalInit PROVE TraversalIInv
  OBVIOUS
<1>1. At(Start, 0) \in Item /\ 0 \in Nat
  BY TraversalAssumption DEF At, Item
<1>2. /\ frontier \in Seq(Item) /\ Len(frontier) = 1 /\ frontier[1] = At(Start, 0)
  BY <1>1 DEF TraversalInit
<1>3. Items(frontier) = {At(Start, 0)}
  BY <1>2 DEF Items
<1>4. Visited = {} /\ level \in [Visited -> Nat]
  BY DEF TraversalInit, Visited
<1>5. TraversalTypes /\ InHand = {}
  BY <1>1, <1>2, <1>4, TraversalAssumption DEF TraversalInit, TraversalTypes, InHand
<1>6. ItemsAreWalks
  BY <1>3, NoWalk DEF ItemsAreWalks, At
<1>7. FrontierAscends
  BY <1>2, <1>3, <1>4 DEF FrontierAscends, Ascending, At, TraversalInit
<1>8. DepthsCount
  BY <1>3, <1>4, FS_EmptySet DEF DepthsCount, At
<1>9. StartMet
  BY <1>4 DEF StartMet, TraversalInit
<1>10. BFSCovered /\ DeepCovered /\ EdgesFound
  BY <1>4 DEF BFSCovered, DeepCovered, EdgesFound, Scanned, TraversalInit
<1> QED BY <1>4, <1>5, <1>6, <1>7, <1>8, <1>9, <1>10
        DEF TraversalIInv, InHandVisited, NothingTooFar

-----------------------------------------------------------------------------
(* Pop *)

(* The item taken, and what the step does with it. *)
LEMMA PopFacts ==
    ASSUME TraversalIInv, Pop
    PROVE  /\ NextItem \in Item /\ NextItem \in Items(frontier)
           /\ frontier' = Rest /\ Rest \in Seq(Item)
           /\ Items(frontier) = Items(Rest) \cup {NextItem}
           /\ walk = "pop" /\ InHand = {}
           /\ UNCHANGED <<edges, order, maxDepth, nodes, found, known, lost, events>>
<1>1. frontier \in Seq(Item) /\ frontier # <<>>
  BY DEF TraversalIInv, TraversalTypes, Pop
<1> QED BY <1>1, TakeOne DEF Pop, InHand

LEMMA VisitFacts ==
    ASSUME TraversalIInv, Pop, Visits(NextItem)
    PROVE  /\ walk' = "get" /\ current' = NextItem
           /\ NextItem.node \in GraphNodes /\ NextItem.depth \in Nat
           /\ NextItem.depth =< maxDepth /\ NextItem.node \notin Visited
           /\ Visited' = Visited \cup {NextItem.node}
           /\ level' \in [Visited' -> Nat]
           /\ level'[NextItem.node] = NextItem.depth
           /\ \A n \in Visited : level'[n] = level[n]
           /\ InHand' = {NextItem.node} /\ Scanned' = Scanned
<1>1. NextItem \in Item
  BY PopFacts
<1>2. /\ walk' = "get" /\ current' = NextItem
      /\ level' = [n \in Visited \cup {NextItem.node} |->
                     IF n = NextItem.node THEN NextItem.depth ELSE level[n]]
  BY DEF Pop
<1>3. /\ NextItem.node \in GraphNodes /\ NextItem.depth \in Nat
      /\ NextItem.depth =< maxDepth /\ NextItem.node \notin Visited
      /\ level \in [Visited -> Nat]
  BY <1>1 DEF Item, Visits, TraversalIInv, TraversalTypes
<1>4. /\ Visited' = Visited \cup {NextItem.node}
      /\ level' \in [Visited' -> Nat]
      /\ level'[NextItem.node] = NextItem.depth
      /\ \A n \in Visited : level'[n] = level[n]
  BY <1>2, <1>3 DEF Visited
<1>5. InHand' = {NextItem.node}
  BY <1>2 DEF InHand
<1>6. InHand = {} /\ lost' = lost
  BY PopFacts
<1>7. Scanned' = Scanned
  BY <1>3, <1>4, <1>5, <1>6 DEF Scanned
<1> QED BY <1>2, <1>3, <1>4, <1>5, <1>7

LEMMA SkipFacts ==
    ASSUME TraversalIInv, Pop, ~Visits(NextItem)
    PROVE  /\ UNCHANGED <<current, walk, level>>
           /\ Visited' = Visited /\ InHand' = InHand /\ Scanned' = Scanned
           /\ NextItem.node \in GraphNodes /\ NextItem.depth \in Nat
           /\ NextItem.depth > maxDepth \/ NextItem.node \in Visited
<1>1. UNCHANGED <<current, walk, level, lost>>
  BY DEF Pop
<1>2. Visited' = Visited /\ InHand' = InHand
  BY <1>1 DEF Visited, InHand
<1>3. NextItem \in Item /\ maxDepth \in Nat
  BY PopFacts DEF TraversalIInv, TraversalTypes
<1> QED BY <1>1, <1>2, <1>3 DEF Item, Visits, Scanned

(* Breadth first, what is reached within maxDepth stays reached.           *)
LEMMA PopReached ==
    ASSUME TraversalIInv, Pop, order = "bfs", NEW n \in GraphNodes,
           NEW d \in Nat, d =< maxDepth, Reached(n, d)
    PROVE  Reached(n, d)'
<1> DEFINE item == NextItem
<1>1. /\ item \in Items(frontier) /\ frontier' = Rest
      /\ Items(frontier) = Items(Rest) \cup {item}
  BY PopFacts
<1>2. /\ level \in [Visited -> Nat] /\ current \in Item /\ maxDepth \in Nat
      /\ current.depth \in Nat
  BY DEF TraversalIInv, TraversalTypes, Item
<1>3. /\ \A x \in Items(frontier) : current.depth =< x.depth
      /\ \A m \in Visited : level[m] =< current.depth
  BY DEF TraversalIInv, FrontierAscends
<1>4. \/ n \in Visited /\ level[n] =< d
      \/ \E x \in Items(Rest) : x.node = n /\ x.depth =< d
      \/ item.node = n /\ item.depth =< d
  BY <1>1 DEF Reached
<1> HIDE DEF item
<1>5. CASE Visits(NextItem)
  <2>1. /\ Visited' = Visited \cup {item.node} /\ level'[item.node] = item.depth
        /\ \A m \in Visited : level'[m] = level[m]
    BY <1>5, VisitFacts DEF item
  <2> QED BY <1>1, <1>4, <2>1 DEF Reached
<1>6. CASE ~Visits(NextItem)
  <2>1. /\ Visited' = Visited /\ level' = level
        /\ item.depth \in Nat
        /\ item.depth > maxDepth \/ item.node \in Visited
    BY <1>6, SkipFacts DEF item
  <2>2. CASE item.node = n /\ item.depth =< d
    <3>1. n \in Visited
      BY <1>2, <2>1, <2>2
    <3>2. level[n] =< current.depth /\ current.depth =< item.depth
      BY <1>1, <1>3, <3>1
    <3>3. level[n] =< d
      BY <1>2, <2>1, <2>2, <3>1, <3>2
    <3> QED BY <2>1, <3>1, <3>3 DEF Reached
  <2> QED BY <1>1, <1>4, <2>1, <2>2 DEF Reached
<1> QED BY <1>5, <1>6

(* In either order, with a depth that suffices, what is met stays met.     *)
LEMMA PopMet ==
    ASSUME TraversalIInv, Pop, maxDepth >= Cardinality(GraphNodes) - 1,
           NEW n \in GraphNodes, Met(n)
    PROVE  Met(n)'
<1>1. /\ NextItem \in Items(frontier) /\ frontier' = Rest
      /\ Items(frontier) = Items(Rest) \cup {NextItem}
      /\ NextItem.node \in GraphNodes /\ NextItem.depth \in Nat
  BY PopFacts DEF Item
<1>2. CASE Visits(NextItem)
  BY <1>1, <1>2, VisitFacts DEF Met
<1>3. CASE ~Visits(NextItem)
  <2>1. Visited' = Visited /\ (NextItem.depth > maxDepth \/ NextItem.node \in Visited)
    BY <1>3, SkipFacts
  <2>2. NextItem.node \in Visited
    <3>1. SUFFICES ASSUME NextItem.node \notin Visited PROVE FALSE
      OBVIOUS
    <3>2. /\ IsFiniteSet(Visited) /\ NextItem.depth =< Cardinality(Visited)
          /\ Cardinality(Visited) \in Nat
      BY <1>1, FS_CardinalityType DEF TraversalIInv, DepthsCount
    <3>3. Cardinality(Visited \cup {NextItem.node}) = Cardinality(Visited) + 1
      BY <3>1, <3>2, FS_AddElement
    <3>4. /\ IsFiniteSet(GraphNodes)
          /\ Visited \cup {NextItem.node} \in SUBSET GraphNodes
      BY <1>1, TraversalAssumption DEF TraversalIInv, TraversalTypes
    <3>5. /\ Cardinality(Visited \cup {NextItem.node}) =< Cardinality(GraphNodes)
          /\ Cardinality(GraphNodes) \in Nat
      BY <3>4, FS_Subset, FS_CardinalityType
    <3>6. maxDepth \in Nat
      BY DEF TraversalIInv, TraversalTypes
    <3> QED BY <1>1, <2>1, <3>1, <3>2, <3>3, <3>5, <3>6
  <2> QED BY <1>1, <2>1, <2>2 DEF Met
<1> QED BY <1>2, <1>3

THEOREM PopStep ==
    ASSUME TraversalIInv, Pop
    PROVE  TraversalIInv'
<1> DEFINE item == NextItem
<1>1. /\ item \in Item /\ item \in Items(frontier)
      /\ frontier' = Rest /\ Rest \in Seq(Item) /\ Items(Rest) \subseteq Items(frontier)
      /\ walk = "pop" /\ InHand = {}
      /\ UNCHANGED <<edges, order, maxDepth, nodes, found, known, lost, events>>
  BY PopFacts
<1>2. /\ TraversalTypes /\ ItemsAreWalks /\ FrontierAscends /\ DepthsCount
      /\ NothingTooFar /\ StartMet /\ BFSCovered /\ DeepCovered /\ EdgesFound
  BY DEF TraversalIInv
<1>3. /\ item.node \in GraphNodes /\ item.depth \in Nat
      /\ frontier \in Seq(Item) /\ frontier # <<>>
  BY <1>1, <1>2 DEF Item, Pop, TraversalTypes
<1>4. CASE Visits(NextItem)
  <2> USE VisitFacts, <1>4
  <2>1. /\ walk' = "get" /\ current' = item /\ item.depth =< maxDepth
        /\ item.node \notin Visited /\ Visited' = Visited \cup {item.node}
        /\ level' \in [Visited' -> Nat] /\ level'[item.node] = item.depth
        /\ \A n \in Visited : level'[n] = level[n]
        /\ InHand' = {item.node} /\ Scanned' = Scanned
    OBVIOUS
  <2> HIDE DEF item
  <2>2. TraversalTypes'
    BY <1>1, <1>2, <1>3, <2>1 DEF TraversalTypes
  <2>3. InHandVisited'
    BY <2>1 DEF InHandVisited
  <2>4. NothingTooFar'
    BY <1>1, <1>2, <2>1 DEF NothingTooFar, ItemsAreWalks
  <2>5. ItemsAreWalks'
    BY <1>1, <1>2 DEF ItemsAreWalks
  <2>6. FrontierAscends'
    <3>1. SUFFICES ASSUME order = "bfs" PROVE FrontierAscends'
      BY <1>1 DEF FrontierAscends
    <3>2. /\ Ascending(frontier)
          /\ \A x \in Items(frontier) :
               current.depth =< x.depth /\ x.depth =< current.depth + 1
          /\ \A n \in Visited : level[n] =< current.depth
      BY <1>2, <3>1 DEF FrontierAscends
    <3>3. Ascending(Rest) /\ \A x \in Items(frontier) : item.depth =< x.depth
      BY <1>3, <3>1, <3>2, TakeFirst DEF item
    <3>4. /\ current.depth \in Nat /\ \A n \in Visited : level[n] \in Nat
          /\ \A x \in Items(frontier) : x.depth \in Nat
      BY <1>2, TypedFacts
    <3>5. \A x \in Items(Rest) :
            current'.depth =< x.depth /\ x.depth =< current'.depth + 1
      BY <1>1, <1>3, <2>1, <3>2, <3>3, <3>4
    <3>6. \A n \in Visited' : level'[n] =< current'.depth
      BY <1>1, <1>3, <2>1, <3>2, <3>4
    <3> QED BY <1>1, <3>3, <3>5, <3>6 DEF FrontierAscends, Ascending
  <2>7. DepthsCount'
    <3>1. /\ IsFiniteSet(Visited) /\ Cardinality(Visited) \in Nat
          /\ \A n \in Visited : level[n] < Cardinality(Visited) /\ level[n] \in Nat
          /\ \A x \in Items(frontier) : x.depth =< Cardinality(Visited)
          /\ \A x \in Items(frontier) : x.depth \in Nat
      BY <1>2, TypedFacts, FS_CardinalityType DEF DepthsCount
    <3>2. /\ IsFiniteSet(Visited')
          /\ Cardinality(Visited') = Cardinality(Visited) + 1
      BY <2>1, <3>1, FS_AddElement
    <3>3. \A n \in Visited' : level'[n] < Cardinality(Visited')
      BY <1>1, <1>3, <2>1, <3>1, <3>2
    <3>4. \A x \in Items(Rest) : x.depth =< Cardinality(Visited')
      BY <1>1, <3>1, <3>2
    <3> QED BY <1>1, <3>2, <3>3, <3>4 DEF DepthsCount
  <2>8. StartMet'
    <3>1. CASE frontier = <<At(Start, 0)>>
      <4>1. item = At(Start, 0)
        BY <1>1, <3>1 DEF Items
      <4> QED BY <2>1, <4>1, AtFields DEF StartMet
    <3>2. CASE Start \in Visited /\ level[Start] = 0
      BY <2>1, <3>2 DEF StartMet
    <3> QED BY <1>2, <3>1, <3>2 DEF StartMet
  <2>9. EdgesFound'
    BY <1>1, <1>2, <2>1 DEF EdgesFound
  <2>10. \A n \in Scanned : n \in Visited /\ level'[n] = level[n]
    BY <2>1 DEF Scanned
  <2>11. BFSCovered'
    <3>1. SUFFICES ASSUME order = "bfs", NEW n \in Scanned, NEW m \in GraphNodes,
                          <<n, m>> \in known, level[n] < maxDepth
                   PROVE  Reached(m, level[n] + 1)'
      BY <1>1, <2>1, <2>10 DEF BFSCovered, Reached
    <3>2. Reached(m, level[n] + 1)
      BY <1>2, <3>1 DEF BFSCovered
    <3>3. PICK d \in Nat : d = level[n] + 1
      BY <1>2, <2>10 DEF TraversalTypes
    <3>4. d =< maxDepth
      BY <1>2, <2>10, <3>1, <3>3 DEF TraversalTypes
    <3>5. Reached(m, d)'
      BY <3>1, <3>2, <3>3, <3>4, PopReached
    <3>6. level'[n] = level[n]
      BY <2>10
    <3> QED BY <3>3, <3>5, <3>6 DEF Reached
  <2>12. DeepCovered'
    BY <1>1, <1>2, <2>1, PopMet DEF DeepCovered
  <2> QED BY <2>2, <2>3, <2>4, <2>5, <2>6, <2>7, <2>8, <2>9, <2>11, <2>12
          DEF TraversalIInv
<1>5. CASE ~Visits(NextItem)
  <2>1. /\ UNCHANGED <<current, walk, level>> /\ Visited' = Visited
        /\ InHand' = InHand /\ Scanned' = Scanned
        /\ item.depth > maxDepth \/ item.node \in Visited
    BY <1>5, SkipFacts
  <2>2. TraversalTypes'
    BY <1>1, <1>2, <2>1 DEF TraversalTypes
  <2>3. InHandVisited' /\ NothingTooFar' /\ ItemsAreWalks' /\ EdgesFound'
    BY <1>1, <1>2, <2>1 DEF InHandVisited, NothingTooFar, ItemsAreWalks, EdgesFound
  <2>4. FrontierAscends' /\ DepthsCount'
    <3>1. DepthsCount'
      BY <1>1, <1>2, <2>1 DEF DepthsCount
    <3>2. ASSUME order = "bfs" PROVE Ascending(Rest)
      BY <1>2, <1>3, <3>2, TakeFirst DEF FrontierAscends
    <3>3. FrontierAscends'
      BY <1>1, <1>2, <2>1, <3>2 DEF FrontierAscends, Ascending
    <3> QED BY <3>1, <3>3
  <2>5. StartMet'
    <3>1. CASE Visited = {} /\ frontier = <<At(Start, 0)>>
      <4>1. item = At(Start, 0)
        BY <1>1, <3>1 DEF Items
      <4> QED BY <1>2, <2>1, <3>1, <4>1, AtFields DEF TraversalTypes
    <3>2. CASE Start \in Visited /\ level[Start] = 0
      BY <2>1, <3>2 DEF StartMet
    <3> QED BY <1>2, <3>1, <3>2 DEF StartMet
  <2>6. BFSCovered'
    <3>1. SUFFICES ASSUME order = "bfs", NEW n \in Scanned, NEW m \in GraphNodes,
                          <<n, m>> \in known, level[n] < maxDepth
                   PROVE  Reached(m, level[n] + 1)'
      BY <1>1, <2>1 DEF BFSCovered, Reached
    <3>2. Reached(m, level[n] + 1) /\ n \in Visited
      BY <1>2, <3>1 DEF BFSCovered, Scanned
    <3>3. PICK d \in Nat : d = level[n] + 1
      BY <1>2, <3>2 DEF TraversalTypes
    <3>4. d =< maxDepth
      BY <1>2, <3>1, <3>2, <3>3 DEF TraversalTypes
    <3>5. Reached(m, d)'
      BY <3>1, <3>2, <3>3, <3>4, PopReached
    <3> QED BY <2>1, <3>3, <3>5 DEF Reached
  <2>7. DeepCovered'
    BY <1>1, <1>2, <2>1, PopMet DEF DeepCovered
  <2> QED BY <2>2, <2>3, <2>4, <2>5, <2>6, <2>7, <1>2 DEF TraversalIInv
<1> QED BY <1>4, <1>5

-----------------------------------------------------------------------------
(* The other steps *)

(* A request that leaves the frontier and the visited nodes alone.         *)
LEMMA Unmoved ==
    ASSUME UNCHANGED <<frontier, level>>
    PROVE  /\ Visited' = Visited
           /\ \A n, d : Reached(n, d)' <=> Reached(n, d)
           /\ \A n : Met(n)' <=> Met(n)
BY DEF Visited, Reached, Met

THEOREM GetNodeStep ==
    ASSUME TraversalIInv, GetNode \/ GetNodeFails
    PROVE  TraversalIInv'
<1>1. /\ walk = "get" /\ walk' = "scan"
      /\ UNCHANGED <<edges, order, maxDepth, frontier, current, level, found,
                     known, lost>>
  BY DEF GetNode, GetNodeFails
<1>2. InHand' = InHand /\ Visited' = Visited /\ Scanned' = Scanned
  BY <1>1 DEF InHand, Visited, Scanned
<1>3. /\ TraversalTypes' /\ InHandVisited' /\ NothingTooFar' /\ ItemsAreWalks'
      /\ DepthsCount' /\ EdgesFound' /\ StartMet'
  BY <1>1, <1>2 DEF TraversalIInv, TraversalTypes, InHandVisited, NothingTooFar,
       ItemsAreWalks, DepthsCount, EdgesFound, StartMet
<1>4. FrontierAscends'
  BY <1>1, <1>2 DEF TraversalIInv, FrontierAscends, Ascending
<1>5. BFSCovered' /\ DeepCovered'
  BY <1>1, <1>2, Unmoved DEF TraversalIInv, BFSCovered, DeepCovered
<1> QED BY <1>3, <1>4, <1>5 DEF TraversalIInv

THEOREM ScanEdgesFailsStep ==
    ASSUME TraversalIInv, ScanEdgesFails
    PROVE  TraversalIInv'
<1>1. /\ walk = "scan" /\ walk' = "pop" /\ lost' = lost \cup {current.node}
      /\ UNCHANGED <<edges, order, maxDepth, frontier, current, level, found,
                     known>>
  BY DEF ScanEdgesFails
<1>2. InHand = {current.node} /\ InHand' = {} /\ Visited' = Visited
  BY <1>1 DEF InHand, Visited
<1>3. Scanned' = Scanned
  BY <1>1, <1>2 DEF Scanned
<1>4. TraversalTypes'
  BY <1>1, <1>2, TypedFacts DEF TraversalIInv, TraversalTypes
<1>5. InHandVisited' /\ NothingTooFar' /\ ItemsAreWalks' /\ DepthsCount' /\ EdgesFound'
  BY <1>1, <1>2, <1>3 DEF TraversalIInv, InHandVisited, NothingTooFar,
       ItemsAreWalks, DepthsCount, EdgesFound
<1>6. StartMet' /\ FrontierAscends'
  BY <1>1, <1>2 DEF TraversalIInv, StartMet, FrontierAscends, Ascending
<1>7. BFSCovered' /\ DeepCovered'
  BY <1>1, <1>3, Unmoved DEF TraversalIInv, BFSCovered, DeepCovered
<1> QED BY <1>4, <1>5, <1>6, <1>7 DEF TraversalIInv

THEOREM TraverseReturnsStep ==
    ASSUME TraversalIInv, TraverseReturns
    PROVE  TraversalIInv'
<1>1. /\ walk = "pop" /\ walk' = "done" /\ frontier = <<>>
      /\ UNCHANGED <<edges, order, maxDepth, frontier, current, level, found,
                     known, lost>>
  BY DEF TraverseReturns
<1>2. InHand' = InHand /\ Visited' = Visited /\ Scanned' = Scanned
  BY <1>1 DEF InHand, Visited, Scanned
<1>3. /\ TraversalTypes' /\ InHandVisited' /\ NothingTooFar' /\ ItemsAreWalks'
      /\ DepthsCount' /\ EdgesFound'
  BY <1>1, <1>2 DEF TraversalIInv, TraversalTypes, InHandVisited, NothingTooFar,
       ItemsAreWalks, DepthsCount, EdgesFound
<1>4. <<>> # <<At(Start, 0)>>
  OBVIOUS
<1>5. StartMet' /\ FrontierAscends'
  BY <1>1, <1>2, <1>4 DEF TraversalIInv, StartMet, FrontierAscends, Ascending
<1>6. BFSCovered' /\ DeepCovered'
  BY <1>1, <1>2, Unmoved DEF TraversalIInv, BFSCovered, DeepCovered
<1> QED BY <1>3, <1>5, <1>6 DEF TraversalIInv

(* Walks stay when edges are added. *)
THEOREM AddEdgeStep ==
    ASSUME TraversalIInv, NEW e \in Links, AddEdge(e)
    PROVE  TraversalIInv'
<1>1. /\ edges' = edges \cup {e}
      /\ UNCHANGED <<order, maxDepth, walk, frontier, current, level, found,
                     known, lost>>
  BY DEF AddEdge
<1>2. InHand' = InHand /\ Visited' = Visited /\ Scanned' = Scanned
  BY <1>1 DEF InHand, Visited, Scanned
<1>3. \A n, k : Walks(edges, n, k) # {} => Walks(edges', n, k) # {}
  BY <1>1, MoreEdges
<1>4. /\ TraversalTypes' /\ InHandVisited' /\ NothingTooFar' /\ ItemsAreWalks'
      /\ DepthsCount' /\ EdgesFound' /\ StartMet'
  BY <1>1, <1>2, <1>3 DEF TraversalIInv, TraversalTypes, InHandVisited,
       NothingTooFar, ItemsAreWalks, DepthsCount, EdgesFound, StartMet
<1>5. FrontierAscends'
  BY <1>1, <1>2 DEF TraversalIInv, FrontierAscends, Ascending
<1>6. BFSCovered' /\ DeepCovered'
  BY <1>1, <1>2, Unmoved DEF TraversalIInv, BFSCovered, DeepCovered
<1> QED BY <1>4, <1>5, <1>6 DEF TraversalIInv

(* The targets of the node in hand join the end of the frontier. *)
LEMMA ScanFacts ==
    ASSUME TraversalIInv, ScanEdges
    PROVE  \E u \in GraphNodes, c \in Nat, d \in Nat, N \in SUBSET GraphNodes :
             /\ u = current.node /\ c = current.depth /\ d = c + 1
             /\ N = Targets(u) \ Visited
             /\ frontier' \in Seq(Item)
             /\ Items(frontier') = Items(frontier) \cup {At(n, d) : n \in N}
             /\ Ascending(frontier) /\ (\A x \in Items(frontier) : x.depth =< d)
                  => Ascending(frontier')
<1>1. /\ frontier \in Seq(Item)
      /\ current.node \in GraphNodes /\ current.depth \in Nat
  BY TypedFacts DEF TraversalIInv, TraversalTypes
<1>2. PICK u \in GraphNodes, c \in Nat, d \in Nat, N \in SUBSET GraphNodes :
        /\ u = current.node /\ c = current.depth /\ d = c + 1
        /\ N = Targets(u) \ Visited
  <2>1. current.depth + 1 \in Nat /\ Targets(current.node) \ Visited \subseteq GraphNodes
    BY <1>1 DEF Targets
  <2> QED BY <1>1, <2>1
<1>3. PICK s \in Listings(N) : frontier' = frontier \o Appended(s, d)
  BY <1>2 DEF ScanEdges, Appended
<1>4. /\ frontier' \in Seq(Item)
      /\ Items(frontier') = Items(frontier) \cup {At(n, d) : n \in N}
      /\ Ascending(frontier) /\ (\A x \in Items(frontier) : x.depth =< d)
           => Ascending(frontier')
  <2>1. PICK b \in Seq(Item) : b = frontier
    BY <1>1
  <2>2. PICK f : f = frontier' /\ N \subseteq GraphNodes
    OBVIOUS
  <2>3. f = b \o Appended(s, d)
    BY <1>3, <2>1, <2>2
  <2>4. /\ f \in Seq(Item)
        /\ Items(f) = Items(b) \cup {At(n, d) : n \in N}
        /\ Ascending(b) /\ (\A x \in Items(b) : x.depth =< d) => Ascending(f)
    BY <2>2, <2>3, AppendItems, Zenon
  <2> QED BY <2>1, <2>2, <2>4
<1> QED BY <1>2, <1>4

THEOREM ScanEdgesStep ==
    ASSUME TraversalIInv, ScanEdges
    PROVE  TraversalIInv'
<1>1. PICK u \in GraphNodes, c \in Nat, d \in Nat, N \in SUBSET GraphNodes :
        /\ u = current.node /\ c = current.depth /\ d = c + 1
        /\ N = Targets(u) \ Visited
        /\ frontier' \in Seq(Item)
        /\ Items(frontier') = Items(frontier) \cup {At(n, d) : n \in N}
        /\ Ascending(frontier) /\ (\A x \in Items(frontier) : x.depth =< d)
             => Ascending(frontier')
  BY ScanFacts
<1>2. /\ walk = "scan" /\ walk' = "pop"
      /\ found' = found \cup {<<u, m>> : m \in Targets(u)}
      /\ UNCHANGED <<edges, order, maxDepth, current, level, nodes, known, lost>>
  BY <1>1 DEF ScanEdges
<1>3. /\ TraversalTypes /\ InHandVisited /\ NothingTooFar /\ ItemsAreWalks
      /\ FrontierAscends /\ DepthsCount /\ StartMet /\ BFSCovered /\ DeepCovered
      /\ EdgesFound
  BY DEF TraversalIInv
<1>4. InHand = {u} /\ InHand' = {} /\ Visited' = Visited
  BY <1>1, <1>2 DEF InHand, Visited
<1>5. u \in Visited /\ level[u] = c
  BY <1>1, <1>3, <1>4 DEF InHandVisited
<1>6. /\ known \subseteq edges /\ known \subseteq Links
      /\ \A n \in Visited : n \in GraphNodes /\ level[n] \in Nat
      /\ \A x \in Items(frontier) : x.depth \in Nat
  BY <1>3, TypedFacts DEF TraversalTypes
<1>7. \A n \in N : n \in GraphNodes /\ n \notin Visited /\ <<u, n>> \in edges
  BY <1>1 DEF Targets
<1>8. \A m \in GraphNodes : <<u, m>> \in edges => m \in Targets(u) /\ (m \in Visited \/ m \in N)
  BY <1>1 DEF Targets
<1>9. Scanned' \subseteq Scanned \cup {u}
  BY <1>2, <1>4 DEF Scanned
<1>10. \A x \in Items(frontier') :
         x \in Items(frontier) \/ (x.node \in N /\ x.depth = d)
  BY <1>1, AtFields
<1>11. \A n \in N : \E x \in Items(frontier') : x.node = n /\ x.depth = d
  <2>1. \A n \in N : At(n, d) \in Items(frontier')
    BY <1>1
  <2> QED BY <2>1, AtFields
<1>12. Items(frontier) \subseteq Items(frontier')
  BY <1>1
<1>13. TraversalTypes'
  BY <1>1, <1>2, <1>3, <1>4 DEF TraversalTypes
<1>14. InHandVisited' /\ NothingTooFar'
  BY <1>2, <1>3, <1>4 DEF InHandVisited, NothingTooFar
<1>15. ItemsAreWalks'
  <2>1. Walks(edges, u, c) # {}
    BY <1>3, <1>5 DEF NothingTooFar
  <2>2. ASSUME NEW n \in N PROVE Walks(edges, n, d) # {}
    BY <1>1, <1>7, <2>1, LongerWalk
  <2>3. ASSUME NEW x \in Items(frontier') PROVE Walks(edges, x.node, x.depth) # {}
    <3>1. CASE x \in Items(frontier)
      BY <1>3, <3>1 DEF ItemsAreWalks
    <3>2. CASE x.node \in N /\ x.depth = d
      BY <2>2, <3>2
    <3> QED BY <1>10, <3>1, <3>2
  <2>4. edges' = edges
    BY <1>2
  <2> QED BY <2>3, <2>4 DEF ItemsAreWalks
<1>16. FrontierAscends'
  <2>1. SUFFICES ASSUME order = "bfs" PROVE FrontierAscends'
    BY <1>2 DEF FrontierAscends
  <2>2. /\ Ascending(frontier)
        /\ \A x \in Items(frontier) : c =< x.depth /\ x.depth =< d
        /\ \A n \in Visited : level[n] =< c
    BY <1>1, <1>3, <2>1 DEF FrontierAscends
  <2>3. \A x \in Items(frontier') : c =< x.depth /\ x.depth =< d
    BY <1>1, <1>10, <2>2
  <2>4. Ascending(frontier')
    BY <1>1, <2>2
  <2>5. Ascending(frontier)'
    BY <2>4 DEF Ascending
  <2> QED BY <1>1, <1>2, <1>4, <2>2, <2>3, <2>5 DEF FrontierAscends
<1>17. DepthsCount'
  <2>1. /\ IsFiniteSet(Visited) /\ Cardinality(Visited) \in Nat
        /\ c < Cardinality(Visited)
    BY <1>3, <1>5, FS_CardinalityType DEF DepthsCount
  <2>2. d =< Cardinality(Visited)
    BY <1>1, <2>1
  <2>3. \A x \in Items(frontier') : x.depth =< Cardinality(Visited)
    BY <1>3, <1>10, <2>2 DEF DepthsCount
  <2> QED BY <1>2, <1>3, <1>4, <2>3 DEF DepthsCount
<1>18. StartMet'
  BY <1>2, <1>3, <1>5 DEF StartMet, Visited
<1>19. EdgesFound'
  <2>1. \A e \in found' : e \in edges /\ e[1] \in Visited
    <3>1. \A e \in found : e \in edges /\ e[1] \in Visited
      BY <1>3 DEF EdgesFound
    <3>2. \A m \in Targets(u) : <<u, m>> \in edges /\ <<u, m>>[1] = u
      BY DEF Targets
    <3> QED BY <1>2, <1>5, <3>1, <3>2
  <2>2. ASSUME NEW e \in known, e[1] \in Scanned' PROVE e \in found'
    <3>1. PICK n \in GraphNodes, m \in GraphNodes : e = <<n, m>>
      BY <1>6, <2>2, TraversalAssumption
    <3>2. e[1] = n
      BY <3>1
    <3>3. CASE n \in Scanned
      BY <1>2, <1>3, <3>2, <3>3 DEF EdgesFound
    <3>4. CASE n = u
      <4>1. m \in Targets(u)
        BY <1>6, <1>8, <2>2, <3>1, <3>4
      <4> QED BY <1>2, <3>1, <3>4, <4>1
    <3> QED BY <1>9, <2>2, <3>2, <3>3, <3>4
  <2> QED BY <1>2, <1>4, <2>1, <2>2 DEF EdgesFound
<1>20. \A n, k : Reached(n, k) => Reached(n, k)'
  BY <1>2, <1>4, <1>12 DEF Reached
<1>21. \A n : Met(n) => Met(n)'
  BY <1>4, <1>12 DEF Met
<1>22. BFSCovered'
  <2>1. SUFFICES ASSUME order = "bfs", NEW n \in Scanned', NEW m \in GraphNodes,
                        <<n, m>> \in known, level[n] < maxDepth
                 PROVE  Reached(m, level[n] + 1)'
    BY <1>2 DEF BFSCovered, Reached
  <2>2. CASE n \in Scanned
    <3>1. Reached(m, level[n] + 1)
      BY <1>3, <2>1, <2>2 DEF BFSCovered
    <3>2. PICK k : k = level[n] + 1
      OBVIOUS
    <3> QED BY <1>2, <1>20, <3>1, <3>2 DEF Reached
  <2>3. CASE n = u
    <3>1. <<u, m>> \in edges
      BY <1>6, <2>1, <2>3
    <3>2. level'[n] + 1 = d /\ level[n] + 1 = d /\ d =< d
      BY <1>1, <1>2, <1>5, <2>3
    <3>3. CASE m \in N
      BY <1>11, <3>2, <3>3 DEF Reached
    <3>4. CASE m \in Visited
      <4>1. level[m] =< c /\ level[m] \in Nat
        BY <1>1, <1>3, <1>6, <2>1, <3>4 DEF FrontierAscends
      <4>2. level[m] =< d
        BY <1>1, <4>1
      <4> QED BY <1>2, <1>4, <3>2, <3>4, <4>2 DEF Reached
    <3> QED BY <1>8, <3>1, <3>3, <3>4
  <2> QED BY <1>9, <2>1, <2>2, <2>3
<1>23. DeepCovered'
  <2>1. SUFFICES ASSUME maxDepth >= Cardinality(GraphNodes) - 1,
                        NEW n \in Scanned', NEW m \in GraphNodes,
                        <<n, m>> \in known
                 PROVE  Met(m)'
    BY <1>2 DEF DeepCovered
  <2>2. CASE n \in Scanned
    BY <1>3, <1>21, <2>1, <2>2 DEF DeepCovered
  <2>3. CASE n = u
    <3>1. <<u, m>> \in edges
      BY <1>6, <2>1, <2>3
    <3> QED BY <1>4, <1>8, <1>11, <3>1 DEF Met
  <2> QED BY <1>9, <2>1, <2>2, <2>3
<1> QED BY <1>13, <1>14, <1>15, <1>16, <1>17, <1>18, <1>19, <1>22, <1>23
        DEF TraversalIInv

-----------------------------------------------------------------------------
THEOREM TraversalNextIInv ==
    ASSUME TraversalIInv, [TraversalNext]_traversalVars
    PROVE  TraversalIInv'
<1>1. CASE UNCHANGED traversalVars
  <2>1. /\ UNCHANGED <<edges, order, maxDepth, walk, frontier, current, level,
                       found, known, lost>>
    BY <1>1 DEF traversalVars
  <2>2. InHand' = InHand /\ Visited' = Visited /\ Scanned' = Scanned
    BY <2>1 DEF InHand, Visited, Scanned
  <2>3. /\ TraversalTypes' /\ InHandVisited' /\ NothingTooFar' /\ ItemsAreWalks'
        /\ DepthsCount' /\ EdgesFound' /\ StartMet'
    BY <2>1, <2>2 DEF TraversalIInv, TraversalTypes, InHandVisited,
         NothingTooFar, ItemsAreWalks, DepthsCount, EdgesFound, StartMet
  <2>4. FrontierAscends'
    BY <2>1, <2>2 DEF TraversalIInv, FrontierAscends, Ascending
  <2>5. BFSCovered' /\ DeepCovered'
    BY <2>1, <2>2, Unmoved DEF TraversalIInv, BFSCovered, DeepCovered
  <2> QED BY <2>3, <2>4, <2>5 DEF TraversalIInv
<1>2. CASE TraversalNext
  BY <1>2, PopStep, GetNodeStep, ScanEdgesStep, ScanEdgesFailsStep,
     TraverseReturnsStep, AddEdgeStep DEF TraversalNext
<1> QED BY <1>1, <1>2

(* TraversalIInv is an invariant. *)
THEOREM TraversalInvariant == TraversalSpec => []TraversalIInv
BY TraversalInitIInv, TraversalNextIInv, PTL DEF TraversalSpec

(* No node beyond maxDepth is visited, nor one no walk leads to (line 731). *)
THEOREM TraversalNothingTooFar == TraversalSpec => []NothingTooFar
<1>1. TraversalIInv => NothingTooFar
  BY DEF TraversalIInv
<1> QED BY <1>1, TraversalInvariant, PTL

(* The result's edges are those of the nodes visited (lines 746-753). *)
THEOREM TraversalEdgesOfVisited == TraversalSpec => []EdgesOfVisited
<1>1. ASSUME TraversalIInv PROVE EdgesOfVisited
  <2>1. walk = "done" => InHand = {}
    BY DEF InHand
  <2>2. walk = "done" => Scanned = Visited \ lost
    BY <2>1 DEF Scanned
  <2> QED BY <1>1, <2>2 DEF TraversalIInv, EdgesFound, EdgesOfVisited
<1> QED BY <1>1, TraversalInvariant, PTL

(* Once it is done, no item waits and every node visited was scanned.      *)
LEMMA AtTheEnd ==
    ASSUME TraversalIInv, walk = "done", lost = {}
    PROVE  /\ Scanned = Visited /\ Start \in Visited /\ level[Start] = 0
           /\ \A n : Met(n) <=> n \in Visited
           /\ \A n, d : Reached(n, d) <=> n \in Visited /\ level[n] =< d
<1>1. frontier = <<>> /\ InHand = {}
  BY DEF TraversalIInv, TraversalTypes, InHand
<1>2. Items(frontier) = {}
  <2>1. Len(frontier) = 0
    BY <1>1
  <2> QED BY <2>1 DEF Items
<1>3. Start \in Visited /\ level[Start] = 0
  BY <1>1 DEF TraversalIInv, StartMet
<1> QED BY <1>1, <1>2, <1>3 DEF Scanned, Met, Reached

(* With maxDepth beyond every simple path, depth first too follows every   *)
(* edge there was when the call began (lines 725-731).                     *)
THEOREM TraversalDeepWalks == TraversalSpec => []DeepWalksAreComplete
<1>1. ASSUME TraversalIInv PROVE DeepWalksAreComplete
  <2>1. SUFFICES ASSUME walk = "done", lost = {},
                        maxDepth >= Cardinality(GraphNodes) - 1
                 PROVE  /\ Start \in Visited
                        /\ \A n \in Visited, m \in GraphNodes :
                             <<n, m>> \in known => m \in Visited
    BY DEF DeepWalksAreComplete
  <2>2. DeepCovered
    BY <1>1 DEF TraversalIInv
  <2> QED BY <1>1, <2>1, <2>2, AtTheEnd DEF DeepCovered
<1> QED BY <1>1, TraversalInvariant, PTL

LEMMA Least ==
    ASSUME NEW T, T \subseteq Nat, T # {}
    PROVE  \E x \in T : \A y \in T : x =< y
<1>1. PICK x \in T : \A y \in T : <<y, x>> \notin OpToRel(<, Nat)
  BY NatLessThanWellFounded, WFMin, Zenon
<1>2. ASSUME NEW y \in T PROVE x =< y
  <2>1. x \in Nat /\ y \in Nat
    OBVIOUS
  <2>2. ~(y < x)
    BY <1>1, <2>1, Zenon DEF OpToRel
  <2> QED BY <2>1, <2>2
<1> QED BY <1>2

(* Breadth first, what k edges could reach when the call began is visited  *)
(* at depth k at most (lines 723-724): the first step of a walk that was   *)
(* not reached in time would follow an edge that was scanned.              *)
THEOREM TraversalBFSFindsAll == TraversalSpec => []BFSFindsAll
<1>1. ASSUME TraversalIInv PROVE BFSFindsAll
  <2>1. SUFFICES ASSUME walk = "done", order = "bfs", lost = {},
                        NEW k \in 0..maxDepth, NEW n \in GraphNodes,
                        Walks(known, n, k) # {}
                 PROVE  n \in Visited /\ level[n] =< k
    BY DEF BFSFindsAll
  <2>2. /\ maxDepth \in Nat /\ Start \in Visited /\ level[Start] = 0
        /\ \A x \in Visited : level[x] \in Nat
        /\ \A x \in Visited, m \in GraphNodes :
             <<x, m>> \in known /\ level[x] < maxDepth =>
               m \in Visited /\ level[m] =< level[x] + 1
    BY <1>1, <2>1, AtTheEnd, TypedFacts DEF TraversalIInv, TraversalTypes, BFSCovered
  <2>3. PICK p \in [0..k -> GraphNodes] :
          p[0] = Start /\ p[k] = n /\ \A i \in 1..k : <<p[i - 1], p[i]>> \in known
    BY <2>1 DEF Walks
  <2> DEFINE InTime(i) == p[i] \in Visited /\ level[p[i]] =< i
             Late == {i \in 0..k : ~InTime(i)}
  <2>4. Late = {}
    <3>1. SUFFICES ASSUME Late # {} PROVE FALSE
      OBVIOUS
    <3>2. Late \subseteq Nat
      BY <2>1, <2>2
    <3>3. PICK i \in Late : \A j \in Late : i =< j
      BY <3>1, <3>2, Least
    <3>4. i # 0
      BY <2>2, <2>3, <3>3
    <3>5. i \in 1..k /\ i - 1 \in 0..k /\ i - 1 < maxDepth /\ ~(i =< i - 1)
      BY <2>1, <2>2, <3>3, <3>4
    <3>6. InTime(i - 1)
      BY <3>3, <3>5
    <3>7. /\ p[i - 1] \in Visited /\ level[p[i - 1]] =< i - 1
          /\ level[p[i - 1]] \in Nat
      BY <2>2, <3>6
    <3>8. <<p[i - 1], p[i]>> \in known /\ p[i] \in GraphNodes
      BY <2>3, <3>5
    <3>9. level[p[i - 1]] < maxDepth
      BY <2>2, <3>5, <3>7
    <3>10. p[i] \in Visited /\ level[p[i]] =< level[p[i - 1]] + 1
      BY <2>2, <3>7, <3>8, <3>9
    <3>11. level[p[i]] =< i /\ level[p[i]] \in Nat
      BY <2>2, <3>5, <3>7, <3>10
    <3> QED BY <3>3, <3>10, <3>11
  <2>5. k \in 0..k
    BY <2>1, <2>2
  <2> QED BY <2>3, <2>4, <2>5
<1> QED BY <1>1, TraversalInvariant, PTL

-----------------------------------------------------------------------------
(* SemanticCache *)

Phases == AtRest \cup {"put", "delete", "get", "count", "add", "clear", "purge",
                       "purging"}

-----------------------------------------------------------------------------
(* The inductive invariant *)

StoreTypes ==
    /\ Cached \subseteq CacheKeys /\ cached \in [Cached -> StoredEntry]
    /\ puts \in Nat /\ clock \in Nat
    /\ \A k \in Cached : cached[k].put =< puts

HandleTypes ==
    /\ handleOf \in [Actors -> Handles] /\ spare \in BOOLEAN
    /\ tail \in [Handles -> CacheKeys \cup {NoKey}]
    /\ hits \in [Handles -> Nat] /\ misses \in [Handles -> Nat]
    /\ gets \in [Handles -> Nat]

CallTypes ==
    /\ phase \in [Actors -> Phases]
    /\ began \in [Actors -> Nat] /\ counter \in [Actors -> Nat]
    /\ seen \in [Actors -> Nat]
    /\ appended \in [Actors -> CacheKeys \cup {NoKey}]
    /\ entry \in [Actors -> Entry \cup {NoEntry}]
    /\ best \in [Actors -> StoredEntry \cup {NoEntry}]
    /\ doomed \in [Actors -> SUBSET CacheKeys]
    /\ unread \in [Actors -> SUBSET CacheKeys]
    /\ \A a \in Actors : seen[a] =< puts

(* The key of a Put or Delete in progress is where the handle left it. *)
KeyInHand(a) ==
    phase[a] \in {"put", "delete"} =>
      /\ appended[a] \in CacheKeys /\ tail[handleOf[a]] \in CacheKeys
      /\ ~Shared(handleOf[a]) => tail[handleOf[a]] = appended[a]
      /\ phase[a] = "put" => entry[a] \in Entry /\ entry[a].key = appended[a]

(* What a sweep came to is doomed, deleted or put again. *)
SweepFine(a) ==
    /\ phase[a] = "clear" => \A k \in Cached : k \in doomed[a] \/ Missed(a, k)
    /\ phase[a] = "cleared" => \A k \in Cached : Missed(a, k)
    /\ phase[a] \in {"purging", "purged"} =>
         \A k \in Cached : Expired(cached[k], began[a]) =>
           (phase[a] = "purging" /\ k \in doomed[a]) \/ Missed(a, k)
    /\ phase[a] = "purging" =>
         \A k \in doomed[a] \cap Cached :
           Expired(cached[k], began[a]) \/ PutSince(a, k)

BestFine(a) ==
    phase[a] \in {"count", "add", "got"} =>
      /\ best[a] # NoEntry => /\ ~Expired(best[a], began[a])
                              /\ best[a].score > Threshold
      /\ \A k \in Cached :
           /\ cached[k].score # Incomparable
           /\ cached[k].score > IF best[a] = NoEntry THEN Threshold ELSE best[a].score
           => Expired(cached[k], began[a]) \/ Missed(a, k)

CountFine(a) ==
    phase[a] = "add" /\ ~Shared(handleOf[a]) =>
      counter[a] = IF best[a] = NoEntry THEN misses[handleOf[a]]
                                        ELSE hits[handleOf[a]]

CacheIInv ==
    /\ StoreTypes /\ HandleTypes /\ CallTypes
    /\ \A a \in Actors : KeyInHand(a) /\ SweepFine(a) /\ BestFine(a) /\ CountFine(a)
    /\ KeysMatch /\ CountsExact

-----------------------------------------------------------------------------
(* What a step of one goroutine leaves to the others *)

SameCall(b) ==
    /\ phase'[b] = phase[b] /\ began'[b] = began[b] /\ best'[b] = best[b]
    /\ doomed'[b] = doomed[b] /\ seen'[b] = seen[b] /\ unread'[b] = unread[b]
    /\ counter'[b] = counter[b]
    /\ appended'[b] = appended[b] /\ entry'[b] = entry[b]

(* What is stored afterwards was stored before, or is put by this step. *)
StoreStep ==
    /\ puts' >= puts
    /\ \A k \in Cached' :
         (k \in Cached /\ cached'[k] = cached[k]) \/ cached'[k].put > puts

(* Only the handle of the one who moves changes. *)
HandleStep(a) ==
    /\ handleOf' = handleOf /\ spare' = spare
    /\ \A h \in Handles : h # handleOf[a] =>
         /\ tail'[h] = tail[h]
         /\ hits'[h] = hits[h] /\ misses'[h] = misses[h] /\ gets'[h] = gets[h]
    /\ tail'[handleOf[a]] = tail[handleOf[a]] \/ tail'[handleOf[a]] \in CacheKeys

Moved(a) ==
    /\ StoreTypes' /\ HandleTypes' /\ CallTypes'
    /\ StoreStep /\ HandleStep(a) /\ \A b \in Actors : b # a => SameCall(b)
    /\ KeyInHand(a)' /\ SweepFine(a)' /\ BestFine(a)' /\ CountFine(a)'
    /\ KeysMatch' /\ CountsExact'

LEMMA PutTyped == StoreTypes' => \A k \in Cached' : cached'[k].put \in Nat
BY DEF StoreTypes, StoredEntry

LEMMA SweepBystander ==
    ASSUME StoreTypes, CallTypes, StoreTypes', StoreStep,
           NEW b \in Actors, SameCall(b),
           SweepFine(b), BestFine(b)
    PROVE  SweepFine(b)' /\ BestFine(b)'
<1>1. seen[b] \in Nat /\ puts \in Nat /\ seen[b] =< puts
  BY DEF CallTypes, StoreTypes
<1>2. ASSUME NEW k \in Cached' PROVE (k \in Cached /\ cached'[k] = cached[k]) \/ PutSince(b, k)'
  <2>1. CASE k \in Cached /\ cached'[k] = cached[k]
    BY <2>1
  <2>2. CASE cached'[k].put > puts
    <3>1. PICK n \in Nat : n = cached'[k].put
      BY <1>2, PutTyped
    <3> QED BY <1>1, <2>2, <3>1 DEF PutSince, SameCall
  <2> QED BY <2>1, <2>2 DEF StoreStep
<1>3. ASSUME NEW k \in Cached, cached'[k] = cached[k], PutSince(b, k)
      PROVE  PutSince(b, k)'
  BY <1>3 DEF PutSince, SameCall
<1>4. unread'[b] = unread[b]
  BY DEF SameCall
<1>5. SweepFine(b)'
  BY <1>2, <1>3, <1>4 DEF SweepFine, SameCall, Missed
<1>6. BestFine(b)'
  BY <1>2, <1>3, <1>4 DEF BestFine, SameCall, Missed
<1> QED BY <1>5, <1>6

LEMMA HandleBystander ==
    ASSUME HandleTypes, NEW a \in Actors, HandleStep(a),
           NEW b \in Actors, b # a, SameCall(b), KeyInHand(b), CountFine(b)
    PROVE  KeyInHand(b)' /\ CountFine(b)'
<1>1. Shared(handleOf[b])' <=> Shared(handleOf[b])
  BY DEF Shared, HandleStep
<1>2. handleOf[a] \in Handles /\ handleOf[b] \in Handles /\ handleOf' = handleOf
  BY DEF HandleTypes, HandleStep
<1>3. CASE handleOf[b] = handleOf[a]
  <2>1. Shared(handleOf[b])
    BY <1>3 DEF Shared
  <2>2. KeyInHand(b)'
    BY <1>1, <1>2, <1>3, <2>1 DEF KeyInHand, SameCall, HandleStep
  <2>3. CountFine(b)'
    BY <1>1, <1>2, <2>1 DEF CountFine
  <2> QED BY <2>2, <2>3
<1>4. CASE handleOf[b] # handleOf[a]
  <2>1. KeyInHand(b)'
    BY <1>1, <1>2, <1>4 DEF KeyInHand, SameCall, HandleStep
  <2>2. CountFine(b)'
    BY <1>1, <1>2, <1>4 DEF CountFine, SameCall, HandleStep
  <2> QED BY <2>1, <2>2
<1> QED BY <1>3, <1>4

LEMMA MovedKeeps ==
    ASSUME CacheIInv, NEW a \in Actors, Moved(a)
    PROVE  CacheIInv'
<1>1. ASSUME NEW b \in Actors, b # a
      PROVE  KeyInHand(b)' /\ SweepFine(b)' /\ BestFine(b)' /\ CountFine(b)'
  <2>1. SameCall(b) /\ StoreStep /\ HandleStep(a)
    BY <1>1 DEF Moved
  <2>2. KeyInHand(b) /\ SweepFine(b) /\ BestFine(b) /\ CountFine(b)
    BY DEF CacheIInv
  <2>3. StoreTypes /\ CallTypes /\ HandleTypes /\ StoreTypes'
    BY DEF CacheIInv, Moved
  <2> QED BY <1>1, <2>1, <2>2, <2>3, SweepBystander, HandleBystander
<1>2. KeyInHand(a)' /\ SweepFine(a)' /\ BestFine(a)' /\ CountFine(a)'
  BY DEF Moved
<1> QED BY <1>1, <1>2 DEF Moved, CacheIInv

-----------------------------------------------------------------------------
(* The parts of a step that leave something alone *)

LEMMA SharedSame ==
    ASSUME handleOf' = handleOf
    PROVE  \A h : Shared(h)' <=> Shared(h)
BY DEF Shared

LEMMA QuietHandle ==
    ASSUME CacheIInv, NEW a \in Actors, UNCHANGED handleVars
    PROVE  HandleTypes' /\ HandleStep(a) /\ CountsExact'
<1>1. UNCHANGED <<handleOf, spare, tail, hits, misses, gets>>
  BY DEF handleVars
<1>2. CountsExact'
  BY <1>1, SharedSame DEF CacheIInv, CountsExact
<1> QED BY <1>1, <1>2 DEF CacheIInv, HandleTypes, HandleStep

LEMMA QuietStore ==
    ASSUME CacheIInv, UNCHANGED storeVars, clock' \in Nat, UNCHANGED <<handleOf, spare>>
    PROVE  StoreTypes' /\ StoreStep /\ KeysMatch'
<1>1. cached' = cached /\ puts' = puts /\ Cached' = Cached
  BY DEF storeVars, Cached
<1>2. StoreTypes' /\ StoreStep
  BY <1>1 DEF CacheIInv, StoreTypes, StoreStep
<1>3. KeysMatch'
  BY <1>1, SharedSame DEF CacheIInv, KeysMatch
<1> QED BY <1>2, <1>3

LEMMA Removal ==
    ASSUME CacheIInv, NEW k, cached' = WithoutKey(k), UNCHANGED <<puts, clock>>,
           UNCHANGED <<handleOf, spare>>
    PROVE  /\ StoreTypes' /\ StoreStep /\ KeysMatch'
           /\ Cached' = Cached \ {k}
           /\ \A j \in Cached' : j \in Cached /\ cached'[j] = cached[j]
<1>1. Cached' = Cached \ {k} /\ \A j \in Cached' : cached'[j] = cached[j]
  BY DEF WithoutKey, Cached
<1>2. StoreTypes
  BY DEF CacheIInv
<1>3. cached' \in [Cached' -> StoredEntry]
  BY <1>1, <1>2 DEF StoreTypes, WithoutKey
<1>4. StoreTypes'
  BY <1>1, <1>2, <1>3 DEF StoreTypes
<1>5. StoreStep
  BY <1>1, <1>2 DEF StoreStep, StoreTypes
<1>6. KeysMatch'
  BY <1>1, SharedSame DEF CacheIInv, KeysMatch
<1> QED BY <1>1, <1>4, <1>5, <1>6

-----------------------------------------------------------------------------
(* Put and Delete *)

LEMMA AppendsHandle ==
    ASSUME CacheIInv, NEW a \in Actors, NEW k \in CacheKeys, Appends(a, k),
           UNCHANGED <<handleOf, spare, hits, misses, gets>>
    PROVE  /\ HandleTypes' /\ HandleStep(a) /\ CountsExact'
           /\ tail'[handleOf[a]] = k /\ appended'[a] = k
           /\ \A b \in Actors : b # a => appended'[b] = appended[b]
           /\ appended' \in [Actors -> CacheKeys \cup {NoKey}]
<1>1. /\ tail' = [tail EXCEPT ![handleOf[a]] = k]
      /\ appended' = [appended EXCEPT ![a] = k]
  BY DEF Appends
<1>2. HandleTypes /\ handleOf[a] \in Handles /\ CallTypes
  BY DEF CacheIInv, HandleTypes
<1>3. HandleTypes' /\ HandleStep(a) /\ tail'[handleOf[a]] = k
  BY <1>1, <1>2 DEF HandleTypes, HandleStep
<1>4. CountsExact'
  BY SharedSame DEF CacheIInv, CountsExact
<1> QED BY <1>1, <1>2, <1>3, <1>4 DEF CallTypes

LEMMA PutBeginsMoves ==
    ASSUME CacheIInv, NEW a \in Actors, NEW k \in CacheKeys,
           NEW score \in Scores \cup {Incomparable}, NEW ttl \in TTLs,
           PutBegins(a, k, score, ttl)
    PROVE  Moved(a)
<1>1. /\ phase' = [phase EXCEPT ![a] = "put"] /\ Appends(a, k)
      /\ entry' = [entry EXCEPT ![a] =
                     [key |-> k, score |-> score, at |-> clock, ttl |-> ttl]]
      /\ UNCHANGED storeVars
      /\ UNCHANGED <<clock, handleOf, spare, hits, misses, gets, began, best,
                     counter, doomed, seen, unread>>
  BY DEF PutBegins, Begins
<1>2. CallTypes /\ clock \in Nat
  BY DEF CacheIInv, StoreTypes
<1>3. StoreTypes' /\ StoreStep /\ KeysMatch'
  BY <1>1, <1>2, QuietStore
<1>4. /\ HandleTypes' /\ HandleStep(a) /\ CountsExact'
      /\ tail'[handleOf[a]] = k /\ appended'[a] = k
      /\ \A b \in Actors : b # a => appended'[b] = appended[b]
      /\ appended' \in [Actors -> CacheKeys \cup {NoKey}]
  BY <1>1, AppendsHandle
<1>5. PICK e \in Entry : e = [key |-> k, score |-> score, at |-> clock, ttl |-> ttl]
  BY <1>2 DEF Entry
<1>6. entry' = [entry EXCEPT ![a] = e] /\ e.key = k
  BY <1>1, <1>5
<1>7. CallTypes'
  BY <1>1, <1>2, <1>4, <1>6 DEF CallTypes, Phases, storeVars
<1>8. \A b \in Actors : b # a => SameCall(b)
  BY <1>1, <1>2, <1>4, <1>6 DEF CallTypes, SameCall
<1>9. phase'[a] = "put" /\ entry'[a] = e
  BY <1>1, <1>2, <1>6 DEF CallTypes
<1>10. KeyInHand(a)'
  BY <1>1, <1>4, <1>6, <1>9 DEF KeyInHand
<1>11. SweepFine(a)' /\ BestFine(a)' /\ CountFine(a)'
  BY <1>9 DEF SweepFine, BestFine, CountFine
<1> QED BY <1>3, <1>4, <1>7, <1>8, <1>10, <1>11 DEF Moved

LEMMA DeleteBeginsMoves ==
    ASSUME CacheIInv, NEW a \in Actors, NEW k \in CacheKeys, DeleteBegins(a, k)
    PROVE  Moved(a)
<1>1. /\ phase' = [phase EXCEPT ![a] = "delete"] /\ Appends(a, k)
      /\ UNCHANGED storeVars
      /\ UNCHANGED <<clock, handleOf, spare, hits, misses, gets, began, entry, best,
                     counter, doomed, seen, unread>>
  BY DEF DeleteBegins, Begins
<1>2. CallTypes /\ clock \in Nat
  BY DEF CacheIInv, StoreTypes
<1>3. StoreTypes' /\ StoreStep /\ KeysMatch'
  BY <1>1, <1>2, QuietStore
<1>4. /\ HandleTypes' /\ HandleStep(a) /\ CountsExact'
      /\ tail'[handleOf[a]] = k /\ appended'[a] = k
      /\ \A b \in Actors : b # a => appended'[b] = appended[b]
      /\ appended' \in [Actors -> CacheKeys \cup {NoKey}]
  BY <1>1, AppendsHandle
<1>5. CallTypes'
  BY <1>1, <1>2, <1>4 DEF CallTypes, Phases, storeVars
<1>6. \A b \in Actors : b # a => SameCall(b)
  BY <1>1, <1>2, <1>4 DEF CallTypes, SameCall
<1>7. phase'[a] = "delete"
  BY <1>1, <1>2 DEF CallTypes
<1>8. KeyInHand(a)'
  BY <1>1, <1>4, <1>7 DEF KeyInHand
<1>9. SweepFine(a)' /\ BestFine(a)' /\ CountFine(a)'
  BY <1>7 DEF SweepFine, BestFine, CountFine
<1> QED BY <1>3, <1>4, <1>5, <1>6, <1>8, <1>9 DEF Moved

(* The end of a Put or Delete. *)
LEMMA ForgetsMoves ==
    ASSUME CacheIInv, NEW a \in Actors, phase' = [phase EXCEPT ![a] = "idle"],
           Forgets(a), puts' \in Nat, puts' >= puts
    PROVE  /\ CallTypes' /\ \A b \in Actors : b # a => SameCall(b)
           /\ KeyInHand(a)' /\ SweepFine(a)' /\ BestFine(a)' /\ CountFine(a)'
<1>1. /\ appended' = [appended EXCEPT ![a] = NoKey]
      /\ entry' = [entry EXCEPT ![a] = NoEntry]
      /\ UNCHANGED <<began, best, counter, doomed, seen, unread>>
  BY DEF Forgets
<1>2. CallTypes /\ puts \in Nat
  BY DEF CacheIInv, StoreTypes
<1>3. \A b \in Actors : seen'[b] =< puts'
  <2>1. TAKE b \in Actors
  <2>2. seen[b] \in Nat /\ seen[b] =< puts /\ seen'[b] = seen[b]
    BY <1>1, <1>2 DEF CallTypes
  <2> QED BY <1>2, <2>2
<1>4. CallTypes'
  BY <1>1, <1>2, <1>3 DEF CallTypes, Phases, AtRest
<1>5. \A b \in Actors : b # a => SameCall(b)
  BY <1>1, <1>2 DEF CallTypes, SameCall
<1>6. phase'[a] = "idle"
  BY <1>2 DEF CallTypes
<1> QED BY <1>4, <1>5, <1>6 DEF KeyInHand, SweepFine, BestFine, CountFine

LEMMA PutStoresMoves ==
    ASSUME CacheIInv, NEW a \in Actors, PutStores(a)
    PROVE  Moved(a)
<1>1. PICK n \in Nat, k \in CacheKeys, e \in StoredEntry :
        /\ n = puts + 1 /\ k = KeyUsed(a) /\ e.key = entry[a].key /\ e.put = n
        /\ cached' = WithEntry(k, e) /\ puts' = n
        /\ phase[a] = "put"
  <2>1. phase[a] = "put" /\ KeyInHand(a) /\ StoreTypes
    BY DEF PutStores, Goes, CacheIInv
  <2>2. KeyUsed(a) \in CacheKeys /\ entry[a] \in Entry /\ puts + 1 \in Nat
    BY <2>1 DEF KeyInHand, KeyUsed, StoreTypes
  <2>3. PICK n \in Nat : n = puts + 1
    BY <2>2
  <2>4. /\ entry[a].key \in CacheKeys /\ entry[a].score \in Scores \cup {Incomparable}
        /\ entry[a].at \in Nat /\ entry[a].ttl \in TTLs
    BY <2>2 DEF Entry
  <2>5. PICK e : e = [key |-> entry[a].key, score |-> entry[a].score,
                      at |-> entry[a].at, ttl |-> entry[a].ttl, put |-> n]
    OBVIOUS
  <2>6. e \in StoredEntry /\ e.key = entry[a].key /\ e.put = n
    BY <2>3, <2>4, <2>5 DEF StoredEntry
  <2>7. cached' = WithEntry(KeyUsed(a), e) /\ puts' = n
    BY <2>3, <2>5 DEF PutStores
  <2> QED BY <2>1, <2>2, <2>3, <2>6, <2>7
<1>2. /\ phase' = [phase EXCEPT ![a] = "idle"] /\ Forgets(a)
      /\ UNCHANGED clock /\ UNCHANGED handleVars /\ UNCHANGED <<handleOf, spare>>
  BY DEF PutStores, Goes, handleVars
<1>3. StoreTypes /\ KeyInHand(a) /\ KeysMatch /\ HandleTypes
  BY DEF CacheIInv
<1>4. /\ Cached' = Cached \cup {k} /\ cached'[k] = e
      /\ \A j \in Cached : j # k => cached'[j] = cached[j]
      /\ cached' \in [Cached' -> StoredEntry]
  BY <1>1, <1>3 DEF WithEntry, Cached, StoreTypes
<1>5. puts \in Nat /\ n > puts /\ n >= puts
  BY <1>1, <1>3 DEF StoreTypes
<1>6. StoreTypes'
  <2>1. ASSUME NEW j \in Cached' PROVE cached'[j].put =< n
    <3>1. CASE j = k
      BY <1>1, <1>4, <3>1
    <3>2. CASE j # k
      <4>1. j \in Cached /\ cached'[j] = cached[j]
        BY <1>4, <3>2
      <4>2. PICK i \in Nat : i = cached[j].put
        BY <1>3, <4>1 DEF StoreTypes, StoredEntry
      <4>3. i =< puts
        BY <1>3, <4>1, <4>2 DEF StoreTypes
      <4>4. i =< n
        BY <1>5, <4>3
      <4> QED BY <4>1, <4>2, <4>4
    <3> QED BY <3>1, <3>2
  <2> QED BY <1>1, <1>2, <1>3, <1>4, <2>1 DEF StoreTypes
<1>7. StoreStep
  BY <1>1, <1>4, <1>5 DEF StoreStep
<1>8. KeysMatch'
  <2>1. SUFFICES ASSUME ~(spare /\ \E h \in Handles : Shared(h))
                 PROVE  \A j \in Cached' : cached'[j].key = j
    BY <1>2, SharedSame DEF KeysMatch
  <2>2. handleOf[a] \in Handles
    BY <1>3 DEF HandleTypes
  <2>3. KeyUsed(a) = appended[a] /\ entry[a].key = appended[a]
    BY <1>1, <1>3, <2>1, <2>2 DEF KeyInHand, KeyUsed
  <2>4. \A j \in Cached : cached[j].key = j
    BY <1>3, <2>1 DEF KeysMatch
  <2> QED BY <1>1, <1>4, <2>3, <2>4
<1>9. HandleTypes' /\ HandleStep(a) /\ CountsExact'
  BY <1>2, QuietHandle
<1>10. /\ CallTypes' /\ \A b \in Actors : b # a => SameCall(b)
       /\ KeyInHand(a)' /\ SweepFine(a)' /\ BestFine(a)' /\ CountFine(a)'
  BY <1>1, <1>2, <1>5, ForgetsMoves
<1> QED BY <1>6, <1>7, <1>8, <1>9, <1>10 DEF Moved

LEMMA DeleteRemovesMoves ==
    ASSUME CacheIInv, NEW a \in Actors, DeleteRemoves(a)
    PROVE  Moved(a)
<1>1. /\ phase' = [phase EXCEPT ![a] = "idle"] /\ Forgets(a)
      /\ cached' = WithoutKey(KeyUsed(a)) /\ UNCHANGED <<puts, clock>>
      /\ UNCHANGED handleVars /\ UNCHANGED <<handleOf, spare>>
  BY DEF DeleteRemoves, Goes, handleVars
<1>2. PICK k : k = KeyUsed(a)
  OBVIOUS
<1>3. StoreTypes' /\ StoreStep /\ KeysMatch'
  BY <1>1, <1>2, Removal
<1>4. HandleTypes' /\ HandleStep(a) /\ CountsExact'
  BY <1>1, QuietHandle
<1>5. puts' \in Nat /\ puts' >= puts
  BY <1>1 DEF CacheIInv, StoreTypes
<1>6. /\ CallTypes' /\ \A b \in Actors : b # a => SameCall(b)
      /\ KeyInHand(a)' /\ SweepFine(a)' /\ BestFine(a)' /\ CountFine(a)'
  BY <1>1, <1>5, ForgetsMoves
<1> QED BY <1>3, <1>4, <1>6 DEF Moved

LEMMA PutOrDeleteFailsMoves ==
    ASSUME CacheIInv, NEW a \in Actors, PutOrDeleteFails(a)
    PROVE  Moved(a)
<1>1. /\ phase' = [phase EXCEPT ![a] = "idle"] /\ Forgets(a)
      /\ UNCHANGED storeVars /\ UNCHANGED <<puts, clock>>
      /\ UNCHANGED handleVars /\ UNCHANGED <<handleOf, spare>>
  BY DEF PutOrDeleteFails, Goes, handleVars, storeVars
<1>2. clock' \in Nat /\ puts' \in Nat /\ puts' >= puts
  BY <1>1 DEF CacheIInv, StoreTypes
<1>3. StoreTypes' /\ StoreStep /\ KeysMatch'
  BY <1>1, <1>2, QuietStore
<1>4. HandleTypes' /\ HandleStep(a) /\ CountsExact'
  BY <1>1, QuietHandle
<1>5. /\ CallTypes' /\ \A b \in Actors : b # a => SameCall(b)
      /\ KeyInHand(a)' /\ SweepFine(a)' /\ BestFine(a)' /\ CountFine(a)'
  BY <1>1, <1>2, ForgetsMoves
<1> QED BY <1>3, <1>4, <1>5 DEF Moved

-----------------------------------------------------------------------------
(* Get *)

LEMMA ReadsClockMoves ==
    ASSUME CacheIInv, NEW a \in Actors, NEW next \in {"get", "purge"},
           ReadsClock(a, next)
    PROVE  Moved(a)
<1>1. /\ phase' = [phase EXCEPT ![a] = next] /\ began' = [began EXCEPT ![a] = clock]
      /\ UNCHANGED storeVars /\ UNCHANGED <<puts, clock>>
      /\ UNCHANGED handleVars /\ UNCHANGED <<handleOf, spare>>
      /\ UNCHANGED <<appended, entry, best, counter, doomed, seen, unread>>
  BY DEF ReadsClock, Begins, handleVars, storeVars
<1>2. CallTypes /\ clock \in Nat
  BY DEF CacheIInv, StoreTypes
<1>3. StoreTypes' /\ StoreStep /\ KeysMatch'
  BY <1>1, <1>2, QuietStore
<1>4. HandleTypes' /\ HandleStep(a) /\ CountsExact'
  BY <1>1, QuietHandle
<1>5. CallTypes' /\ \A b \in Actors : b # a => SameCall(b)
  BY <1>1, <1>2 DEF CallTypes, Phases, SameCall
<1>6. phase'[a] \in {"get", "purge"}
  BY <1>1, <1>2 DEF CallTypes
<1>7. KeyInHand(a)' /\ SweepFine(a)' /\ BestFine(a)' /\ CountFine(a)'
  BY <1>6 DEF KeyInHand, SweepFine, BestFine, CountFine
<1> QED BY <1>3, <1>4, <1>5, <1>7 DEF Moved

LEMMA StoredScores ==
    ASSUME StoreTypes, NEW k \in Cached
    PROVE  /\ cached[k] \in StoredEntry /\ cached[k] # NoEntry
           /\ cached[k].score # Incomparable => cached[k].score \in Nat
           /\ cached[k].put \in Nat
BY CacheAssumption DEF StoreTypes, StoredEntry

LEMMA GetScansMoves ==
    ASSUME CacheIInv, NEW a \in Actors, GetScans(a)
    PROVE  Moved(a)
<1>1. /\ phase' = [phase EXCEPT ![a] = "count"]
      /\ UNCHANGED storeVars /\ UNCHANGED <<cached, puts, clock>>
      /\ UNCHANGED handleVars /\ UNCHANGED <<handleOf, spare>>
      /\ UNCHANGED <<began, appended, entry, counter, doomed>>
  BY DEF GetScans, Goes, handleVars, storeVars
<1>2. PICK read, x :
        /\ read \in SUBSET Cached
        /\ seen' = [seen EXCEPT ![a] = puts]
        /\ unread' = [unread EXCEPT ![a] = Cached \ read]
        /\ best' = [best EXCEPT ![a] = x]
        /\ \/ x = NoEntry /\ Matches(read, began[a]) = {}
           \/ \E k \in BestMatches(read, began[a]) : x = cached[k]
  BY DEF GetScans, ScanReads
<1>3. CallTypes /\ StoreTypes /\ clock \in Nat /\ puts \in Nat
  BY DEF CacheIInv, StoreTypes
<1>4. x \in StoredEntry \cup {NoEntry}
  BY <1>2, <1>3, StoredScores DEF BestMatches, Matches
<1>5. StoreTypes' /\ StoreStep /\ KeysMatch'
  BY <1>1, <1>3, QuietStore
<1>6. HandleTypes' /\ HandleStep(a) /\ CountsExact'
  BY <1>1, QuietHandle
<1>7. CallTypes' /\ \A b \in Actors : b # a => SameCall(b)
  <2>1. \A b \in Actors : seen'[b] \in Nat /\ seen'[b] =< puts
    BY <1>2, <1>3 DEF CallTypes
  <2>2. Cached \ read \in SUBSET CacheKeys
    BY <1>3 DEF StoreTypes
  <2> QED BY <1>1, <1>2, <1>3, <1>4, <2>1, <2>2 DEF CallTypes, Phases, SameCall
<1>8. /\ phase'[a] = "count" /\ best'[a] = x /\ began'[a] = began[a]
      /\ unread'[a] = Cached \ read
  BY <1>1, <1>2, <1>3 DEF CallTypes
<1>9. KeyInHand(a)' /\ SweepFine(a)' /\ CountFine(a)'
  BY <1>8 DEF KeyInHand, SweepFine, CountFine
<1>10. BestFine(a)'
  <2>1. Cached' = Cached /\ cached' = cached
    BY <1>1 DEF Cached
  <2>2. CASE x = NoEntry
    <3>1. Matches(read, began[a]) = {}
      BY <1>2, <1>3, <2>2, StoredScores DEF BestMatches, Matches
    <3>2. \A k \in read : cached[k].score # Incomparable /\ cached[k].score > Threshold
            => Expired(cached[k], began[a])
      BY <3>1 DEF Matches
    <3> QED BY <1>8, <2>1, <2>2, <3>2 DEF BestFine, Missed
  <2>3. CASE x # NoEntry
    <3>1. PICK k \in BestMatches(read, began[a]) : x = cached[k]
      BY <1>2, <2>3
    <3>2. /\ k \in Cached /\ ~Expired(x, began[a]) /\ x.score > Threshold
          /\ x.score \in Nat
          /\ \A j \in Matches(read, began[a]) : cached[j].score =< x.score
      BY <1>2, <1>3, <3>1, StoredScores DEF BestMatches, Matches
    <3>3. ASSUME NEW j \in read, cached[j].score # Incomparable,
                 cached[j].score > x.score
          PROVE  Expired(cached[j], began[a])
      <4>1. PICK s \in Nat : s = cached[j].score
        BY <1>2, <1>3, <3>3, StoredScores
      <4>2. s > Threshold /\ ~(s =< x.score)
        BY <3>2, <3>3, <4>1, CacheAssumption
      <4> QED BY <3>2, <3>3, <4>1, <4>2 DEF Matches
    <3> QED BY <1>8, <2>1, <2>3, <3>2, <3>3 DEF BestFine, Missed
  <2> QED BY <2>2, <2>3
<1> QED BY <1>5, <1>6, <1>7, <1>9, <1>10 DEF Moved

(* A step that keeps what Get found. *)
LEMMA BestStays ==
    ASSUME NEW a \in Actors, BestFine(a), phase[a] \in {"count", "add"},
           UNCHANGED <<cached, began, best, seen, unread>>
    PROVE  BestFine(a)'
<1>1. Cached' = Cached /\ cached' = cached
  BY DEF Cached
<1> QED BY <1>1 DEF BestFine, Missed, PutSince

LEMMA CountReadsMoves ==
    ASSUME CacheIInv, NEW a \in Actors, CountReads(a)
    PROVE  Moved(a)
<1>1. /\ phase[a] = "count" /\ phase' = [phase EXCEPT ![a] = "add"]
      /\ counter' = [counter EXCEPT ![a] =
           IF best[a] = NoEntry THEN misses[handleOf[a]] ELSE hits[handleOf[a]]]
      /\ UNCHANGED storeVars /\ UNCHANGED <<cached, puts, clock>>
      /\ UNCHANGED handleVars /\ UNCHANGED <<handleOf, spare, hits, misses>>
      /\ UNCHANGED <<began, appended, entry, best, doomed, seen, unread>>
  BY DEF CountReads, Goes, handleVars, storeVars
<1>2. CallTypes /\ HandleTypes /\ clock \in Nat
  BY DEF CacheIInv, StoreTypes
<1>3. StoreTypes' /\ StoreStep /\ KeysMatch'
  BY <1>1, <1>2, QuietStore
<1>4. HandleTypes' /\ HandleStep(a) /\ CountsExact'
  BY <1>1, QuietHandle
<1>5. PICK n \in Nat : n = IF best[a] = NoEntry THEN misses[handleOf[a]]
                                               ELSE hits[handleOf[a]]
  BY <1>2 DEF HandleTypes
<1>6. CallTypes' /\ \A b \in Actors : b # a => SameCall(b)
  BY <1>1, <1>2, <1>5 DEF CallTypes, Phases, SameCall
<1>7. phase'[a] = "add" /\ counter'[a] = n
  BY <1>1, <1>2, <1>5 DEF CallTypes
<1>8. KeyInHand(a)' /\ SweepFine(a)'
  BY <1>7 DEF KeyInHand, SweepFine
<1>9. CountFine(a)'
  BY <1>1, <1>5, <1>7 DEF CountFine
<1>10. BestFine(a)'
  BY <1>1, BestStays DEF CacheIInv
<1> QED BY <1>3, <1>4, <1>6, <1>8, <1>9, <1>10 DEF Moved

LEMMA CountWritesMoves ==
    ASSUME CacheIInv, NEW a \in Actors, CountWrites(a)
    PROVE  Moved(a)
<1>1. /\ phase[a] = "add" /\ phase' = [phase EXCEPT ![a] = "got"]
      /\ gets' = [gets EXCEPT ![handleOf[a]] = @ + 1]
      /\ counter' = [counter EXCEPT ![a] = 0]
      /\ UNCHANGED storeVars /\ UNCHANGED <<cached, puts, clock>>
      /\ UNCHANGED <<handleOf, spare, tail>>
      /\ UNCHANGED <<began, appended, entry, best, doomed, seen, unread>>
  BY DEF CountWrites, Goes, storeVars
<1>2. IF best[a] = NoEntry
      THEN misses' = [misses EXCEPT ![handleOf[a]] = counter[a] + 1] /\ hits' = hits
      ELSE hits' = [hits EXCEPT ![handleOf[a]] = counter[a] + 1] /\ misses' = misses
  BY DEF CountWrites
<1>3. /\ CallTypes /\ HandleTypes /\ clock \in Nat
      /\ CountFine(a) /\ CountsExact
  BY DEF CacheIInv, StoreTypes
<1>4. PICK h \in Handles, c \in Nat : h = handleOf[a] /\ c = counter[a]
  BY <1>3 DEF CallTypes, HandleTypes
<1>5. StoreTypes' /\ StoreStep /\ KeysMatch'
  BY <1>1, <1>3, QuietStore
<1>6. HandleTypes' /\ HandleStep(a)
  BY <1>1, <1>2, <1>3, <1>4 DEF HandleTypes, HandleStep
<1>7. CountsExact'
  <2>1. SUFFICES ASSUME NEW g \in Handles, ~Shared(g)
                 PROVE  hits'[g] + misses'[g] = gets'[g]
    BY <1>1, SharedSame DEF CountsExact
  <2>2. /\ hits[g] + misses[g] = gets[g]
        /\ hits[g] \in Nat /\ misses[g] \in Nat /\ gets[g] \in Nat
    BY <1>3, <2>1 DEF CountsExact, HandleTypes
  <2>3. CASE g # h
    BY <1>1, <1>2, <1>3, <1>4, <2>2, <2>3 DEF HandleTypes
  <2>4. CASE g = h
    <3>1. c = IF best[a] = NoEntry THEN misses[g] ELSE hits[g]
      BY <1>1, <1>3, <1>4, <2>1, <2>4 DEF CountFine
    <3>2. gets'[g] = gets[g] + 1
      BY <1>1, <1>3, <1>4, <2>4 DEF HandleTypes
    <3>3. CASE best[a] = NoEntry
      <4>1. misses'[g] = misses[g] + 1 /\ hits'[g] = hits[g]
        BY <1>2, <1>3, <1>4, <2>4, <3>1, <3>3 DEF HandleTypes
      <4> QED BY <2>2, <3>2, <4>1
    <3>4. CASE best[a] # NoEntry
      <4>1. hits'[g] = hits[g] + 1 /\ misses'[g] = misses[g]
        BY <1>2, <1>3, <1>4, <2>4, <3>1, <3>4 DEF HandleTypes
      <4> QED BY <2>2, <3>2, <4>1
    <3> QED BY <3>3, <3>4
  <2> QED BY <2>3, <2>4
<1>8. CallTypes' /\ \A b \in Actors : b # a => SameCall(b)
  BY <1>1, <1>3 DEF CallTypes, Phases, AtRest, SameCall
<1>9. phase'[a] = "got"
  BY <1>1, <1>3 DEF CallTypes
<1>10. KeyInHand(a)' /\ SweepFine(a)' /\ CountFine(a)'
  BY <1>9 DEF KeyInHand, SweepFine, CountFine
<1>11. BestFine(a)'
  BY <1>1, BestStays DEF CacheIInv
<1> QED BY <1>5, <1>6, <1>7, <1>8, <1>10, <1>11 DEF Moved

-----------------------------------------------------------------------------
(* Clear and PurgeExpired *)

LEMMA ClearScansMoves ==
    ASSUME CacheIInv, NEW a \in Actors, ClearScans(a)
    PROVE  Moved(a)
<1>1. /\ phase' = [phase EXCEPT ![a] = "clear"]
      /\ UNCHANGED storeVars /\ UNCHANGED <<cached, puts, clock>>
      /\ UNCHANGED handleVars /\ UNCHANGED <<handleOf, spare>>
      /\ UNCHANGED <<began, appended, entry, best, counter>>
  BY DEF ClearScans, Begins, handleVars, storeVars
<1>9. PICK read \in SUBSET Cached :
        /\ seen' = [seen EXCEPT ![a] = puts]
        /\ unread' = [unread EXCEPT ![a] = Cached \ read]
        /\ doomed' = [doomed EXCEPT ![a] = read]
  BY DEF ClearScans, ScanReads
<1>2. CallTypes /\ StoreTypes /\ clock \in Nat /\ puts \in Nat
  BY DEF CacheIInv, StoreTypes
<1>3. StoreTypes' /\ StoreStep /\ KeysMatch'
  BY <1>1, <1>2, QuietStore
<1>4. HandleTypes' /\ HandleStep(a) /\ CountsExact'
  BY <1>1, QuietHandle
<1>5. CallTypes' /\ \A b \in Actors : b # a => SameCall(b)
  <2>1. \A b \in Actors : seen'[b] \in Nat /\ seen'[b] =< puts
    BY <1>2, <1>9 DEF CallTypes
  <2>2. read \in SUBSET CacheKeys /\ Cached \ read \in SUBSET CacheKeys
    BY <1>2 DEF StoreTypes
  <2> QED BY <1>1, <1>2, <1>9, <2>1, <2>2 DEF CallTypes, Phases, SameCall
<1>6. /\ phase'[a] = "clear" /\ doomed'[a] = read /\ unread'[a] = Cached \ read
      /\ Cached' = Cached
  BY <1>1, <1>2, <1>9 DEF CallTypes, Cached
<1>7. KeyInHand(a)' /\ SweepFine(a)' /\ BestFine(a)' /\ CountFine(a)'
  BY <1>6 DEF KeyInHand, SweepFine, BestFine, CountFine, Missed
<1> QED BY <1>3, <1>4, <1>5, <1>7 DEF Moved

LEMMA PurgeScansMoves ==
    ASSUME CacheIInv, NEW a \in Actors, PurgeScans(a)
    PROVE  Moved(a)
<1>1. /\ phase' = [phase EXCEPT ![a] = "purging"]
      /\ UNCHANGED storeVars /\ UNCHANGED <<cached, puts, clock>>
      /\ UNCHANGED handleVars /\ UNCHANGED <<handleOf, spare>>
      /\ UNCHANGED <<began, appended, entry, best, counter>>
  BY DEF PurgeScans, Goes, handleVars, storeVars
<1>9. PICK read \in SUBSET Cached :
        /\ seen' = [seen EXCEPT ![a] = puts]
        /\ unread' = [unread EXCEPT ![a] = Cached \ read]
        /\ doomed' = [doomed EXCEPT ![a] = Condemned(read, began[a])]
  BY DEF PurgeScans, ScanReads
<1>2. CallTypes /\ StoreTypes /\ clock \in Nat /\ puts \in Nat
  BY DEF CacheIInv, StoreTypes
<1>3. StoreTypes' /\ StoreStep /\ KeysMatch'
  BY <1>1, <1>2, QuietStore
<1>4. HandleTypes' /\ HandleStep(a) /\ CountsExact'
  BY <1>1, QuietHandle
<1>5. CallTypes' /\ \A b \in Actors : b # a => SameCall(b)
  <2>1. \A b \in Actors : seen'[b] \in Nat /\ seen'[b] =< puts
    BY <1>2, <1>9 DEF CallTypes
  <2>2. /\ Condemned(read, began[a]) \in SUBSET CacheKeys
        /\ Cached \ read \in SUBSET CacheKeys
    BY <1>2 DEF StoreTypes, Condemned
  <2> QED BY <1>1, <1>2, <1>9, <2>1, <2>2 DEF CallTypes, Phases, SameCall
<1>6. /\ phase'[a] = "purging" /\ doomed'[a] = Condemned(read, began[a])
      /\ unread'[a] = Cached \ read
      /\ Cached' = Cached /\ began'[a] = began[a]
  BY <1>1, <1>2, <1>9 DEF CallTypes, Cached
<1>7. KeyInHand(a)' /\ BestFine(a)' /\ CountFine(a)'
  BY <1>6 DEF KeyInHand, BestFine, CountFine
<1>8. SweepFine(a)'
  BY <1>1, <1>6 DEF SweepFine, Condemned, Missed
<1> QED BY <1>3, <1>4, <1>5, <1>7, <1>8 DEF Moved

LEMMA DeletesMoves ==
    ASSUME CacheIInv, NEW a \in Actors, NEW k \in CacheKeys, Deletes(a, k)
    PROVE  Moved(a)
<1>1. /\ phase[a] \in {"clear", "purging"} /\ k \in doomed[a]
      /\ cached' = WithoutKey(k) /\ UNCHANGED <<puts, clock>>
      /\ doomed' = [doomed EXCEPT ![a] = @ \ {k}]
      /\ UNCHANGED handleVars /\ UNCHANGED <<handleOf, spare>>
      /\ UNCHANGED <<phase, began, appended, entry, best, counter, seen, unread>>
  BY DEF Deletes, handleVars
<1>2. CallTypes /\ SweepFine(a)
  BY DEF CacheIInv
<1>3. /\ StoreTypes' /\ StoreStep /\ KeysMatch' /\ Cached' = Cached \ {k}
      /\ \A j \in Cached' : j \in Cached /\ cached'[j] = cached[j]
  BY <1>1, Removal
<1>4. HandleTypes' /\ HandleStep(a) /\ CountsExact'
  BY <1>1, QuietHandle
<1>5. CallTypes' /\ \A b \in Actors : b # a => SameCall(b)
  BY <1>1, <1>2 DEF CallTypes, SameCall
<1>6. doomed'[a] = doomed[a] \ {k} /\ phase'[a] = phase[a]
  BY <1>1, <1>2 DEF CallTypes
<1>7. KeyInHand(a)' /\ BestFine(a)' /\ CountFine(a)'
  BY <1>1, <1>6 DEF KeyInHand, BestFine, CountFine
<1>8. ASSUME NEW j \in Cached'
      PROVE  (PutSince(a, j)' <=> PutSince(a, j)) /\ (Missed(a, j)' <=> Missed(a, j))
  BY <1>1, <1>3 DEF PutSince, Missed
<1>9. SweepFine(a)'
  <2>1. began' = began /\ \A j \in Cached' : j # k /\ cached'[j] = cached[j]
    BY <1>1, <1>3
  <2>2. \A j \in doomed[a] : j # k => j \in doomed'[a]
    BY <1>6
  <2>3. CASE phase[a] = "clear"
    <3>1. \A j \in Cached : j \in doomed[a] \/ Missed(a, j)
      BY <1>2, <2>3 DEF SweepFine
    <3>2. ASSUME NEW j \in Cached' PROVE j \in doomed'[a] \/ Missed(a, j)'
      <4>1. j \in Cached /\ (j \in doomed[a] => j \in doomed'[a])
        BY <1>3, <2>1, <2>2
      <4>2. Missed(a, j)' <=> Missed(a, j)
        BY <1>8
      <4> QED BY <3>1, <4>1, <4>2
    <3> QED BY <1>6, <2>3, <3>2 DEF SweepFine
  <2>4. CASE phase[a] = "purging"
    <3>1. /\ \A j \in Cached : Expired(cached[j], began[a]) =>
                j \in doomed[a] \/ Missed(a, j)
          /\ \A j \in doomed[a] \cap Cached :
                Expired(cached[j], began[a]) \/ PutSince(a, j)
      BY <1>2, <2>4 DEF SweepFine
    <3>2. ASSUME NEW j \in Cached', Expired(cached[j], began[a])'
          PROVE  j \in doomed'[a] \/ Missed(a, j)'
      <4>1. Expired(cached[j], began[a])
        BY <2>1, <3>2
      <4>2. j \in Cached /\ (j \in doomed[a] => j \in doomed'[a])
        BY <1>3, <2>1, <2>2
      <4>3. Missed(a, j)' <=> Missed(a, j)
        BY <1>8
      <4> QED BY <3>1, <4>1, <4>2, <4>3
    <3>3. ASSUME NEW j \in doomed'[a] \cap Cached'
          PROVE  Expired(cached[j], began[a])' \/ PutSince(a, j)'
      <4>1. j \in doomed[a] \cap Cached
        BY <1>3, <1>6
      <4>2. Expired(cached[j], began[a]) => Expired(cached[j], began[a])'
        BY <2>1
      <4>3. PutSince(a, j)' <=> PutSince(a, j)
        BY <1>8
      <4> QED BY <3>1, <4>1, <4>2, <4>3
    <3> QED BY <1>6, <2>4, <3>2, <3>3 DEF SweepFine
  <2> QED BY <1>1, <2>3, <2>4
<1> QED BY <1>3, <1>4, <1>5, <1>7, <1>9 DEF Moved

LEMMA DeleteFailsMoves ==
    ASSUME CacheIInv, NEW a \in Actors, NEW k \in CacheKeys, DeleteFails(a, k)
    PROVE  Moved(a)
<1>1. /\ phase' = [phase EXCEPT ![a] = "idle"]
      /\ doomed' = [doomed EXCEPT ![a] = {}]
      /\ UNCHANGED storeVars /\ UNCHANGED <<puts, clock>>
      /\ UNCHANGED handleVars /\ UNCHANGED <<handleOf, spare>>
      /\ UNCHANGED <<began, appended, entry, best, counter, seen, unread>>
  BY DEF DeleteFails, Goes, handleVars, storeVars
<1>2. CallTypes /\ clock' \in Nat
  BY <1>1 DEF CacheIInv, StoreTypes
<1>3. StoreTypes' /\ StoreStep /\ KeysMatch'
  BY <1>1, <1>2, QuietStore
<1>4. HandleTypes' /\ HandleStep(a) /\ CountsExact'
  BY <1>1, QuietHandle
<1>5. CallTypes' /\ \A b \in Actors : b # a => SameCall(b)
  BY <1>1, <1>2 DEF CallTypes, Phases, AtRest, SameCall
<1>6. phase'[a] = "idle"
  BY <1>1, <1>2 DEF CallTypes
<1> QED BY <1>3, <1>4, <1>5, <1>6 DEF Moved, KeyInHand, SweepFine, BestFine, CountFine

LEMMA ClearResetsMoves ==
    ASSUME CacheIInv, NEW a \in Actors, ClearResets(a)
    PROVE  Moved(a)
<1>1. /\ phase[a] = "clear" /\ doomed[a] = {}
      /\ phase' = [phase EXCEPT ![a] = "cleared"]
      /\ hits' = [hits EXCEPT ![handleOf[a]] = 0]
      /\ misses' = [misses EXCEPT ![handleOf[a]] = 0]
      /\ gets' = [gets EXCEPT ![handleOf[a]] = 0]
      /\ UNCHANGED storeVars /\ UNCHANGED <<cached, puts, clock>>
      /\ UNCHANGED <<handleOf, spare, tail>>
      /\ UNCHANGED <<began, appended, entry, best, counter, doomed, seen, unread>>
  BY DEF ClearResets, Goes, storeVars, callVars
<1>2. /\ CallTypes /\ HandleTypes /\ clock \in Nat /\ SweepFine(a) /\ CountsExact
  BY DEF CacheIInv, StoreTypes
<1>3. StoreTypes' /\ StoreStep /\ KeysMatch'
  BY <1>1, <1>2, QuietStore
<1>4. handleOf[a] \in Handles
  BY <1>2 DEF HandleTypes
<1>5. HandleTypes' /\ HandleStep(a)
  BY <1>1, <1>2, <1>4 DEF HandleTypes, HandleStep
<1>6. CountsExact'
  <2>1. SUFFICES ASSUME NEW g \in Handles, ~Shared(g)
                 PROVE  hits'[g] + misses'[g] = gets'[g]
    BY <1>1, SharedSame DEF CountsExact
  <2>2. hits[g] + misses[g] = gets[g]
    BY <1>2, <2>1 DEF CountsExact
  <2> QED BY <1>1, <1>2, <2>2 DEF HandleTypes
<1>7. CallTypes' /\ \A b \in Actors : b # a => SameCall(b)
  BY <1>1, <1>2 DEF CallTypes, Phases, AtRest, SameCall
<1>8. phase'[a] = "cleared" /\ Cached' = Cached
  BY <1>1, <1>2 DEF CallTypes, Cached
<1>9. KeyInHand(a)' /\ BestFine(a)' /\ CountFine(a)'
  BY <1>8 DEF KeyInHand, BestFine, CountFine
<1>10. SweepFine(a)'
  BY <1>1, <1>2, <1>8 DEF SweepFine, Missed, PutSince
<1> QED BY <1>3, <1>5, <1>6, <1>7, <1>9, <1>10 DEF Moved

LEMMA PurgeEndsMoves ==
    ASSUME CacheIInv, NEW a \in Actors, PurgeEnds(a)
    PROVE  Moved(a)
<1>1. /\ phase[a] = "purging" /\ doomed[a] = {}
      /\ phase' = [phase EXCEPT ![a] = "purged"]
      /\ UNCHANGED storeVars /\ UNCHANGED <<cached, puts, clock>>
      /\ UNCHANGED handleVars /\ UNCHANGED <<handleOf, spare>>
      /\ UNCHANGED <<began, appended, entry, best, counter, doomed, seen, unread>>
  BY DEF PurgeEnds, Goes, storeVars, handleVars, callVars
<1>2. CallTypes /\ clock \in Nat /\ SweepFine(a)
  BY DEF CacheIInv, StoreTypes
<1>3. StoreTypes' /\ StoreStep /\ KeysMatch'
  BY <1>1, <1>2, QuietStore
<1>4. HandleTypes' /\ HandleStep(a) /\ CountsExact'
  BY <1>1, QuietHandle
<1>5. CallTypes' /\ \A b \in Actors : b # a => SameCall(b)
  BY <1>1, <1>2 DEF CallTypes, Phases, AtRest, SameCall
<1>6. phase'[a] = "purged" /\ Cached' = Cached
  BY <1>1, <1>2 DEF CallTypes, Cached
<1>7. KeyInHand(a)' /\ BestFine(a)' /\ CountFine(a)'
  BY <1>6 DEF KeyInHand, BestFine, CountFine
<1>8. SweepFine(a)'
  BY <1>1, <1>2, <1>6 DEF SweepFine, Missed, PutSince
<1> QED BY <1>3, <1>4, <1>5, <1>7, <1>8 DEF Moved

LEMMA TickKeeps ==
    ASSUME CacheIInv, Tick
    PROVE  CacheIInv'
<1>1. /\ clock' = clock + 1 /\ clock \in Nat /\ clock' \in Nat
      /\ UNCHANGED storeVars /\ UNCHANGED <<cached, puts>>
      /\ UNCHANGED <<handleOf, spare>>
      /\ UNCHANGED <<tail, hits, misses, gets>>
      /\ UNCHANGED <<phase, began, appended, entry, best, counter, doomed, seen, unread>>
  BY DEF Tick, storeVars, handleVars, callVars, CacheIInv, StoreTypes
<1>2. StoreTypes' /\ KeysMatch'
  BY <1>1, QuietStore
<1>3. HandleTypes' /\ CountsExact' /\ CallTypes'
  BY <1>1, SharedSame DEF CacheIInv, HandleTypes, CountsExact, CallTypes
<1>4. ASSUME NEW a \in Actors
      PROVE  KeyInHand(a)' /\ SweepFine(a)' /\ BestFine(a)' /\ CountFine(a)'
  <2>1. KeyInHand(a) /\ SweepFine(a) /\ BestFine(a) /\ CountFine(a)
    BY DEF CacheIInv
  <2>2. KeyInHand(a)' /\ CountFine(a)'
    BY <1>1, <2>1, SharedSame DEF KeyInHand, CountFine
  <2>3. SweepFine(a)' /\ BestFine(a)'
    BY <1>1, <2>1 DEF SweepFine, BestFine, Missed, PutSince, Cached
  <2> QED BY <2>2, <2>3
<1> QED BY <1>2, <1>3, <1>4 DEF CacheIInv

-----------------------------------------------------------------------------
(* The theorems *)

(* An empty cache satisfies the invariant. *)
THEOREM CacheInitIInv == CacheInit => CacheIInv
<1> SUFFICES ASSUME CacheInit PROVE CacheIInv
  OBVIOUS
<1>1. Cached = {} /\ cached \in [Cached -> StoredEntry]
  BY DEF CacheInit, Cached
<1>2. StoreTypes /\ KeysMatch
  BY <1>1 DEF CacheInit, StoreTypes, KeysMatch
<1>3. \A a \in Actors : phase[a] = "idle"
  BY DEF CacheInit
<1>4. HandleTypes /\ CallTypes /\ CountsExact
  BY DEF CacheInit, HandleTypes, CallTypes, CountsExact, Phases, AtRest
<1>5. \A a \in Actors : KeyInHand(a) /\ SweepFine(a) /\ BestFine(a) /\ CountFine(a)
  BY <1>3 DEF KeyInHand, SweepFine, BestFine, CountFine
<1> QED BY <1>2, <1>4, <1>5 DEF CacheIInv

(* Every step of every call, and the clock's, preserve the invariant. *)
THEOREM CacheNextIInv ==
    ASSUME CacheIInv, [CacheNext]_cacheVars
    PROVE  CacheIInv'
<1>1. CASE UNCHANGED cacheVars
  BY <1>1 DEF cacheVars, storeVars, handleVars, callVars, CacheIInv, StoreTypes,
              HandleTypes, CallTypes, KeyInHand, SweepFine, BestFine, CountFine,
              KeysMatch, CountsExact, Missed, PutSince, Shared, Cached
<1>2. CASE Tick
  BY <1>2, TickKeeps
<1>3. ASSUME NEW a \in Actors, CacheStep(a)
      PROVE  CacheIInv'
  <2>1. ASSUME NEW k \in CacheKeys, NEW score \in Scores \cup {Incomparable},
               NEW ttl \in TTLs, PutBegins(a, k, score, ttl)
        PROVE  Moved(a)
    BY <2>1, PutBeginsMoves
  <2>2. ASSUME NEW k \in CacheKeys, DeleteBegins(a, k)
        PROVE  Moved(a)
    BY <2>2, DeleteBeginsMoves
  <2>3. CASE PutStores(a) \/ DeleteRemoves(a) \/ PutOrDeleteFails(a)
    <3>1. Moved(a)
      BY <2>3, PutStoresMoves, DeleteRemovesMoves, PutOrDeleteFailsMoves
    <3> QED BY <3>1, MovedKeeps
  <2>4. CASE GetBegins(a) \/ PurgeBegins(a)
    <3>1. Moved(a)
      BY <2>4, ReadsClockMoves DEF GetBegins, PurgeBegins
    <3> QED BY <3>1, MovedKeeps
  <2>5. CASE GetScans(a) \/ CountReads(a) \/ CountWrites(a)
    <3>1. Moved(a)
      BY <2>5, GetScansMoves, CountReadsMoves, CountWritesMoves
    <3> QED BY <3>1, MovedKeeps
  <2>6. CASE ClearScans(a) \/ ClearResets(a) \/ PurgeScans(a) \/ PurgeEnds(a)
    <3>1. Moved(a)
      BY <2>6, ClearScansMoves, ClearResetsMoves, PurgeScansMoves, PurgeEndsMoves
    <3> QED BY <3>1, MovedKeeps
  <2>7. ASSUME NEW k \in CacheKeys, Deletes(a, k) \/ DeleteFails(a, k)
        PROVE  Moved(a)
    BY <2>7, DeletesMoves, DeleteFailsMoves
  <2> QED BY <1>3, <2>1, <2>2, <2>3, <2>4, <2>5, <2>6, <2>7, MovedKeeps DEF CacheStep
<1> QED BY <1>1, <1>2, <1>3 DEF CacheNext

(* The invariant holds throughout. *)
THEOREM CacheInvariant == CacheSpec => []CacheIInv
<1>1. CacheInit => CacheIInv
  BY CacheInitIInv
<1>2. CacheIInv /\ [CacheNext]_cacheVars => CacheIInv'
  BY CacheNextIInv
<1> QED BY <1>1, <1>2, PTL DEF CacheSpec

(* Without a shared handle that has room behind its prefix, every entry    *)
(* lies under its own key, for any number of goroutines.                   *)
THEOREM CacheKeysMatch == CacheSpec => []KeysMatch
<1>1. CacheIInv => KeysMatch
  BY DEF CacheIInv
<1> QED BY <1>1, CacheInvariant, PTL

(* PurgeExpired deletes nothing that was alive when it scanned and has not *)
(* been put again.                                                         *)
THEOREM CachePurgeSpares == CacheSpec => []PurgeSparesLive
<1>1. CacheIInv => PurgeSparesLive
  BY DEF CacheIInv, SweepFine, PurgeSparesLive
<1> QED BY <1>1, CacheInvariant, PTL

(* What Clear and PurgeExpired leave behind when they return came after    *)
(* their scans, lay behind a break of them, or had not expired.            *)
THEOREM CacheSweepsComplete == CacheSpec => []SweepsComplete
<1>1. CacheIInv => SweepsComplete
  BY DEF CacheIInv, SweepFine, SweepsComplete
<1> QED BY <1>1, CacheInvariant, PTL

(* Get returns the best of the entries that were alive and that its scan   *)
(* came to.                                                                *)
THEOREM CacheBestHit == CacheSpec => []BestHit
<1>1. CacheIInv => BestHit
  BY DEF CacheIInv, BestFine, BestHit
<1> QED BY <1>1, CacheInvariant, PTL

(* The hits and misses of a handle that one goroutine uses add up. *)
THEOREM CacheCountsExact == CacheSpec => []CountsExact
<1>1. CacheIInv => CountsExact
  BY DEF CacheIInv
<1> QED BY <1>1, CacheInvariant, PTL

-----------------------------------------------------------------------------
(* ContextBuilder: sums *)

Pieces(n) == UNION {{i} \X (1..n[i]) : i \in DOMAIN n}

(* What Total counts is finite. *)
LEMMA PiecesFinite ==
    ASSUME NEW n, IsFiniteSet(DOMAIN n), n \in [DOMAIN n -> Nat]
    PROVE  IsFiniteSet(Pieces(n)) /\ Total(n) = Cardinality(Pieces(n)) /\ Total(n) \in Nat
<1> DEFINE W(i) == {i} \X (1..n[i])
           all == {W(i) : i \in DOMAIN n}
<1>1. IsFiniteSet(all)
  <2>1. [i \in DOMAIN n |-> W(i)] \in Surjection(DOMAIN n, all)
    BY DEF Surjection
  <2>. QED  BY <2>1, FS_Surjection
<1>2. \A S \in all : IsFiniteSet(S)
  <2> SUFFICES ASSUME NEW i \in DOMAIN n PROVE IsFiniteSet(W(i))
    OBVIOUS
  <2>1. IsFiniteSet({i}) /\ IsFiniteSet(1..n[i])
    <3>1. 1 \in Int /\ n[i] \in Int
      OBVIOUS
    <3>. QED  BY <3>1, FS_Singleton, FS_Interval
  <2>. QED  BY <2>1, FS_Product
<1>3. Pieces(n) = UNION all
  BY DEF Pieces
<1>4. IsFiniteSet(Pieces(n))
  BY <1>1, <1>2, <1>3, FS_UNION
<1>. QED  BY <1>4, FS_CardinalityType DEF Total, Pieces

LEMMA TotalOfNone ==
    ASSUME NEW n, DOMAIN n = {}
    PROVE  Total(n) = 0
<1>1. UNION {{i} \X (1..n[i]) : i \in DOMAIN n} = {}
  OBVIOUS
<1>. QED  BY <1>1, FS_EmptySet DEF Total

(* One number more is added. *)
LEMMA TotalOfMore ==
    ASSUME NEW n, IsFiniteSet(DOMAIN n), n \in [DOMAIN n -> Nat], NEW x, x \notin DOMAIN n,
           NEW m, m \in [DOMAIN n \cup {x} -> Nat], \A i \in DOMAIN n : m[i] = n[i]
    PROVE  Total(m) = Total(n) + m[x]
<1> DEFINE P == {x} \X (1..m[x])
<1>1. m[x] \in Nat
  OBVIOUS
<1>2. IsFiniteSet(P) /\ Cardinality(P) = m[x]
  <2>1. IsFiniteSet({x}) /\ Cardinality({x}) = 1
    BY FS_Singleton
  <2>2. IsFiniteSet(1..m[x]) /\ Cardinality(1..m[x]) = m[x]
    <3>1. 1 \in Int /\ m[x] \in Int
      BY <1>1
    <3>. QED  BY <1>1, <3>1, FS_Interval
  <2>3. IsFiniteSet(P) /\ Cardinality(P) = Cardinality({x}) * Cardinality(1..m[x])
    BY <2>1, <2>2, FS_Product
  <2>. QED  BY <1>1, <2>1, <2>2, <2>3
<1>3. Pieces(m) = Pieces(n) \cup P /\ Pieces(n) \cap P = {}
  <2>1. DOMAIN m = DOMAIN n \cup {x}
    OBVIOUS
  <2>2. Pieces(m) = Pieces(n) \cup P
    BY <2>1 DEF Pieces
  <2>3. Pieces(n) \cap P = {}
    BY DEF Pieces
  <2>. QED  BY <2>2, <2>3
<1>4. IsFiniteSet(Pieces(n)) /\ Total(n) = Cardinality(Pieces(n)) /\ Total(n) \in Nat
  BY PiecesFinite
<1>5. Cardinality(Pieces(m)) = Cardinality(Pieces(n)) + Cardinality(P) - Cardinality({})
  BY <1>2, <1>3, <1>4, FS_Union
<1>6. Cardinality({}) = 0
  BY FS_EmptySet
<1>7. Total(m) = Cardinality(Pieces(m))
  BY DEF Total, Pieces
<1>. QED  BY <1>1, <1>2, <1>4, <1>5, <1>6, <1>7

(* The order of the numbers does not matter. *)
LEMMA TotalOfMoved ==
    ASSUME NEW n, IsFiniteSet(DOMAIN n), n \in [DOMAIN n -> Nat],
           NEW S, NEW p \in Bijection(S, DOMAIN n),
           NEW m, m = [i \in S |-> n[p[i]]]
    PROVE  Total(m) = Total(n)
<1>1. /\ p \in [S -> DOMAIN n]
      /\ \A i, j \in S : p[i] = p[j] => i = j
      /\ \A k \in DOMAIN n : \E i \in S : p[i] = k
  BY DEF Bijection, Injection, Surjection, IsInjective
<1> DEFINE f == [x \in Pieces(m) |-> <<p[x[1]], x[2]>>]
<1>2. \A x : x \in Pieces(m) <=>
        \E i \in S : \E k \in 1..n[p[i]] : x = <<i, k>>
  <2>1. \A x : x \in Pieces(m) <=>
          \E i \in DOMAIN m : \E k \in 1..m[i] : x = <<i, k>>
    BY DEF Pieces
  <2>2. DOMAIN m = S /\ \A i \in S : m[i] = n[p[i]]
    OBVIOUS
  <2>. QED  BY <2>1, <2>2
<1>3. \A x : x \in Pieces(n) <=>
        \E i \in DOMAIN n : \E k \in 1..n[i] : x = <<i, k>>
  BY DEF Pieces
<1>4. f \in [Pieces(m) -> Pieces(n)]
  BY <1>1, <1>2, <1>3
<1>5. \A x, y \in Pieces(m) : f[x] = f[y] => x = y
  BY <1>1, <1>2
<1>6. ASSUME NEW y \in Pieces(n) PROVE \E x \in Pieces(m) : f[x] = y
  <2>0. PICK i \in DOMAIN n : \E k \in 1..n[i] : y = <<i, k>>
    BY <1>3
  <2>1. PICK k \in 1..n[i] : y = <<i, k>>
    BY <2>0
  <2>2. PICK j \in S : p[j] = i
    BY <1>1
  <2>3. <<j, k>> \in Pieces(m) /\ f[<<j, k>>] = y
    BY <1>2, <2>1, <2>2
  <2>. QED  BY <2>3
<1>7. f \in Bijection(Pieces(m), Pieces(n))
  <2> HIDE DEF f
  <2>. QED  BY <1>4, <1>5, <1>6 DEF Bijection, Injection, Surjection, IsInjective
<1>8. IsFiniteSet(Pieces(n)) /\ Total(n) = Cardinality(Pieces(n))
  BY PiecesFinite
<1>9. IsFiniteSet(Pieces(m))
  <2>1. f \in Injection(Pieces(m), Pieces(n))
    BY <1>7 DEF Bijection
  <2>. QED  BY <1>8, <2>1, FS_Injection
<1>10. Cardinality(Pieces(n)) = Cardinality(Pieces(m))
  BY <1>7, <1>9, FS_Bijection DEF ExistsBijection
<1>. QED  BY <1>8, <1>10 DEF Total, Pieces

-----------------------------------------------------------------------------
(* ContextBuilder: sections *)

Section == [priority : Priorities, length : Nat, tokens : Nat]

Tokens(s) == [i \in DOMAIN s |-> s[i].tokens]

LEMMA SectionFacts ==
    ASSUME NEW s \in Seq(Section)
    PROVE  /\ Len(s) \in Nat /\ DOMAIN s = 1..Len(s) /\ IsFiniteSet(DOMAIN s)
           /\ \A i \in DOMAIN s :
                /\ s[i] \in Section /\ s[i].priority \in Priorities
                /\ s[i].length \in Nat /\ s[i].tokens \in Nat
           /\ Tokens(s) \in [DOMAIN s -> Nat] /\ TotalTokens(s) = Total(Tokens(s))
           /\ TotalTokens(s) \in Nat
<1>1. Len(s) \in Nat /\ DOMAIN s = 1..Len(s)
  OBVIOUS
<1>2. IsFiniteSet(DOMAIN s)
  <2>1. 1 \in Int /\ Len(s) \in Int
    BY <1>1
  <2>. QED  BY <1>1, <2>1, FS_Interval
<1>3. \A i \in DOMAIN s :
        /\ s[i] \in Section /\ s[i].priority \in Priorities
        /\ s[i].length \in Nat /\ s[i].tokens \in Nat
  <2> SUFFICES ASSUME NEW i \in DOMAIN s
               PROVE  /\ s[i] \in Section /\ s[i].priority \in Priorities
                      /\ s[i].length \in Nat /\ s[i].tokens \in Nat
    OBVIOUS
  <2>1. s[i] \in Section
    BY <1>1
  <2>. QED  BY <2>1 DEF Section
<1>4. Tokens(s) \in [DOMAIN s -> Nat] /\ DOMAIN Tokens(s) = DOMAIN s
  BY <1>3 DEF Tokens
<1>5. TotalTokens(s) = Total(Tokens(s))
  BY DEF TotalTokens, Tokens
<1>. QED  BY <1>1, <1>2, <1>3, <1>4, <1>5, PiecesFinite

LEMMA TokensOfNone == TotalTokens(<<>>) = 0
<1>1. DOMAIN Tokens(<<>>) = {}
  BY DEF Tokens
<1>. QED  BY <1>1, TotalOfNone DEF TotalTokens, Tokens

(* What one section more adds. *)
LEMMA TokensOfMore ==
    ASSUME NEW s \in Seq(Section), NEW t \in Seq(Section), Len(t) = Len(s) + 1,
           \A i \in 1..Len(s) : t[i] = s[i]
    PROVE  TotalTokens(t) = TotalTokens(s) + t[Len(t)].tokens
<1>1. /\ Len(s) \in Nat /\ DOMAIN s = 1..Len(s) /\ IsFiniteSet(DOMAIN s)
      /\ Tokens(s) \in [DOMAIN s -> Nat] /\ TotalTokens(s) = Total(Tokens(s))
  BY SectionFacts
<1>2. /\ Len(t) \in Nat /\ DOMAIN t = 1..Len(t)
      /\ Tokens(t) \in [DOMAIN t -> Nat] /\ TotalTokens(t) = Total(Tokens(t))
  BY SectionFacts
<1>3. /\ DOMAIN Tokens(s) = DOMAIN s /\ Len(t) \notin DOMAIN s
      /\ DOMAIN t = DOMAIN s \cup {Len(t)}
  BY <1>1, <1>2 DEF Tokens
<1>4. /\ \A i \in DOMAIN s : Tokens(t)[i] = Tokens(s)[i]
      /\ Tokens(t)[Len(t)] = t[Len(t)].tokens
  BY <1>1, <1>2, <1>3 DEF Tokens
<1>5. /\ IsFiniteSet(DOMAIN Tokens(s)) /\ Tokens(s) \in [DOMAIN Tokens(s) -> Nat]
      /\ Len(t) \notin DOMAIN Tokens(s)
      /\ Tokens(t) \in [DOMAIN Tokens(s) \cup {Len(t)} -> Nat]
      /\ \A i \in DOMAIN Tokens(s) : Tokens(t)[i] = Tokens(s)[i]
  BY <1>1, <1>2, <1>3, <1>4
<1>6. Total(Tokens(t)) = Total(Tokens(s)) + Tokens(t)[Len(t)]
  <2> DEFINE a == Tokens(s)
             b == Tokens(t)
             x == Len(t)
  <2>1. /\ IsFiniteSet(DOMAIN a) /\ a \in [DOMAIN a -> Nat] /\ x \notin DOMAIN a
        /\ b \in [DOMAIN a \cup {x} -> Nat]
        /\ \A i \in DOMAIN a : b[i] = a[i]
    BY <1>5
  <2> HIDE DEF a, b, x
  <2>2. Total(b) = Total(a) + b[x]
    BY <2>1, TotalOfMore
  <2>. QED  BY <2>2 DEF a, b, x
<1>. QED  BY <1>1, <1>2, <1>4, <1>6

LEMMA Beginning ==
    ASSUME NEW s \in Seq(Section), NEW k \in 0..Len(s)
    PROVE  /\ SubSeq(s, 1, k) \in Seq(Section) /\ Len(SubSeq(s, 1, k)) = k
           /\ \A i \in 1..k : SubSeq(s, 1, k)[i] = s[i]
OBVIOUS

LEMMA BeginningsGrow ==
    ASSUME NEW s \in Seq(Section), NEW k \in 1..Len(s)
    PROVE  /\ TotalTokens(SubSeq(s, 1, k)) =
                TotalTokens(SubSeq(s, 1, k - 1)) + s[k].tokens
           /\ TotalTokens(SubSeq(s, 1, k - 1)) \in Nat
<1>1. k \in 0..Len(s) /\ k - 1 \in 0..Len(s)
  OBVIOUS
<1> DEFINE b == SubSeq(s, 1, k - 1)
           c == SubSeq(s, 1, k)
<1>2. /\ b \in Seq(Section) /\ Len(b) = k - 1 /\ \A i \in 1..(k - 1) : b[i] = s[i]
  BY <1>1, Beginning
<1>3. /\ c \in Seq(Section) /\ Len(c) = k /\ \A i \in 1..k : c[i] = s[i]
  BY <1>1, Beginning
<1> HIDE DEF b, c
<1>4. Len(c) = Len(b) + 1 /\ (\A i \in 1..Len(b) : c[i] = b[i]) /\ c[Len(c)] = s[k]
  BY <1>2, <1>3
<1>5. TotalTokens(c) = TotalTokens(b) + s[k].tokens
  BY <1>2, <1>3, <1>4, TokensOfMore
<1>. QED  BY <1>2, <1>5, SectionFacts DEF b, c

LEMMA WholeBeginning ==
    ASSUME NEW s \in Seq(Section)
    PROVE  SubSeq(s, 1, Len(s)) = s /\ SubSeq(s, 1, 0) = <<>>
<1>1. SubSeq(s, 1, Len(s)) = s
  OBVIOUS
<1>2. SubSeq(s, 1, 0) \in Seq(Section) /\ Len(SubSeq(s, 1, 0)) = 0
  BY Beginning
<1>. QED  BY <1>1, <1>2, EmptySeq

-----------------------------------------------------------------------------
(* ContextBuilder: what sort.Slice returns *)

(* Moving the sections changes neither their tokens nor how many there are *)
(* of a priority.                                                          *)
LEMMA MovedSections ==
    ASSUME NEW s \in Seq(Section), NEW p \in Bijection(DOMAIN s, DOMAIN s),
           NEW t, t = [i \in DOMAIN s |-> s[p[i]]]
    PROVE  /\ t \in Seq(Section) /\ Len(t) = Len(s) /\ DOMAIN t = DOMAIN s
           /\ TotalTokens(t) = TotalTokens(s)
           /\ \A q : Many(t, q) = Many(s, q)
<1>1. /\ p \in [DOMAIN s -> DOMAIN s]
      /\ \A i, j \in DOMAIN s : p[i] = p[j] => i = j
      /\ \A k \in DOMAIN s : \E i \in DOMAIN s : p[i] = k
  BY DEF Bijection, Injection, Surjection, IsInjective
<1>2. /\ DOMAIN s = 1..Len(s) /\ Len(s) \in Nat /\ IsFiniteSet(DOMAIN s)
      /\ \A i \in DOMAIN s : s[i] \in Section
      /\ Tokens(s) \in [DOMAIN s -> Nat] /\ TotalTokens(s) = Total(Tokens(s))
  BY SectionFacts
<1>3. DOMAIN t = DOMAIN s /\ \A i \in DOMAIN s : t[i] = s[p[i]]
  OBVIOUS
<1>4. t \in Seq(Section) /\ Len(t) = Len(s)
  <2>1. t \in [1..Len(s) -> Section]
    BY <1>1, <1>2
  <2>. QED  BY <1>2, <2>1
<1>5. TotalTokens(t) = TotalTokens(s)
  <2> DEFINE n == Tokens(s)
             m == [i \in DOMAIN s |-> n[p[i]]]
  <2>1. DOMAIN n = DOMAIN s /\ n \in [DOMAIN n -> Nat] /\ IsFiniteSet(DOMAIN n)
    BY <1>2 DEF Tokens
  <2>2. Tokens(t) = m
    BY <1>1, <1>3 DEF Tokens
  <2>3. p \in Bijection(DOMAIN s, DOMAIN n)
    BY <2>1
  <2>4. m = [i \in DOMAIN s |-> n[p[i]]]
    OBVIOUS
  <2>5. Total(m) = Total(n)
    <3> DEFINE S == DOMAIN s
    <3>1. p \in Bijection(S, DOMAIN n) /\ m = [i \in S |-> n[p[i]]]
      BY <2>3, <2>4
    <3> HIDE DEF n, m, S
    <3>. QED  BY <2>1, <3>1, TotalOfMoved
  <2>. QED  BY <1>2, <1>4, <2>2, <2>5, SectionFacts DEF n
<1>6. ASSUME NEW q PROVE Many(t, q) = Many(s, q)
  <2> DEFINE S == {i \in DOMAIN t : t[i].priority = q}
             T == {i \in DOMAIN s : s[i].priority = q}
             f == [i \in S |-> p[i]]
  <2>1. IsFiniteSet(S)
    BY <1>2, <1>3, FS_Subset
  <2>2. f \in [S -> T] /\ (\A i, j \in S : f[i] = f[j] => i = j)
        /\ \A k \in T : \E i \in S : f[i] = k
    BY <1>1, <1>3
  <2>3. f \in Bijection(S, T)
    <3> HIDE DEF S, T, f
    <3>. QED  BY <2>2 DEF Bijection, Injection, Surjection, IsInjective
  <2>4. Cardinality(T) = Cardinality(S)
    <3> HIDE DEF S, T, f
    <3>. QED  BY <2>1, <2>3, FS_Bijection DEF ExistsBijection
  <2>. QED  BY <2>4 DEF Many
<1>. QED  BY <1>3, <1>4, <1>5, <1>6

(* What is sorted one by one is sorted. *)
LEMMA NeighboursSort ==
    ASSUME NEW t \in Seq(Section),
           \A i \in 2..Len(t) : t[i - 1].priority =< t[i].priority,
           NEW i \in DOMAIN t, NEW j \in DOMAIN t, i < j
    PROVE  t[i].priority =< t[j].priority
<1>1. /\ Len(t) \in Nat /\ DOMAIN t = 1..Len(t)
      /\ \A k \in DOMAIN t : t[k].priority \in Int
  BY SectionFacts, ContextAssumption
<1> DEFINE bad == {k \in (i + 1)..Len(t) : ~(t[i].priority =< t[k].priority)}
<1>2. SUFFICES ASSUME ~(t[i].priority =< t[j].priority) PROVE FALSE
  OBVIOUS
<1>3. bad \subseteq Nat /\ bad # {}
  <2>1. j \in (i + 1)..Len(t)
    BY <1>1
  <2>. QED  BY <1>1, <1>2, <2>1
<1>4. PICK k \in bad : \A l \in bad : k =< l
  BY <1>3, Least
<1>5. k \in 2..Len(t) /\ k - 1 \in DOMAIN t /\ t[k - 1].priority =< t[k].priority
  BY <1>1
<1>6. t[i].priority =< t[k - 1].priority
  <2>1. CASE k - 1 = i
    BY <1>1, <2>1
  <2>2. CASE k - 1 # i
    <3>1. k - 1 \in (i + 1)..Len(t) /\ ~(k =< k - 1)
      BY <1>1, <2>2
    <3>. QED  BY <1>4, <3>1
  <2>. QED  BY <2>1, <2>2
<1>7. /\ t[i].priority \in Int /\ t[k - 1].priority \in Int /\ t[k].priority \in Int
      /\ ~(t[i].priority =< t[k].priority)
  <2>1. k \in DOMAIN t /\ k - 1 \in DOMAIN t
    BY <1>1, <1>5
  <2>2. ~(t[i].priority =< t[k].priority)
    BY <1>4
  <2>. QED  BY <1>1, <2>1, <2>2
<1>. QED  BY <1>5, <1>6, <1>7

LEMMA SortedFacts ==
    ASSUME NEW s \in Seq(Section), NEW t \in ByPriority(s)
    PROVE  /\ t \in Seq(Section) /\ Len(t) = Len(s)
           /\ TotalTokens(t) = TotalTokens(s)
           /\ \A q : Many(t, q) = Many(s, q)
           /\ \A i, j \in DOMAIN t : i < j => t[i].priority =< t[j].priority
           /\ \A i \in DOMAIN t : \E j \in DOMAIN s : t[i] = s[j]
<1>1. PICK p \in Bijection(DOMAIN s, DOMAIN s) : t = [i \in DOMAIN s |-> s[p[i]]]
  BY DEF ByPriority
<1>2. /\ t \in Seq(Section) /\ Len(t) = Len(s) /\ TotalTokens(t) = TotalTokens(s)
      /\ \A q : Many(t, q) = Many(s, q)
  BY <1>1, MovedSections
<1>3. \A i \in 2..Len(t) : t[i - 1].priority =< t[i].priority
  BY <1>2 DEF ByPriority
<1>4. \A i \in DOMAIN t : \E j \in DOMAIN s : t[i] = s[j]
  BY <1>1 DEF Bijection, Injection
<1>. QED  BY <1>2, <1>3, <1>4, NeighboursSort

-----------------------------------------------------------------------------
(* ContextBuilder: tail_drop *)

LEMMA BeginsWithAll ==
    ASSUME NEW n \in Nat, NEW K, K \subseteq 1..n,
           \A k \in K : \A j \in 1..k : j \in K
    PROVE  Cardinality(K) \in 0..n /\ K = 1..Cardinality(K)
<1> DEFINE M == (1..(n + 1)) \ K
<1>1. M \subseteq Nat /\ n + 1 \in M
  OBVIOUS
<1>2. PICK x \in M : \A y \in M : x =< y
  BY <1>1, Least
<1>3. x \in 1..(n + 1) /\ x \notin K
  OBVIOUS
<1>4. K = 1..(x - 1)
  <2>1. ASSUME NEW k \in K PROVE k \in 1..(x - 1)
    <3>1. k \in 1..n /\ ~(x \in 1..k)
      BY <1>3
    <3>. QED  BY <1>3, <3>1
  <2>2. ASSUME NEW k \in 1..(x - 1) PROVE k \in K
    <3>1. k \in 1..(n + 1) /\ ~(x =< k)
      BY <1>3
    <3>. QED  BY <1>2, <3>1
  <2>. QED  BY <2>1, <2>2
<1>5. Cardinality(1..(x - 1)) = x - 1
  <2>1. 1 \in Int /\ x - 1 \in Int /\ x - 1 >= 0
    BY <1>3
  <2>2. Cardinality(1..(x - 1)) = IF 1 > x - 1 THEN 0 ELSE (x - 1) - 1 + 1
    BY <2>1, FS_Interval
  <2>. QED  BY <2>1, <2>2
<1>. QED  BY <1>3, <1>4, <1>5

LEMMA BeginningsAscend ==
    ASSUME NEW s \in Seq(Section), NEW k \in 0..Len(s), NEW j \in 0..k
    PROVE  TotalTokens(SubSeq(s, 1, j)) =< TotalTokens(SubSeq(s, 1, k))
<1> DEFINE T(l) == TotalTokens(SubSeq(s, 1, l))
           bad == {l \in j..k : ~(T(j) =< T(l))}
<1>1. Len(s) \in Nat /\ \A l \in 0..Len(s) : T(l) \in Nat
  BY Beginning, SectionFacts
<1>2. SUFFICES ASSUME bad # {} PROVE FALSE
  BY <1>1
<1>3. bad \subseteq Nat
  BY <1>1
<1>4. PICK l \in bad : \A m \in bad : l =< m
  <2> HIDE DEF bad
  <2>. QED  BY <1>2, <1>3, Least
<1>5. l \in j..k /\ ~(T(j) =< T(l))
  OBVIOUS
<1>6. l # j
  <2>1. T(j) \in Nat
    BY <1>1
  <2>. QED  BY <1>5, <2>1
<1>7. l \in 1..Len(s) /\ l - 1 \in j..k /\ l - 1 \in 0..Len(s) /\ ~(l =< l - 1)
  BY <1>1, <1>5, <1>6
<1>8. T(j) =< T(l - 1)
  BY <1>4, <1>7
<1>9. T(l) = T(l - 1) + s[l].tokens /\ s[l].tokens \in Nat
  BY <1>1, <1>7, BeginningsGrow, SectionFacts
<1>10. T(j) \in Nat /\ T(l) \in Nat /\ T(l - 1) \in Nat
  BY <1>1, <1>5, <1>7
<1>. QED
  <2> HIDE DEF T
  <2>. QED  BY <1>5, <1>8, <1>9, <1>10

(* The longest beginning that fits. *)
LEMMA TailDropFacts ==
    ASSUME tokenBudget \in Nat, NEW s \in Seq(Section)
    PROVE  /\ tailDropTruncation(s) \in Seq(Section)
           /\ TotalTokens(tailDropTruncation(s)) =< tokenBudget
           /\ \E m \in 0..Len(s) : tailDropTruncation(s) = SubSeq(s, 1, m)
<1> DEFINE K == {k \in DOMAIN s : TotalTokens(SubSeq(s, 1, k)) =< tokenBudget}
           m == Cardinality(K)
<1>1. Len(s) \in Nat /\ DOMAIN s = 1..Len(s)
  BY SectionFacts
<1>2. \A l \in 0..Len(s) : TotalTokens(SubSeq(s, 1, l)) \in Nat
  BY Beginning, SectionFacts
<1>3. ASSUME NEW k \in K, NEW j \in 1..k PROVE j \in K
  <2>1. k \in 0..Len(s) /\ j \in 0..k /\ j \in 0..Len(s) /\ j \in DOMAIN s
    BY <1>1
  <2>2. TotalTokens(SubSeq(s, 1, j)) =< TotalTokens(SubSeq(s, 1, k))
    BY <2>1, BeginningsAscend
  <2>3. TotalTokens(SubSeq(s, 1, k)) =< tokenBudget
    OBVIOUS
  <2>4. TotalTokens(SubSeq(s, 1, j)) =< tokenBudget
    BY <1>2, <2>1, <2>2, <2>3
  <2>. QED  BY <2>1, <2>4
<1>4. K \subseteq 1..Len(s)
  BY <1>1
<1>5. m \in 0..Len(s) /\ K = 1..m
  <2> HIDE DEF K
  <2>. QED  BY <1>1, <1>3, <1>4, BeginsWithAll
<1>6. tailDropTruncation(s) = SubSeq(s, 1, m)
  BY DEF tailDropTruncation
<1>7. TotalTokens(SubSeq(s, 1, m)) =< tokenBudget
  <2> HIDE DEF m
  <2>1. CASE m = 0
    <3>1. SubSeq(s, 1, 0) = <<>>
      BY WholeBeginning
    <3>2. TotalTokens(SubSeq(s, 1, m)) = 0
      BY <2>1, <3>1, TokensOfNone
    <3>. QED  BY <3>2
  <2>2. CASE m # 0
    <3>1. m \in K
      BY <1>1, <1>5, <2>2
    <3>. QED  BY <3>1
  <2>. QED  BY <2>1, <2>2
<1> HIDE DEF m
<1>. QED  BY <1>5, <1>6, <1>7, Beginning

-----------------------------------------------------------------------------
(* ContextBuilder: head_drop *)

DropState == [dropped : Nat, kept : Seq(Section)]

NothingDropped == [dropped |-> 0, kept |-> <<>>]

LEMMA DropOrKeepFacts ==
    ASSUME NEW at \in DropState, NEW x \in Section, NEW toDrop \in Nat
    PROVE  LET next == DropOrKeep(at, x, toDrop) IN
           /\ next \in DropState
           /\ \/ /\ at.dropped + x.tokens =< toDrop
                 /\ next.dropped = at.dropped + x.tokens /\ next.kept = at.kept
              \/ /\ at.dropped + x.tokens > toDrop
                 /\ next.dropped = at.dropped /\ next.kept = Append(at.kept, x)
<1>1. /\ at.dropped \in Nat /\ at.kept \in Seq(Section) /\ x.tokens \in Nat
      /\ at = [dropped |-> at.dropped, kept |-> at.kept]
  BY DEF DropState, Section
<1>2. CASE at.dropped + x.tokens =< toDrop
  <2>1. DropOrKeep(at, x, toDrop)
          = [dropped |-> at.dropped + x.tokens, kept |-> at.kept]
    BY <1>1, <1>2 DEF DropOrKeep
  <2>. QED  BY <1>1, <1>2, <2>1 DEF DropState
<1>3. CASE ~(at.dropped + x.tokens =< toDrop)
  <2>1. DropOrKeep(at, x, toDrop)
          = [dropped |-> at.dropped, kept |-> Append(at.kept, x)]
    BY <1>1, <1>3 DEF DropOrKeep
  <2>2. Append(at.kept, x) \in Seq(Section)
    BY <1>1
  <2>3. at.dropped + x.tokens > toDrop
    BY <1>1, <1>3
  <2>. QED  BY <1>1, <2>1, <2>2, <2>3 DEF DropState
<1>. QED  BY <1>2, <1>3

Drops(g, s, toDrop, m) ==
    /\ g \in [0..m -> DropState] /\ g[0] = NothingDropped
    /\ \A n \in 1..m : g[n] = DropOrKeep(g[n - 1], s[n], toDrop)

(* The loop has a state after each section. *)
LEMMA DropsExist ==
    ASSUME NEW s \in Seq(Section), NEW toDrop \in Nat
    PROVE  \E g : Drops(g, s, toDrop, Len(s))
<1> DEFINE bad == {m \in 0..Len(s) : ~\E g : Drops(g, s, toDrop, m)}
<1>1. Len(s) \in Nat /\ DOMAIN s = 1..Len(s) /\ \A i \in DOMAIN s : s[i] \in Section
  BY SectionFacts
<1>2. SUFFICES ASSUME bad # {} PROVE FALSE
  BY <1>1
<1>3. bad \subseteq Nat
  BY <1>1
<1>4. PICK m \in bad : \A l \in bad : m =< l
  <2> HIDE DEF bad
  <2>. QED  BY <1>2, <1>3, Least
<1>5. m \in 0..Len(s) /\ ~\E g : Drops(g, s, toDrop, m)
  OBVIOUS
<1>6. m # 0
  <2> SUFFICES ASSUME m = 0 PROVE FALSE
    OBVIOUS
  <2>1. NothingDropped \in DropState
    BY EmptySeq DEF NothingDropped, DropState
  <2>2. Drops([n \in 0..m |-> NothingDropped], s, toDrop, m)
    BY <2>1 DEF Drops
  <2>. QED  BY <1>5, <2>2
<1>7. m - 1 \in 0..Len(s) /\ m \in 1..Len(s) /\ ~(m =< m - 1)
  BY <1>1, <1>5, <1>6
<1>8. PICK g : Drops(g, s, toDrop, m - 1)
  BY <1>4, <1>7
<1> DEFINE h == [n \in 0..m |-> IF n = m THEN DropOrKeep(g[m - 1], s[m], toDrop) ELSE g[n]]
<1>9. g \in [0..(m - 1) -> DropState] /\ g[m - 1] \in DropState /\ g[0] = NothingDropped
  BY <1>7, <1>8 DEF Drops
<1>10. h \in [0..m -> DropState]
  <2>1. DropOrKeep(g[m - 1], s[m], toDrop) \in DropState
    BY <1>1, <1>7, <1>9, DropOrKeepFacts
  <2>2. \A n \in 0..m : n = m \/ n \in 0..(m - 1)
    BY <1>7
  <2>. QED  BY <1>9, <2>1, <2>2
<1>11. h[0] = NothingDropped
  BY <1>6, <1>7, <1>9
<1>12. ASSUME NEW n \in 1..m PROVE h[n] = DropOrKeep(h[n - 1], s[n], toDrop)
  <2>1. n \in 0..m /\ n - 1 \in 0..m /\ n - 1 # m /\ h[n - 1] = g[n - 1]
    BY <1>7
  <2>2. CASE n = m
    BY <2>1, <2>2
  <2>3. CASE n # m
    <3>1. n \in 1..(m - 1)
      BY <1>7, <2>3
    <3>2. g[n] = DropOrKeep(g[n - 1], s[n], toDrop)
      BY <1>8, <3>1 DEF Drops
    <3>. QED  BY <2>1, <2>3, <3>2
  <2>. QED  BY <2>2, <2>3
<1>13. Drops(h, s, toDrop, m)
  <2> HIDE DEF h
  <2>. QED  BY <1>10, <1>11, <1>12 DEF Drops
<1>. QED  BY <1>5, <1>13

LEMMA HeadDropRuns ==
    ASSUME NEW s \in Seq(Section), TotalTokens(s) - tokenBudget \in Nat
    PROVE  \E g : /\ \A n \in 1..Len(s) :
                      g[n] = DropOrKeep(g[n - 1], s[n], TotalTokens(s) - tokenBudget)
                  /\ g[0] = NothingDropped /\ headDropTruncation(s) = g[Len(s)].kept
<1> DEFINE toDrop == TotalTokens(s) - tokenBudget
           N == Len(s)
           Loop(g) == [n \in 0..N |-> IF n = 0 THEN NothingDropped
                                      ELSE DropOrKeep(g[n - 1], s[n], toDrop)]
           at == CHOOSE g : g = Loop(g)
<1>1. headDropTruncation(s) = at[N].kept
  BY DEF headDropTruncation, NothingDropped
<1>2. N \in Nat
  BY SectionFacts
<1>3. \E g : g = Loop(g)
  <2>1. PICK g : Drops(g, s, toDrop, N)
    BY DropsExist
  <2> HIDE DEF toDrop, N
  <2>2. \A n \in 0..N : n = 0 \/ n \in 1..N
    BY <1>2
  <2>3. g = [n \in 0..N |-> g[n]]
    BY <2>1 DEF Drops
  <2>4. \A n \in 0..N : g[n] = IF n = 0 THEN NothingDropped
                                ELSE DropOrKeep(g[n - 1], s[n], toDrop)
    BY <2>1, <2>2 DEF Drops
  <2>5. g = Loop(g)
    BY <2>3, <2>4
  <2>. QED  BY <2>5
<1>4. at = Loop(at)
  <2> HIDE DEF Loop
  <2>. QED  BY <1>3
<1>5. 0 \in 0..N /\ (\A n \in 1..N : n \in 0..N /\ n # 0)
  BY <1>2
<1> HIDE DEF at, toDrop, N
<1>6. at[0] = NothingDropped
  BY <1>4, <1>5
<1>7. \A n \in 1..N : at[n] = DropOrKeep(at[n - 1], s[n], toDrop)
  BY <1>4, <1>5
<1>. QED  BY <1>1, <1>6, <1>7 DEF toDrop, N

LEMMA TokensOfAppend ==
    ASSUME NEW s \in Seq(Section), NEW x \in Section
    PROVE  /\ Append(s, x) \in Seq(Section)
           /\ TotalTokens(Append(s, x)) = TotalTokens(s) + x.tokens
           /\ \A i \in DOMAIN Append(s, x) :
                \/ i \in DOMAIN s /\ Append(s, x)[i] = s[i]
                \/ Append(s, x)[i] = x
<1> DEFINE t == Append(s, x)
<1>1. /\ t \in Seq(Section) /\ Len(t) = Len(s) + 1 /\ t[Len(t)] = x
      /\ \A i \in 1..Len(s) : t[i] = s[i]
  OBVIOUS
<1>2. Len(s) \in Nat /\ DOMAIN s = 1..Len(s) /\ DOMAIN t = 1..Len(t)
  BY <1>1, SectionFacts
<1> HIDE DEF t
<1>3. TotalTokens(t) = TotalTokens(s) + x.tokens
  BY <1>1, TokensOfMore
<1>4. \A i \in DOMAIN t : i \in 1..Len(s) \/ i = Len(t)
  BY <1>1, <1>2
<1>. QED  BY <1>1, <1>2, <1>3, <1>4 DEF t

(* After each section: what was kept and what was dropped make up what was *)
(* met, no more was dropped than was to be, and each section kept was more *)
(* than what was still to drop.                                            *)
LEMMA HeadDropFacts ==
    ASSUME NEW s \in Seq(Section), tokenBudget \in Nat, TotalTokens(s) > tokenBudget
    PROVE  LET kept == headDropTruncation(s) IN
           /\ kept \in Seq(Section) /\ TotalTokens(kept) >= tokenBudget
           /\ \A i \in DOMAIN kept : TotalTokens(kept) < tokenBudget + kept[i].tokens
<1> DEFINE toDrop == TotalTokens(s) - tokenBudget
           N == Len(s)
<1>1. /\ N \in Nat /\ DOMAIN s = 1..N /\ toDrop \in Nat
      /\ \A i \in DOMAIN s : s[i] \in Section /\ s[i].tokens \in Nat
      /\ TotalTokens(s) \in Nat /\ TotalTokens(s) = tokenBudget + toDrop
  BY SectionFacts
<1>2. PICK g : /\ \A n \in 1..N : g[n] = DropOrKeep(g[n - 1], s[n], toDrop)
               /\ g[0] = NothingDropped /\ headDropTruncation(s) = g[N].kept
  BY <1>1, HeadDropRuns
<1> HIDE DEF toDrop, N
<1> DEFINE Good(n) ==
             /\ g[n] \in DropState /\ g[n].dropped =< toDrop
             /\ TotalTokens(g[n].kept) + g[n].dropped = TotalTokens(SubSeq(s, 1, n))
             /\ \A i \in DOMAIN g[n].kept :
                  g[n].dropped + g[n].kept[i].tokens > toDrop
<1>3. Good(0)
  <2>1. /\ NothingDropped.dropped = 0 /\ NothingDropped.kept = <<>>
        /\ NothingDropped \in DropState
    BY EmptySeq DEF NothingDropped, DropState
  <2>2. DOMAIN <<>> = {} /\ SubSeq(s, 1, 0) = <<>>
    BY WholeBeginning
  <2>3. g[0].dropped = 0 /\ g[0].kept = <<>> /\ g[0] \in DropState
    BY <1>2, <2>1
  <2>4. TotalTokens(g[0].kept) = 0 /\ TotalTokens(SubSeq(s, 1, 0)) = 0
    BY <2>2, <2>3, TokensOfNone
  <2>. QED  BY <1>1, <2>2, <2>3, <2>4
<1>4. ASSUME NEW n \in 1..N, Good(n - 1) PROVE Good(n)
  <2> DEFINE old == g[n - 1]
             new == g[n]
             x == s[n]
  <2>1. /\ old \in DropState /\ old.dropped =< toDrop
        /\ TotalTokens(old.kept) + old.dropped = TotalTokens(SubSeq(s, 1, n - 1))
        /\ \A i \in DOMAIN old.kept : old.dropped + old.kept[i].tokens > toDrop
    BY <1>4
  <2>2. x \in Section /\ x.tokens \in Nat /\ new = DropOrKeep(old, x, toDrop)
    BY <1>1, <1>2
  <2>3. TotalTokens(SubSeq(s, 1, n)) = TotalTokens(SubSeq(s, 1, n - 1)) + x.tokens
    BY BeginningsGrow DEF N
  <2>4. /\ old.dropped \in Nat /\ old.kept \in Seq(Section)
        /\ TotalTokens(old.kept) \in Nat
        /\ \A i \in DOMAIN old.kept : old.kept[i].tokens \in Nat
    BY <2>1, SectionFacts DEF DropState
  <2> HIDE DEF old, new, x
  <2>5. new \in DropState
    BY <1>1, <2>1, <2>2, DropOrKeepFacts
  <2>6. CASE /\ old.dropped + x.tokens =< toDrop
             /\ new.dropped = old.dropped + x.tokens /\ new.kept = old.kept
    <3>1. TotalTokens(new.kept) + new.dropped = TotalTokens(SubSeq(s, 1, n))
      BY <2>1, <2>2, <2>3, <2>4, <2>6
    <3>2. \A i \in DOMAIN new.kept : new.dropped + new.kept[i].tokens > toDrop
      BY <1>1, <2>1, <2>2, <2>4, <2>6
    <3>. QED  BY <2>5, <2>6, <3>1, <3>2 DEF new
  <2>7. CASE /\ old.dropped + x.tokens > toDrop
             /\ new.dropped = old.dropped /\ new.kept = Append(old.kept, x)
    <3>1. /\ TotalTokens(new.kept) = TotalTokens(old.kept) + x.tokens
          /\ \A i \in DOMAIN new.kept :
               \/ i \in DOMAIN old.kept /\ new.kept[i] = old.kept[i]
               \/ new.kept[i] = x
      BY <2>2, <2>4, <2>7, TokensOfAppend
    <3>2. TotalTokens(new.kept) + new.dropped = TotalTokens(SubSeq(s, 1, n))
      BY <2>1, <2>2, <2>3, <2>4, <2>7, <3>1
    <3>3. \A i \in DOMAIN new.kept : new.dropped + new.kept[i].tokens > toDrop
      BY <2>1, <2>7, <3>1
    <3>. QED  BY <2>1, <2>5, <2>7, <3>2, <3>3 DEF new
  <2>8. LET next == DropOrKeep(old, x, toDrop) IN
        \/ /\ old.dropped + x.tokens =< toDrop
           /\ next.dropped = old.dropped + x.tokens /\ next.kept = old.kept
        \/ /\ old.dropped + x.tokens > toDrop
           /\ next.dropped = old.dropped /\ next.kept = Append(old.kept, x)
    BY <1>1, <2>1, <2>2, DropOrKeepFacts
  <2>. QED  BY <2>2, <2>6, <2>7, <2>8
<1>5. Good(N)
  <2> DEFINE bad == {n \in 0..N : ~Good(n)}
  <2> HIDE DEF Good
  <2>1. SUFFICES ASSUME bad # {} PROVE FALSE
    BY <1>1
  <2>2. bad \subseteq Nat
    BY <1>1
  <2>3. PICK n \in bad : \A l \in bad : n =< l
    <3> HIDE DEF bad
    <3>. QED  BY <2>1, <2>2, Least
  <2>4. n \in 0..N /\ ~Good(n)
    OBVIOUS
  <2>5. n # 0
    BY <1>3, <2>4
  <2>6. n \in 1..N /\ n - 1 \in 0..N /\ ~(n =< n - 1)
    BY <1>1, <2>4, <2>5
  <2>7. Good(n - 1)
    BY <2>3, <2>6
  <2>. QED  BY <1>4, <2>4, <2>6, <2>7
<1>6. /\ g[N].kept \in Seq(Section) /\ g[N].dropped \in Nat
      /\ TotalTokens(g[N].kept) \in Nat
      /\ \A i \in DOMAIN g[N].kept : g[N].kept[i].tokens \in Nat
  BY <1>5, SectionFacts DEF DropState
<1>7. TotalTokens(g[N].kept) + g[N].dropped = tokenBudget + toDrop
  BY <1>1, <1>5, WholeBeginning DEF N
<1>8. \A i \in DOMAIN g[N].kept : g[N].dropped + g[N].kept[i].tokens > toDrop
  BY <1>5
<1>9. g[N].dropped =< toDrop
  BY <1>5
<1> DEFINE kept == g[N].kept
           dropped == g[N].dropped
<1> HIDE DEF Good
<1>10. TotalTokens(kept) >= tokenBudget
  BY <1>1, <1>6, <1>7, <1>9
<1>11. ASSUME NEW i \in DOMAIN kept
       PROVE  TotalTokens(kept) < tokenBudget + kept[i].tokens
  <2>1. dropped + kept[i].tokens > toDrop /\ kept[i].tokens \in Nat
    BY <1>6, <1>8
  <2>2. TotalTokens(kept) + dropped = tokenBudget + toDrop
    BY <1>7
  <2>3. TotalTokens(kept) \in Nat /\ dropped \in Nat
    BY <1>6
  <2> HIDE DEF kept, dropped
  <2>. QED  BY <1>1, <2>1, <2>2, <2>3
<1>. QED  BY <1>2, <1>6, <1>10, <1>11

-----------------------------------------------------------------------------
(* ContextBuilder: proportional *)

LEMMA Quotient ==
    ASSUME NEW a \in Nat, NEW t \in Nat \ {0}
    PROVE  a \div t \in Nat /\ t * (a \div t) =< a
OBVIOUS

LEMMA Estimate ==
    ASSUME NEW n \in Nat
    PROVE  /\ estimateTokens(n) \in Nat
           /\ 4 * estimateTokens(n) =< n /\ n < 4 * estimateTokens(n) + 4
BY DEF estimateTokens

LEMMA Factors ==
    /\ \A a, b, c \in Nat : a =< b => c * a =< c * b /\ a * c =< b * c
    /\ \A a, b \in Nat, c \in Nat \ {0} : c * a =< c * b => a =< b
    /\ \A a, b \in Nat : a * b \in Nat /\ a * b = b * a
    /\ \A a, b, c \in Nat : a * (b + c) = a * b + a * c /\ (b + c) * a = b * a + c * a
<1>1. ASSUME NEW a \in Nat, NEW b \in Nat, NEW c \in Nat, a =< b
      PROVE  c * a =< c * b /\ a * c =< b * c
  BY <1>1
<1>2. ASSUME NEW a \in Nat, NEW b \in Nat, NEW c \in Nat \ {0}, c * a =< c * b
      PROVE  a =< b
  <2>1. SUFFICES ASSUME a >= b + 1 PROVE FALSE
    OBVIOUS
  <2>2. c * a >= c * (b + 1)
    BY <2>1
  <2>3. c * (b + 1) = c * b + c
    OBVIOUS
  <2>. QED  BY <1>2, <2>2, <2>3
<1>3. \A a, b \in Nat : a * b \in Nat /\ a * b = b * a
  OBVIOUS
<1>4. \A a, b, c \in Nat : a * (b + c) = a * b + a * c /\ (b + c) * a = b * a + c * a
  OBVIOUS
<1>. QED  BY <1>1, <1>2, <1>3, <1>4

LEMMA ScaledFacts ==
    ASSUME tokenBudget \in Nat, NEW total \in Nat \ {0}, NEW n \in Nat,
           NEW q \in Scaled(n, total)
    PROVE  q \in Nat /\ total * q =< n * tokenBudget
<1> DEFINE d == (n * tokenBudget) \div total
<1>1. d \in Nat /\ total * d =< n * tokenBudget /\ n * tokenBudget \in Nat
  BY Factors, Quotient
<1>2. q = d \/ (d > 0 /\ q = d - 1)
  BY DEF Scaled
<1> HIDE DEF d
<1>3. q \in Nat /\ q =< d
  BY <1>1, <1>2
<1>4. total * q =< total * d /\ total * q \in Nat /\ total * d \in Nat
  BY <1>1, <1>3, Factors
<1>. QED  BY <1>1, <1>3, <1>4

(* A section that was shrunk misses its share by one token at most, as     *)
(* reported and as its text would be estimated.                            *)
LEMMA ShrunkNear ==
    ASSUME tokenBudget \in Nat, NEW total \in Nat, total > tokenBudget,
           NEW x \in Section, x.tokens = estimateTokens(x.length),
           NEW y \in Shrunk(x, total)
    PROVE  /\ y \in Section /\ y.priority = x.priority
           /\ total * y.tokens =< x.tokens * tokenBudget + total
           /\ total * estimateTokens(y.length) =< x.tokens * tokenBudget + total
<1>1. x.priority \in Priorities /\ x.length \in Nat /\ x.tokens \in Nat
  BY DEF Section
<1>2. total \in Nat \ {0} /\ total >= 1
  OBVIOUS
<1>3. PICK t \in Scaled(x.tokens, total), l \in Scaled(x.length, total) :
        y = [priority |-> x.priority, tokens |-> AtLeastOne(t), length |-> l]
  BY DEF Shrunk
<1>4. /\ t \in Nat /\ total * t =< x.tokens * tokenBudget
      /\ l \in Nat /\ total * l =< x.length * tokenBudget
  BY <1>1, <1>2, ScaledFacts
<1>5. y.priority = x.priority /\ y.tokens = AtLeastOne(t) /\ y.length = l
  BY <1>3
<1>6. AtLeastOne(t) \in Nat /\ y \in Section
  BY <1>1, <1>3, <1>4 DEF AtLeastOne, Section
<1>7. /\ x.tokens * tokenBudget \in Nat /\ total * t \in Nat /\ total * l \in Nat
      /\ x.length * tokenBudget \in Nat
  BY <1>1, <1>4, Factors
<1>8. total * y.tokens =< x.tokens * tokenBudget + total
  <2>1. CASE t < 1
    <3>1. total * y.tokens = total
      BY <1>2, <1>5, <2>1 DEF AtLeastOne
    <3>. QED  BY <1>7, <3>1
  <2>2. CASE ~(t < 1)
    <3>1. y.tokens = t
      BY <1>5, <2>2 DEF AtLeastOne
    <3>. QED  BY <1>4, <1>7, <3>1
  <2>. QED  BY <2>1, <2>2
<1>9. total * estimateTokens(l) =< x.tokens * tokenBudget + total
  <2> DEFINE e == estimateTokens(l)
             P == total * e
             Q == x.tokens * tokenBudget
             R == total * l
             S == x.length * tokenBudget
  <2>1. /\ e \in Nat /\ 4 * e =< l
        /\ x.length =< 4 * x.tokens + 3
    <3>1. x.length < 4 * x.tokens + 4
      BY <1>1, Estimate
    <3>2. x.length =< 4 * x.tokens + 3
      BY <1>1, <3>1
    <3>3. e \in Nat /\ 4 * e =< l
      BY <1>4, Estimate
    <3>. QED  BY <3>2, <3>3
  <2>2. P \in Nat /\ Q \in Nat /\ R \in Nat /\ S \in Nat
    BY <1>7, <2>1, Factors
  <2>3. 4 * P =< R
    <3> HIDE DEF e
    <3>1. 4 * e \in Nat /\ total * (4 * e) =< total * l
      BY <1>4, <2>1, Factors
    <3>2. total * (4 * e) = 4 * (total * e)
      BY <2>1
    <3>. QED  BY <3>1, <3>2
  <2>4. S =< 4 * Q + 3 * tokenBudget
    <3>1. 4 * x.tokens + 3 \in Nat
      BY <1>1
    <3>2. x.length * tokenBudget =< (4 * x.tokens + 3) * tokenBudget
      BY <1>1, <2>1, <3>1, Factors
    <3>3. (4 * x.tokens + 3) * tokenBudget = 4 * (x.tokens * tokenBudget) + 3 * tokenBudget
      BY <1>1
    <3>. QED  BY <3>2, <3>3
  <2>5. R =< S
    BY <1>4
  <2> HIDE DEF e, P, Q, R, S
  <2>6. P =< Q + total
    BY <2>2, <2>3, <2>4, <2>5
  <2>. QED  BY <2>6 DEF e, P, Q
<1>. QED  BY <1>5, <1>6, <1>8, <1>9

(* The sums of numbers that each miss their share by one at most.          *)
LEMMA TotalNear ==
    ASSUME NEW n \in Nat, NEW f \in [1..n -> Nat], NEW g \in [1..n -> Nat],
           NEW share \in Nat, NEW total \in Nat,
           \A i \in 1..n : total * f[i] =< g[i] * share + total
    PROVE  total * Total(f) =< Total(g) * share + total * n
<1> DEFINE F(k) == [i \in 1..k |-> f[i]]
           G(k) == [i \in 1..k |-> g[i]]
           Near(k) == total * Total(F(k)) =< Total(G(k)) * share + total * k
           bad == {k \in 0..n : ~Near(k)}
<1>1. \A k \in 0..n : /\ IsFiniteSet(DOMAIN F(k)) /\ IsFiniteSet(DOMAIN G(k))
                      /\ F(k) \in [DOMAIN F(k) -> Nat] /\ G(k) \in [DOMAIN G(k) -> Nat]
                      /\ Total(F(k)) \in Nat /\ Total(G(k)) \in Nat
  <2> SUFFICES ASSUME NEW k \in 0..n
               PROVE  /\ IsFiniteSet(DOMAIN F(k)) /\ IsFiniteSet(DOMAIN G(k))
                      /\ F(k) \in [DOMAIN F(k) -> Nat] /\ G(k) \in [DOMAIN G(k) -> Nat]
                      /\ Total(F(k)) \in Nat /\ Total(G(k)) \in Nat
    OBVIOUS
  <2>1. IsFiniteSet(1..k)
    <3>1. 1 \in Int /\ k \in Int
      OBVIOUS
    <3>. QED  BY <3>1, FS_Interval
  <2>2. /\ DOMAIN F(k) = 1..k /\ DOMAIN G(k) = 1..k
        /\ F(k) \in [1..k -> Nat] /\ G(k) \in [1..k -> Nat]
    OBVIOUS
  <2> HIDE DEF F, G
  <2>. QED  BY <2>1, <2>2, PiecesFinite
<1>2. Near(0)
  <2>1. DOMAIN F(0) = {} /\ DOMAIN G(0) = {}
    OBVIOUS
  <2>2. Total(F(0)) = 0 /\ Total(G(0)) = 0
    <3> HIDE DEF F, G
    <3>. QED  BY <2>1, TotalOfNone
  <2>. QED  BY <2>2
<1>3. ASSUME NEW k \in 1..n, Near(k - 1) PROVE Near(k)
  <2>1. k - 1 \in 0..n /\ k \notin 1..(k - 1) /\ k - 1 \in Nat /\ k \in Nat
    OBVIOUS
  <2>2. /\ DOMAIN F(k - 1) = 1..(k - 1) /\ DOMAIN G(k - 1) = 1..(k - 1)
        /\ F(k) \in [1..(k - 1) \cup {k} -> Nat] /\ F(k)[k] = f[k]
        /\ G(k) \in [1..(k - 1) \cup {k} -> Nat] /\ G(k)[k] = g[k]
        /\ \A i \in 1..(k - 1) : F(k)[i] = F(k - 1)[i] /\ G(k)[i] = G(k - 1)[i]
    <3>1. 1..k = 1..(k - 1) \cup {k}
      <4>1. \A i : i \in 1..k <=> i \in 1..(k - 1) \/ i = k
        BY <2>1
      <4>. QED  BY <4>1
    <3>2. \A i \in 1..(k - 1) : i \in 1..k
      BY <2>1
    <3>3. F(k) \in [1..k -> Nat] /\ G(k) \in [1..k -> Nat] /\ k \in 1..k
      BY <2>1
    <3>4. F(k)[k] = f[k] /\ G(k)[k] = g[k]
      BY <3>3
    <3>5. DOMAIN F(k - 1) = 1..(k - 1) /\ DOMAIN G(k - 1) = 1..(k - 1)
      OBVIOUS
    <3>6. \A i \in 1..(k - 1) : F(k)[i] = F(k - 1)[i] /\ G(k)[i] = G(k - 1)[i]
      BY <3>2
    <3> HIDE DEF F, G
    <3>. QED  BY <3>1, <3>3, <3>4, <3>5, <3>6
  <2>3. Total(F(k)) = Total(F(k - 1)) + f[k] /\ Total(G(k)) = Total(G(k - 1)) + g[k]
    <3> DEFINE a == F(k - 1)  b == F(k)  c == G(k - 1)  d == G(k)
    <3>1. /\ IsFiniteSet(DOMAIN a) /\ a \in [DOMAIN a -> Nat] /\ k \notin DOMAIN a
          /\ b \in [DOMAIN a \cup {k} -> Nat] /\ \A i \in DOMAIN a : b[i] = a[i]
      BY <1>1, <2>1, <2>2
    <3>2. /\ IsFiniteSet(DOMAIN c) /\ c \in [DOMAIN c -> Nat] /\ k \notin DOMAIN c
          /\ d \in [DOMAIN c \cup {k} -> Nat] /\ \A i \in DOMAIN c : d[i] = c[i]
      BY <1>1, <2>1, <2>2
    <3>3. b[k] = f[k] /\ d[k] = g[k]
      BY <2>2
    <3> HIDE DEF a, b, c, d
    <3>4. Total(b) = Total(a) + b[k] /\ Total(d) = Total(c) + d[k]
      BY <3>1, <3>2, TotalOfMore
    <3>. QED  BY <3>3, <3>4 DEF a, b, c, d
  <2> DEFINE x == Total(F(k - 1))
             y == Total(G(k - 1))
  <2>4. x \in Nat /\ y \in Nat /\ f[k] \in Nat /\ g[k] \in Nat
    BY <1>1, <2>1
  <2>5. total * x =< y * share + total * (k - 1)
    BY <1>3
  <2>6. total * f[k] =< g[k] * share + total
    OBVIOUS
  <2> HIDE DEF x, y
  <2> DEFINE A == total * x       B == total * f[k]
             C == y * share       D == g[k] * share
             E == total * (k - 1)
  <2>7. /\ total * (x + f[k]) = A + B /\ (y + g[k]) * share = C + D
        /\ total * k = E + total
    <3>1. total * (x + f[k]) = A + B /\ (y + g[k]) * share = C + D
      <4>1. total * (x + f[k]) = total * x + total * f[k]
        BY <2>4, Factors
      <4>2. (y + g[k]) * share = y * share + g[k] * share
        BY <2>4, Factors
      <4>. QED  BY <4>1, <4>2
    <3>2. total * ((k - 1) + 1) = total * (k - 1) + total * 1
      BY <2>1, Factors
    <3>3. (k - 1) + 1 = k /\ total * 1 = total
      BY <2>1
    <3>. QED  BY <3>1, <3>2, <3>3
  <2>8. A \in Nat /\ B \in Nat /\ C \in Nat /\ D \in Nat /\ E \in Nat
    BY <2>1, <2>4, Factors
  <2>9. total * (x + f[k]) =< (y + g[k]) * share + total * k
    <3>1. A =< C + E /\ B =< D + total
      BY <2>5, <2>6
    <3> HIDE DEF A, B, C, D, E
    <3>. QED  BY <2>7, <2>8, <3>1
  <2>. QED  BY <2>3, <2>9 DEF x, y
<1>4. Near(n)
  <2> HIDE DEF Near
  <2>1. SUFFICES ASSUME bad # {} PROVE FALSE
    OBVIOUS
  <2>2. bad \subseteq Nat
    OBVIOUS
  <2>3. PICK k \in bad : \A l \in bad : k =< l
    <3> HIDE DEF bad
    <3>. QED  BY <2>1, <2>2, Least
  <2>4. k \in 0..n /\ ~Near(k) /\ k # 0
    BY <1>2
  <2>5. k \in 1..n /\ k - 1 \in 0..n /\ ~(k =< k - 1)
    BY <2>4
  <2>6. Near(k - 1)
    BY <2>3, <2>5
  <2>. QED  BY <1>3, <2>4, <2>5, <2>6
<1>5. F(n) = f /\ G(n) = g
  OBVIOUS
<1>. QED  BY <1>4, <1>5

LEMMA ProportionalFacts ==
    ASSUME tokenBudget \in Nat, NEW s \in Seq(Section), TotalTokens(s) > tokenBudget,
           \A i \in DOMAIN s : s[i].tokens = estimateTokens(s[i].length),
           NEW r \in proportionalTruncation(s)
    PROVE  /\ \A p : Many(r, p) = Many(s, p)
           /\ TotalTokens(r) =< tokenBudget + Len(s)
           /\ Total([i \in DOMAIN r |-> estimateTokens(r[i].length)])
                =< tokenBudget + Len(s)
<1> DEFINE total == TotalTokens(s)
           N == Len(s)
           lengths == [i \in DOMAIN r |-> estimateTokens(r[i].length)]
<1>1. /\ N \in Nat /\ DOMAIN s = 1..N /\ total \in Nat \ {0}
      /\ \A i \in DOMAIN s : s[i] \in Section /\ s[i].tokens \in Nat
      /\ Tokens(s) \in [DOMAIN s -> Nat] /\ total = Total(Tokens(s))
  BY SectionFacts
<1>2. DOMAIN r = DOMAIN s /\ \A i \in DOMAIN s : r[i] \in Shrunk(s[i], total)
  BY DEF proportionalTruncation
<1>3. r = [i \in DOMAIN s |-> r[i]]
  BY DEF proportionalTruncation
<1>4. ASSUME NEW i \in DOMAIN s
      PROVE  /\ r[i] \in Section /\ r[i].priority = s[i].priority
             /\ total * r[i].tokens =< s[i].tokens * tokenBudget + total
             /\ total * estimateTokens(r[i].length) =< s[i].tokens * tokenBudget + total
  <2>1. s[i] \in Section /\ s[i].tokens = estimateTokens(s[i].length) /\ total \in Nat
        /\ total > tokenBudget /\ r[i] \in Shrunk(s[i], total)
    BY <1>1, <1>2
  <2> HIDE DEF total
  <2>. QED  BY <2>1, ShrunkNear
<1>5. r \in Seq(Section) /\ TotalTokens(r) = Total(Tokens(r)) /\ Len(r) = N
  <2>1. r \in [1..N -> Section]
    BY <1>1, <1>3, <1>4
  <2>2. r \in Seq(Section) /\ Len(r) = N
    BY <1>1, <2>1
  <2>. QED  BY <2>2, SectionFacts
<1>6. ASSUME NEW f \in [1..N -> Nat],
             \A i \in 1..N : total * f[i] =< Tokens(s)[i] * tokenBudget + total
      PROVE  Total(f) =< tokenBudget + N
  <2> DEFINE F == Total(f)
  <2>1. Tokens(s) \in [1..N -> Nat] /\ total \in Nat
    BY <1>1
  <2>2. total * F =< total * tokenBudget + total * N
    <3> HIDE DEF N
    <3>1. total * Total(f) =< Total(Tokens(s)) * tokenBudget + total * N
      <4> HIDE DEF total
      <4>. QED  BY <1>1, <1>6, <2>1, TotalNear
    <3>. QED  BY <1>1, <3>1
  <2>3. F \in Nat
    <3>1. IsFiniteSet(1..N)
      <4>1. 1 \in Int /\ N \in Int
        BY <1>1
      <4>. QED  BY <4>1, FS_Interval
    <3>2. DOMAIN f = 1..N /\ f \in [DOMAIN f -> Nat]
      OBVIOUS
    <3>. QED  BY <3>1, <3>2, PiecesFinite
  <2>4. total * (tokenBudget + N) = total * tokenBudget + total * N
        /\ tokenBudget + N \in Nat
    BY <1>1, <2>1, Factors
  <2> HIDE DEF F, N, total
  <2>5. total * F =< total * (tokenBudget + N)
    BY <2>2, <2>4
  <2>6. F =< tokenBudget + N
    BY <1>1, <2>3, <2>4, <2>5, Factors
  <2>. QED  BY <2>6 DEF F
<1>7. /\ Tokens(r) \in [1..N -> Nat] /\ lengths \in [1..N -> Nat]
      /\ \A i \in 1..N : /\ Tokens(r)[i] = r[i].tokens /\ Tokens(s)[i] = s[i].tokens
                          /\ lengths[i] = estimateTokens(r[i].length)
  <2>1. \A i \in 1..N : r[i].length \in Nat /\ estimateTokens(r[i].length) \in Nat
    BY <1>1, <1>4, Estimate DEF Section
  <2>2. Tokens(r) \in [DOMAIN r -> Nat]
    BY <1>5, SectionFacts
  <2>. QED  BY <1>1, <1>2, <2>1, <2>2 DEF Tokens
<1>8. TotalTokens(r) =< tokenBudget + N
  <2>1. \A i \in 1..N : total * Tokens(r)[i] =< Tokens(s)[i] * tokenBudget + total
    BY <1>1, <1>4, <1>7
  <2>. QED  BY <1>5, <1>6, <1>7, <2>1
<1>9. Total(lengths) =< tokenBudget + N
  <2>1. \A i \in 1..N : total * lengths[i] =< Tokens(s)[i] * tokenBudget + total
    BY <1>1, <1>4, <1>7
  <2> HIDE DEF lengths
  <2>. QED  BY <1>6, <1>7, <2>1
<1>10. ASSUME NEW p PROVE Many(r, p) = Many(s, p)
  <2>1. {i \in DOMAIN r : r[i].priority = p} = {i \in DOMAIN s : s[i].priority = p}
    BY <1>2, <1>4
  <2>. QED  BY <2>1 DEF Many
<1>. QED  BY <1>8, <1>9, <1>10

LEMMA TailDropFirst ==
    ASSUME tokenBudget \in Nat, NEW s \in Seq(Section),
           \A i, j \in DOMAIN s : i < j => s[i].priority =< s[j].priority,
           NEW p \in Priorities, NEW q \in Priorities, p < q,
           Many(tailDropTruncation(s), q) > 0
    PROVE  Many(tailDropTruncation(s), p) = Many(s, p)
<1>1. PICK m \in 0..Len(s) : tailDropTruncation(s) = SubSeq(s, 1, m)
  BY TailDropFacts
<1> DEFINE r == SubSeq(s, 1, m)
<1>2. /\ DOMAIN r = 1..m /\ \A i \in 1..m : r[i] = s[i]
  BY Beginning, SectionFacts
<1>3. /\ Len(s) \in Nat /\ DOMAIN s = 1..Len(s)
      /\ \A i \in DOMAIN s : s[i].priority \in Int
  BY SectionFacts, ContextAssumption
<1> HIDE DEF r
<1>4. PICK j \in 1..m : s[j].priority = q
  <2>1. {i \in DOMAIN r : r[i].priority = q} # {}
    <3> SUFFICES ASSUME {i \in DOMAIN r : r[i].priority = q} = {} PROVE FALSE
      OBVIOUS
    <3>1. Many(r, q) = 0
      BY FS_EmptySet DEF Many
    <3>. QED  BY <1>1, <3>1 DEF r
  <2>. QED  BY <1>2, <2>1
<1>5. ASSUME NEW i \in DOMAIN s, s[i].priority = p PROVE i \in 1..m
  <2>1. j \in DOMAIN s /\ ~(j < i)
    BY <1>3, <1>4, <1>5, ContextAssumption
  <2>. QED  BY <1>3, <2>1
<1>6. {i \in DOMAIN r : r[i].priority = p} = {i \in DOMAIN s : s[i].priority = p}
  BY <1>2, <1>3, <1>5
<1>. QED  BY <1>1, <1>6 DEF Many, r

-----------------------------------------------------------------------------
(* ContextBuilder: the inductive invariant *)

ContextTyped ==
    /\ sections \in Seq(Section) /\ tokenBudget \in Nat
    /\ \A i \in DOMAIN sections :
         sections[i].tokens = estimateTokens(sections[i].length)

ContextInv ==
    ContextTyped /\ TailDropKeepsFirst /\ HeadDropTight /\ ProportionalNear

LEMMA ExecuteKeeps ==
    ASSUME ContextInv, Execute
    PROVE  ContextInv'
<1>1. PICK s \in ByPriority(sections) :
        IF TotalTokens(s) > tokenBudget THEN result' \in applyTruncation(s) ELSE result' = s
  BY DEF Execute
<1>2. UNCHANGED <<sections, tokenBudget, truncation>>
  BY DEF Execute
<1>3. sections \in Seq(Section) /\ tokenBudget \in Nat
  BY DEF ContextInv, ContextTyped
<1>4. /\ s \in Seq(Section) /\ Len(s) = Len(sections)
      /\ TotalTokens(s) = TotalTokens(sections)
      /\ \A q : Many(s, q) = Many(sections, q)
      /\ \A i, j \in DOMAIN s : i < j => s[i].priority =< s[j].priority
      /\ \A i \in DOMAIN s : \E j \in DOMAIN sections : s[i] = sections[j]
  BY <1>3, SortedFacts
<1>5. \A i \in DOMAIN s : s[i].tokens = estimateTokens(s[i].length)
  BY <1>4 DEF ContextInv, ContextTyped
<1>6. ContextTyped'
  BY <1>2 DEF ContextInv, ContextTyped
<1>7. /\ \A q : Many(sections, q)' = Many(sections, q)
      /\ TotalTokens(sections)' = TotalTokens(sections)
  BY <1>2
<1>8. TailDropKeepsFirst'
  <2> SUFFICES ASSUME Truncated("tail_drop")' PROVE
        /\ TotalTokens(result') =< tokenBudget
        /\ \A p \in Priorities : \A q \in Priorities :
             p < q /\ Many(result', q) > 0 => Many(result', p) = Many(sections, p)
    BY <1>2, <1>7 DEF TailDropKeepsFirst
  <2>1. TotalTokens(s) > tokenBudget /\ truncation = "tail_drop"
    BY <1>2, <1>4, <1>7 DEF Truncated
  <2>2. result' = tailDropTruncation(s)
    BY <1>1, <2>1 DEF applyTruncation
  <2>. QED  BY <1>3, <1>4, <2>2, TailDropFacts, TailDropFirst
<1>9. HeadDropTight'
  <2> SUFFICES ASSUME Truncated("head_drop")' PROVE
        /\ TotalTokens(result') >= tokenBudget
        /\ \A i \in DOMAIN result' :
             TotalTokens(result') < tokenBudget + result'[i].tokens
    BY <1>2 DEF HeadDropTight
  <2>1. TotalTokens(s) > tokenBudget /\ truncation = "head_drop"
    BY <1>2, <1>4, <1>7 DEF Truncated
  <2>2. result' = headDropTruncation(s)
    BY <1>1, <2>1 DEF applyTruncation
  <2>. QED  BY <1>3, <1>4, <2>1, <2>2, HeadDropFacts
<1>10. ProportionalNear'
  <2> SUFFICES ASSUME Truncated("proportional")' PROVE
        /\ \A p \in Priorities : Many(result', p) = Many(sections, p)
        /\ TotalTokens(result') =< tokenBudget + Len(sections)
        /\ Total([i \in DOMAIN result' |-> estimateTokens(result'[i].length)])
             =< tokenBudget + Len(sections)
    BY <1>2 DEF ProportionalNear
  <2>1. TotalTokens(s) > tokenBudget /\ truncation = "proportional"
    BY <1>2, <1>4, <1>7 DEF Truncated
  <2>2. result' \in proportionalTruncation(s)
    BY <1>1, <2>1 DEF applyTruncation
  <2>. QED  BY <1>3, <1>4, <1>5, <2>1, <2>2, ProportionalFacts
<1>. QED  BY <1>6, <1>8, <1>9, <1>10 DEF ContextInv

LEMMA ContextStep == ContextInv /\ [ContextNext]_contextVars => ContextInv'
<1> SUFFICES ASSUME ContextInv, [ContextNext]_contextVars PROVE ContextInv'
  OBVIOUS
<1>1. ASSUME result' = NoResult, ContextTyped' PROVE ContextInv'
  BY <1>1 DEF ContextInv, Truncated, TailDropKeepsFirst, HeadDropTight, ProportionalNear
<1>2. ASSUME NEW p \in Priorities, NEW l \in TextLengths, Literal(p, l) PROVE ContextInv'
  <2> DEFINE x == [priority |-> p, length |-> l, tokens |-> estimateTokens(l)]
  <2>1. /\ sections' = Append(sections, x) /\ result' = NoResult
        /\ UNCHANGED <<tokenBudget, truncation>>
    BY <1>2 DEF Literal
  <2>2. /\ x \in Section /\ x.tokens = estimateTokens(x.length)
    BY ContextAssumption, Estimate DEF Section
  <2>3. sections \in Seq(Section)
    BY DEF ContextInv, ContextTyped
  <2> HIDE DEF x
  <2>4. /\ sections' \in Seq(Section)
        /\ \A i \in DOMAIN sections' :
             \/ i \in DOMAIN sections /\ sections'[i] = sections[i]
             \/ sections'[i] = x
    BY <2>1, <2>2, <2>3, TokensOfAppend
  <2>. QED  BY <1>1, <2>1, <2>2, <2>4 DEF ContextInv, ContextTyped
<1>3. ASSUME NEW n \in Budgets, WithBudget(n) PROVE ContextInv'
  BY <1>1, <1>3, ContextAssumption DEF WithBudget, ContextInv, ContextTyped
<1>4. ASSUME NEW t \in Truncations, SetTruncation(t) PROVE ContextInv'
  BY <1>1, <1>4 DEF SetTruncation, ContextInv, ContextTyped
<1>5. CASE UNCHANGED contextVars
  BY <1>5 DEF contextVars, ContextInv, ContextTyped, TailDropKeepsFirst, HeadDropTight,
     ProportionalNear, Truncated
<1>. QED  BY <1>2, <1>3, <1>4, <1>5, ExecuteKeeps DEF ContextNext

(* The sections of a builder are counted as Literal estimated them, and    *)
(* its last result has what its truncation promises, for any texts,        *)
(* priorities, budgets and number of sections (context_builder.go).        *)
THEOREM ContextInvariant == ContextSpec => []ContextInv
<1>1. ContextInit => ContextInv
  <2> SUFFICES ASSUME ContextInit PROVE ContextInv
    OBVIOUS
  <2>1. <<>> \in Seq(Section) /\ DOMAIN <<>> = {}
    BY EmptySeq
  <2>. QED  BY <2>1, ContextAssumption DEF ContextInit, ContextInv, ContextTyped,
            TailDropKeepsFirst, HeadDropTight, ProportionalNear, Truncated
<1>. QED  BY <1>1, ContextStep, PTL DEF ContextSpec

(* tailDropTruncation (context_builder.go:183) stays within the budget and *)
(* keeps no section in place of one of higher priority.                    *)
THEOREM TailDropAlwaysKeepsFirst == ContextSpec => []TailDropKeepsFirst
<1>1. ContextInv => TailDropKeepsFirst
  BY DEF ContextInv
<1>. QED  BY <1>1, ContextInvariant, PTL

(* headDropTruncation (context_builder.go:200) drops no more than the      *)
(* excess, and keeps no section that still fitted in it.                   *)
THEOREM HeadDropAlwaysTight == ContextSpec => []HeadDropTight
<1>1. ContextInv => HeadDropTight
  BY DEF ContextInv
<1>. QED  BY <1>1, ContextInvariant, PTL

(* proportionalTruncation (context_builder.go:227) misses the budget by no *)
(* more than a token a section, however the products round.                *)
THEOREM ProportionalAlwaysNear == ContextSpec => []ProportionalNear
<1>1. ContextInv => ProportionalNear
  BY DEF ContextInv
<1>. QED  BY <1>1, ContextInvariant, PTL
=============================================================================
