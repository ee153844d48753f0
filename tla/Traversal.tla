------------------------------ MODULE Traversal -------------------------------
(***************************************************************************)
(* Traverse of client.go: one call walks the graph overlay from a start    *)
(* node, with a Get and a Scan per node, while others add edges.  There is *)
(* no snapshot, and a request that fails is skipped without a word.        *)
(*                                                                         *)
(* Properties and types of nodes and edges are left out; two edges that    *)
(* differ in type only are one.                                            *)
(***************************************************************************)
EXTENDS Naturals, Sequences, FiniteSets

CONSTANTS
    GraphNodes,
    Start,
    StoredNodes,   \* those added by AddNode; edges may lead to others
    Links,         \* the edges there can be
    MaxDepths,
    MaxEvents      \* bound on edges added and requests that fail

ASSUME TraversalAssumption ==
    /\ IsFiniteSet(GraphNodes) /\ Start \in GraphNodes
    /\ StoredNodes \subseteq GraphNodes /\ Links \subseteq GraphNodes \X GraphNodes
    /\ MaxDepths \subseteq Nat /\ MaxEvents \in Nat

Orders == {"bfs", "dfs"}

VARIABLES
    edges,       \* the graph at the server
    order, maxDepth, walk,   \* the call, and the request it is about to make
    frontier, current,
    level,       \* visited; history: at which depth
    nodes, found,            \* the result: nodes and edges
    known,       \* history: the edges when the call began
    lost,        \* history: the nodes whose edges could not be read
    events

traversalVars == <<edges, order, maxDepth, walk, frontier, current, level,
                   nodes, found, known, lost, events>>

Item == [node : GraphNodes, depth : Nat]

At(n, d) == [node |-> n, depth |-> d]

Visited == DOMAIN level

(* The targets of the edges of n. *)
Targets(n) == {m \in GraphNodes : <<n, m>> \in edges}

(* The sequences in which a Scan can return a set: by key, that is by type *)
(* and name.                                                               *)
Listings(S) ==
    {s \in [1..Cardinality(S) -> S] : \A x \in S : \E i \in DOMAIN s : s[i] = x}

TraversalInit ==
    /\ edges \in SUBSET Links /\ known = edges
    /\ order \in Orders /\ maxDepth \in MaxDepths
    /\ walk = "pop" /\ frontier = <<At(Start, 0)>> /\ current = At(Start, 0)
    /\ level = [n \in {} |-> 0]
    /\ nodes = {} /\ found = {} /\ lost = {} /\ events = 0

-----------------------------------------------------------------------------
(* Mutant: both orders take the newest item. *)
NeverFirst == FALSE

TakesFirst == order = "bfs"

NextItem == IF TakesFirst THEN Head(frontier) ELSE frontier[Len(frontier)]

Rest ==
    IF TakesFirst THEN Tail(frontier) ELSE SubSeq(frontier, 1, Len(frontier) - 1)

(* Mutant: the last level is left out. *)
VisitsAbove(item) == item.depth < maxDepth /\ item.node \notin Visited

(* Mutant: the depth is not looked at before the node is visited. *)
VisitsAnyDepth(item) == item.node \notin Visited

Visits(item) == item.depth =< maxDepth /\ item.node \notin Visited

Pop ==
    /\ walk = "pop" /\ frontier # <<>>
    /\ frontier' = Rest
    /\ LET item == NextItem
       IN  IF Visits(item)
           THEN /\ current' = item /\ walk' = "get"
                /\ level' = [n \in Visited \cup {item.node} |->
                               IF n = item.node THEN item.depth ELSE level[n]]
           ELSE UNCHANGED <<current, walk, level>>
    /\ UNCHANGED <<edges, order, maxDepth, nodes, found, known, lost, events>>

GetNode ==
    /\ walk = "get" /\ walk' = "scan"
    /\ nodes' = nodes \cup ({current.node} \cap StoredNodes)
    /\ UNCHANGED <<edges, order, maxDepth, frontier, current, level, found,
                   known, lost, events>>

GetNodeFails ==
    /\ walk = "get" /\ walk' = "scan"
    /\ events < MaxEvents /\ events' = events + 1
    /\ UNCHANGED <<edges, order, maxDepth, frontier, current, level, nodes,
                   found, known, lost>>

ScanEdges ==
    /\ walk = "scan" /\ walk' = "pop"
    /\ found' = found \cup {<<current.node, m>> : m \in Targets(current.node)}
    /\ \E s \in Listings(Targets(current.node) \ Visited) :
         frontier' = frontier \o
           [i \in 1..Len(s) |-> At(s[i], current.depth + 1)]
    /\ UNCHANGED <<edges, order, maxDepth, current, level, nodes, known, lost,
                   events>>

ScanEdgesFails ==
    /\ walk = "scan" /\ walk' = "pop"
    /\ events < MaxEvents /\ events' = events + 1
    /\ lost' = lost \cup {current.node}
    /\ UNCHANGED <<edges, order, maxDepth, frontier, current, level, nodes,
                   found, known>>

TraverseReturns ==
    /\ walk = "pop" /\ frontier = <<>> /\ walk' = "done"
    /\ UNCHANGED <<edges, order, maxDepth, frontier, current, level, nodes,
                   found, known, lost, events>>

(* Another client adds an edge. *)
AddEdge(e) ==
    /\ e \notin edges /\ walk # "done"
    /\ events < MaxEvents /\ events' = events + 1
    /\ edges' = edges \cup {e}
    /\ UNCHANGED <<order, maxDepth, walk, frontier, current, level, nodes,
                   found, known, lost>>

TraversalNext ==
    \/ Pop \/ GetNode \/ GetNodeFails \/ ScanEdges \/ ScanEdgesFails
    \/ TraverseReturns
    \/ \E e \in Links : AddEdge(e)

TraversalSpec == TraversalInit /\ [][TraversalNext]_traversalVars
=============================================================================
