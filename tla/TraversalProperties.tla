-------------------------- MODULE TraversalProperties -------------------------
(***************************************************************************)
(* What a Traverse that shares the graph with others can promise.          *)
(***************************************************************************)
EXTENDS Traversal

(* The walks of k edges of G from Start to n. *)
Walks(G, n, k) ==
    {p \in [0..k -> GraphNodes] :
       p[0] = Start /\ p[k] = n /\ \A i \in 1..k : <<p[i - 1], p[i]>> \in G}

(* Neither order visits a node beyond maxDepth, or one that no path leads  *)
(* to: the depth of a visited node is the length of a walk in the graph as *)
(* it has become.                                                          *)
NothingTooFar ==
    \A n \in Visited : level[n] =< maxDepth /\ Walks(edges, n, level[n]) # {}

(* Breadth first finds what was within reach when the call began, at no    *)
(* greater depth, whatever edges are added while it walks.                 *)
BFSFindsAll ==
    walk = "done" /\ order = "bfs" /\ lost = {} =>
      \A k \in 0..maxDepth, n \in GraphNodes :
        Walks(known, n, k) # {} => n \in Visited /\ level[n] =< k

(* Depth first may visit a node deeper than need be and then miss those    *)
(* behind it, but not if maxDepth exceeds every simple path: then it too   *)
(* follows every edge there was when the call began.                       *)
DeepWalksAreComplete ==
    walk = "done" /\ lost = {} /\ maxDepth >= Cardinality(GraphNodes) - 1 =>
      /\ Start \in Visited
      /\ \A n \in Visited, m \in GraphNodes : <<n, m>> \in known => m \in Visited

(* The result is consistent: every edge it has leaves a node that was      *)
(* visited and was in the graph, and none of those that were is missing.   *)
EdgesOfVisited ==
    /\ \A e \in found : e \in edges /\ e[1] \in Visited
    /\ walk = "done" =>
         \A e \in known : e[1] \in Visited \ lost => e \in found
=============================================================================
