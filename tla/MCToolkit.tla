------------------------------- MODULE MCToolkit -------------------------------
(***************************************************************************)
(* Instances of Traversal, ContextBuilder and SemanticCache small enough   *)
(* for TLC.  The three share nothing; one run checks them all: in each of  *)
(* its behaviours one part moves and the others stay as they began.        *)
(***************************************************************************)
EXTENDS TraversalProperties, ContextProperties, CacheProperties, TLC

CONSTANTS n1, n2, n3, n4, a1, a2, h1, h2, k1, k2

VARIABLE part

toolkitVars == <<part, traversalVars, contextVars, cacheVars>>

(* No edge leads back to n1, where the call starts, nor to its own node:   *)
(* such an edge is followed to a node that has been visited.               *)
MCLinks == {<<m, n>> \in GraphNodes \X GraphNodes : m # n /\ n # n1}

MCSymmetry ==
    Permutations({n2, n3}) \cup Permutations({a1, a2}) \cup
    Permutations({h1, h2}) \cup Permutations({k1, k2})

Init ==
    /\ TraversalInit /\ ContextInit /\ CacheInit
    /\ part \in {"traverse", "context", "cache"}
    /\ part # "traverse" => edges = {} /\ order = "bfs" /\ maxDepth = 1
    /\ part # "cache" => ~spare /\ \E h \in Handles : handleOf = [a \in Actors |-> h]

(* Where the bounds, or the end of the call, leave nothing to do. *)
Over ==
    \/ part = "traverse" /\ walk = "done"
    \/ /\ part = "cache" /\ calls = MaxCalls /\ clock = MaxClock
       /\ \A a \in Actors : phase[a] \in AtRest

Next ==
    \/ /\ part = "traverse" /\ TraversalNext
       /\ UNCHANGED <<part, contextVars, cacheVars>>
    \/ /\ part = "context" /\ ContextNext
       /\ UNCHANGED <<part, traversalVars, cacheVars>>
    \/ /\ part = "cache" /\ CacheNext
       /\ UNCHANGED <<part, traversalVars, contextVars>>
    \/ Over /\ UNCHANGED toolkitVars

Spec == Init /\ [][Next]_toolkitVars
=============================================================================
