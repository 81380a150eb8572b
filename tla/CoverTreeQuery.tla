--------------------------- MODULE CoverTreeQuery ---------------------------
(***************************************************************************)
(* knn and routing_knn over the tree that build has returned               *)
(* (goko/src/covertree/tree.rs, node.rs, query_tools/knn_query_heap.rs).   *)
(* A KnnQueryHeap holds the nodes whose children are still to be looked    *)
(* at, those whose singletons are, and the k nearest points so far.        *)
(***************************************************************************)
EXTENDS CoverTreeBuild

CONSTANTS
  Ks,        \* how many neighbours a query may ask for
  Farthest   \* the largest distance of a query from a point

(* Scales from -1 up keep all distances whole in units of 1 / Base. *)
ASSUME QueryAssumption ==
  /\ Ks \subseteq Nat \ {0}
  /\ Farthest \in Nat
  /\ \A ps \in Settings : ps.minRes >= 0

VARIABLES
  query,      \* the point, by its distances to the cloud, and k; or None
  childHeap, singletonHeap,
  estMinDist, \* est_min_dist
  known,      \* known_indexes
  nearest,    \* dist_heap
  at          \* where the search is

heapVars == <<childHeap, singletonHeap, estMinDist, known, nearest>>
queryVars == <<query, heapVars, at>>

(* Any point that the triangle inequality allows. *)
Query ==
  {q \in [dist: [Point -> 0..Farthest], k: Ks, routing: BOOLEAN] :
     \A x, y \in Point : LET d == Between(parameters, x, y)
                         IN d <= q.dist[x] + q.dist[y] /\ q.dist[x] <= d + q.dist[y]}

(* A node in a heap has an address, its distance, and min, the least       *)
(* distance of a point below it (QueryAddress).  Heaps are sets, popped in *)
(* the order of QueryAddress.                                              *)

Before(m, n) ==
  \/ m.min < n.min
  \/ m.min = n.min /\ Scale(m.address) < Scale(n.address)
  \/ m.min = n.min /\ Scale(m.address) = Scale(n.address) /\ m.dist < n.dist

Closest(heap) == {n \in heap : \A m \in heap : ~Before(m, n)}

-----------------------------------------------------------------------------
(* The heap.  Distances are in units of 1 / Base. *)

Infinite == Base * (Farthest + 1)
Dist(p) == Base * query.dist[p]

MaxDist(points) ==
  IF Cardinality(points) < query.k THEN Infinite ELSE Max({Dist(p) : p \in points})

(* The heap keeps the k nearest; nothing depends on which of several       *)
(* points at the same distance it keeps.                                   *)
Nearest(points) ==
  CHOOSE S \in SUBSET points :
    /\ Cardinality(S) = SmallerOf(query.k, Cardinality(points))
    /\ \A p \in S, r \in points \ S : Dist(p) <= Dist(r)

(* Mutant: the points of a node are taken to be as far as its center. *)
MinDistOfCenter(a) == Dist(Center(a))

MinDist(a) == LargerOf(Dist(Center(a)) - Powi[Scale(a) + 1], 0)

(* push_nodes, over the fields of the heap that it changes.  max_dist is   *)
(* read at the start, and again only when a point has left the heap.       *)
PushNode(h, a) ==
  LET p == Center(a)
      pops == p \notin h.known /\ Cardinality(h.nearest) = query.k /\ Dist(p) <= MaxDist(h.nearest)
      new == IF p \in h.known THEN h.nearest ELSE Nearest(h.nearest \cup {p})
  IN [children |-> IF MinDist(a) < h.max
                   THEN h.children \cup {[address |-> a, dist |-> Dist(p), min |-> MinDist(a)]}
                   ELSE h.children,
      known |-> h.known \cup {p}, nearest |-> new,
      max |-> IF pops THEN MaxDist(new) ELSE h.max]

PushNodes(children, knownPoints, points, addresses) ==
  FoldLeft(PushNode,
           [children |-> children, known |-> knownPoints, nearest |-> points, max |-> MaxDist(points)],
           addresses)

(* increase_estimated_distance of the parent: by the farthest of the       *)
(* children, the nested one left out.                                      *)
Increased(est, a, addresses) ==
  LET update == Max({MinDist(c) : c \in ToSet(addresses)} \cup {0})
      old == IF a \in DOMAIN est THEN est[a] ELSE 0
  IN (a :> LargerOf(old, update)) @@ est

Without(est, a) == [b \in DOMAIN est \ {a} |-> est[b]]

(* Whether a node that is popped has to go back, farther than it was.      *)
IsFarther(n) == n.address \in DOMAIN estMinDist /\ estMinDist[n.address] > n.min
Farther(n) == [n EXCEPT !.min = estMinDist[n.address]]

-----------------------------------------------------------------------------
QInit ==
  /\ Init
  /\ query = None
  /\ childHeap = {} /\ singletonHeap = {} /\ estMinDist = <<>> /\ known = {} /\ nearest = {}
  /\ at = "start"

(* The query comes. *)
Ask ==
  /\ pc = "done" /\ at = "start"
  /\ query' \in Query
  /\ at' = "root"
  /\ UNCHANGED heapVars

(* The root is pushed; routing_knn runs greedy_knn_nodes once before its   *)
(* loop.                                                                   *)
PushRoot ==
  /\ at = "root"
  /\ LET h == PushNodes(childHeap, known, nearest, <<AddressOf(Root(parameters))>>)
     IN childHeap' = h.children /\ known' = h.known /\ nearest' = h.nearest
  /\ at' = IF query.routing THEN "again" ELSE "greedy"
  /\ UNCHANGED <<query, singletonHeap, estMinDist>>

(* greedy_knn_nodes returns; "again" if it did something. *)
AfterGreedy ==
  IF ~query.routing THEN "singletons" ELSE IF at = "again" THEN "greedy" ELSE "answered"

(* child_knn: the nested child first, then the others in a batch. *)
ChildKnn(heap, kids) ==
  LET nested == PushNodes(heap, known, nearest, <<kids[1]>>)
  IN PushNodes(nested.children, nested.known, nested.nearest, Tail(kids))

(* closest_unvisited_child_covering_address, and child_knn. *)
Greedy ==
  /\ at \in {"greedy", "again"}
  /\ childHeap = {} => at' = AfterGreedy /\ UNCHANGED heapVars
  /\ childHeap # {} => \E n \in Closest(childHeap) :
       LET rest == childHeap \ {n}
           kids == tree[n.address].children
           pushed == ChildKnn(rest, kids)
       IN \/ /\ IsFarther(n)
             /\ childHeap' = rest \cup {Farther(n)}
             /\ estMinDist' = Without(estMinDist, n.address)
             /\ UNCHANGED <<singletonHeap, known, nearest, at>>
          \/ /\ ~IsFarther(n) /\ IsLeaf(tree[n.address])
             /\ childHeap' = rest /\ singletonHeap' = singletonHeap \cup {n}
             /\ estMinDist' = Without(estMinDist, n.address)
             /\ at' = AfterGreedy
             /\ UNCHANGED <<known, nearest>>
          \/ /\ ~IsFarther(n) /\ ~IsLeaf(tree[n.address])
             /\ childHeap' = pushed.children /\ singletonHeap' = singletonHeap \cup {n}
             /\ known' = pushed.known /\ nearest' = pushed.nearest
             /\ estMinDist' = Increased(Without(estMinDist, n.address), n.address, Tail(kids))
             /\ at' = IF query.routing THEN "again" ELSE "greedy"
  /\ UNCHANGED query

(* Mutant: a node that is estimated to be too far is dropped. *)
DropByEstimate ==
  /\ at = "singletons" /\ singletonHeap # {}
  /\ \E n \in Closest(singletonHeap) :
       LET far == IsFarther(n) /\ Farther(n).min >= MaxDist(nearest)
           new == IF far THEN {} ELSE tree[n.address].singletons \ known
       IN /\ singletonHeap' = singletonHeap \ {n}
          /\ known' = known \cup new
          /\ nearest' = Nearest(nearest \cup new)
          /\ estMinDist' = Without(estMinDist, n.address)
          /\ at' = "greedy"
  /\ UNCHANGED <<query, childHeap>>

(* closest_unvisited_singleton_covering_address, and singleton_knn. *)
Singletons ==
  /\ at = "singletons" /\ singletonHeap # {}
  /\ \E n \in Closest(singletonHeap) :
       LET rest == singletonHeap \ {n}
           new == tree[n.address].singletons \ known
       IN \/ /\ IsFarther(n)
             /\ singletonHeap' = rest \cup {Farther(n)}
             /\ UNCHANGED <<known, nearest, at>>
          \/ /\ ~IsFarther(n)
             /\ singletonHeap' = rest
             /\ known' = known \cup new /\ nearest' = Nearest(nearest \cup new)
             /\ at' = "greedy"
  /\ \E n \in singletonHeap \ singletonHeap' : estMinDist' = Without(estMinDist, n.address)
  /\ UNCHANGED <<query, childHeap>>

Unpack ==
  /\ at = "singletons" /\ singletonHeap = {}
  /\ at' = "answered"
  /\ UNCHANGED <<query, heapVars>>

QNext ==
  \/ Next /\ UNCHANGED queryVars
  \/ (Ask \/ PushRoot \/ Greedy \/ Singletons \/ Unpack) /\ UNCHANGED vars

QSpec == QInit /\ [][QNext]_<<vars, queryVars>>

-----------------------------------------------------------------------------
(* A point the search has not met is below a node whose children it is     *)
(* still to look at, or a singleton of one whose singletons it is, or no   *)
(* nearer than the k points it has: pruning by estimates loses nothing.    *)
NothingOverlooked ==
  at \in {"greedy", "singletons", "answered"} /\ ~query.routing =>
    \A p \in Point \ known :
      \/ \E n \in childHeap : n.address \in ToSet(KnownPath(tree, final, p))
      \/ \E n \in singletonHeap : p \in tree[n.address].singletons
      \/ Dist(p) >= MaxDist(nearest)

AreNearestOf(points, all) ==
  /\ points \subseteq all
  /\ Cardinality(points) = SmallerOf(query.k, Cardinality(all))
  /\ \A p \in points, r \in all \ points : query.dist[p] <= query.dist[r]

(* knn answers with the k nearest points of the cloud, wherever the query  *)
(* is, whatever the tree, and however the heaps break their ties.          *)
KnnIsExact == at = "answered" /\ ~query.routing => AreNearestOf(nearest, Point)

(* The documentation of routing_knn: the same as knn, for the points that  *)
(* are not singletons.                                                     *)
RoutingKnnIsExact ==
  at = "answered" /\ query.routing => AreNearestOf(nearest, {Center(a) : a \in DOMAIN tree})
=============================================================================
