--------------------------- MODULE CoverTreeBuild ---------------------------
(***************************************************************************)
(* CoverTreeBuilder::build (goko/src/covertree/builders.rs, with the       *)
(* partitions of data_caches.rs).  Every BuilderNode is split by a task of *)
(* the rayon pool, which counts the children in the shared total_nodes,    *)
(* sends the finished node over an unbounded channel and only then spawns  *)
(* its children.  The building thread receives the nodes, inserts them     *)
(* with the final addresses of their points, and stops when it has         *)
(* inserted as many as total_nodes says there are.                         *)
(***************************************************************************)
EXTENDS CoverTree, FiniteSetsExt

CONSTANTS
  Settings,   \* the parameters a build may be given
  LastIndex,  \* the last reference index of the cloud
  SplitError, \* a GokoError in the channel
  MayFail     \* whether computing a distance may fail

ASSUME SettingsAssumption ==
  /\ Settings \subseteq Parameters
  /\ LastIndex \in Point
  /\ MayFail \in BOOLEAN

(* The channel carries Results: an Err is not an Ok. *)
ASSUME ErrorAssumption == SplitError \notin [addr: Address, node: Node]

(* Distances are symmetric, and a point is at none from itself. *)
ASSUME CloudAssumption ==
  \A ps \in Settings : \A p, q \in Point :
    Between(ps, p, p) = 0 /\ Between(ps, p, q) = Between(ps, q, p)

VARIABLES
  parameters,
  queued,   \* the BuilderNodes handed to the pool, not yet started
  running,  \* the tasks at work: what split returned, and how far they are
  total,    \* parameters.total_nodes
  channel,
  tree, final, inserted,
  pc        \* of the building thread; "failed": build has panicked or returned an error

vars == <<parameters, queued, running, total, channel, tree, final, inserted, pc>>

(* covered does not hold the center. *)
Builder == [parent: Address \cup {None}, scale: Int, center: Point, covered: SUBSET Point]

AddressOf(b) == <<b.scale, b.center>>
CoveredLen(b) == Cardinality(b.covered) + 1
PointsOf(b) == b.covered \cup {b.center}

(* uncounted: the fetch_adds to come; overcounted: the fetch_sub to come;  *)
(* kids: the new nodes not yet spawned.                                    *)
Task ==
  [addr: Address, node: Node, kids: Seq(Builder), uncounted: Nat, overcounted: BOOLEAN,
   sent: BOOLEAN]

-----------------------------------------------------------------------------
(* Scales.  The maximum over no distances is -inf, whose logarithm is NaN, *)
(* which is 0 as an i32; the logarithm of 0 is -inf, i32::MIN.             *)

NoRadius == -1
BelowAnyScale == -65

MaxDistance(ps, b) ==
  IF b.covered = {} THEN NoRadius ELSE Max({Between(ps, b.center, p) : p \in b.covered})

CeilLog(r) ==
  CASE r = NoRadius -> 0
    [] r = 0 -> BelowAnyScale
    [] r > 0 -> Min({s \in 0..r : Powi[s] >= r})

SmallerOf(x, y) == IF x < y THEN x ELSE y
LargerOf(x, y) == IF x > y THEN x ELSE y

(* Mutant: the next scale does not stop at the finest resolution. *)
NextScaleUnbounded(ps, b) == SmallerOf(b.scale - 1, CeilLog(MaxDistance(ps, b)))

NextScale(ps, b) ==
  SmallerOf(b.scale - 1, LargerOf(CeilLog(MaxDistance(ps, b)), ps.minRes))

Root(ps) ==
  LET b == [parent |-> None, scale |-> 0, center |-> LastIndex, covered |-> Point \ {LastIndex}]
  IN [b EXCEPT !.scale = CeilLog(MaxDistance(ps, b))]

(* What build panics on before anything runs: the assertion on the root's  *)
(* scale index, and a negative number of layers.                           *)
RootFits(ps) == Root(ps).scale \in -64..446 /\ Root(ps).scale >= ps.minRes

-----------------------------------------------------------------------------
(* Partitions of what a node covers.                                       *)

(* Mutant: a center may be a point that an earlier center covers.          *)
PickCoveredCenters(ps, b, s) ==
  LET far == {p \in b.covered : ~Within(Between(ps, b.center, p), s)}
  IN {cs \in UNION {[1..n -> far] : n \in 0..Cardinality(far)} :
        /\ \A j, k \in DOMAIN cs : j < k => cs[j] # cs[k]
        /\ \A p \in far : \E j \in DOMAIN cs : Within(Between(ps, cs[j], p), s)}

(* The orders in which the generator may pick centers: each is a point no  *)
(* earlier center covers, until every point is covered.                    *)
PickCenters(ps, b, s) ==
  LET far == {p \in b.covered : ~Within(Between(ps, b.center, p), s)}
  IN {cs \in UNION {[1..n -> far] : n \in 0..Cardinality(far)} :
        /\ \A j, k \in DOMAIN cs : j < k => ~Within(Between(ps, cs[j], cs[k]), s)
        /\ \A p \in far : \E j \in DOMAIN cs : Within(Between(ps, cs[j], p), s)}

(* Of the centers cs, the nested one first, the one a point is given to.   *)
FirstOwner(ps, cs, s, p) == Min({j \in DOMAIN cs : Within(Between(ps, cs[j], p), s)})

(* Mutant: ties between the nested center and another go to the nested one.*)
TiesToNested(ps, cs, p) ==
  LET others == 2..Len(cs)
      D(j) == Between(ps, cs[j], p)
  IN IF \A j \in others : D(1) <= D(j) THEN 1
     ELSE Min({j \in others : \A k \in others : D(j) <= D(k)})

AssignToNearest(ps, cs, p) ==
  LET others == 2..Len(cs)
      D(j) == Between(ps, cs[j], p)
  IN IF \A j \in others : D(1) < D(j) THEN 1
     ELSE Min({j \in others : \A k \in others : D(j) <= D(k)})

Part(ps, b, cs, s, j) ==
  {p \in b.covered \ {cs[j]} :
     j = (IF ps.first THEN FirstOwner(ps, cs, s, p) ELSE AssignToNearest(ps, cs, p))}

(* Mutant: the nested child is dropped whenever it covers its center only. *)
NestedIfNotAlone(ps, nested, inserts) ==
  ps.first \/ ~(nested.covered = {} /\ ps.singletons)

NestedIsKept(ps, nested, inserts) ==
  \/ ps.first
  \/ inserts # <<>>
  \/ ~(nested.covered = {} /\ ps.singletons)

-----------------------------------------------------------------------------
(* split.  A node that is small or fine enough keeps its points as         *)
(* singletons.  Otherwise every center becomes a child or, alone, a        *)
(* singleton; and an only child that covers only itself is undone.         *)

Undone(new) == Len(new) = 1 /\ new[1].covered = {}

(* Mutants: the fetch_add of the nested child is missing; the fetch_sub of *)
(* the only child that is undone is missing.                               *)
UncountedButNested(new) == Len(new) - (IF new = <<>> THEN 0 ELSE 1)
NeverOvercounted(new) == FALSE

Uncounted(new) == Len(new)
Overcounted(new) == Undone(new)

(* Mutants: the only child is undone but stays among the children; the     *)
(* center is counted again with the nested child.                          *)
ChildrenStay(new, nested, inserts) ==
  IF new = <<>> THEN <<>>
  ELSE <<AddressOf(nested)>> \o [j \in DOMAIN inserts |-> AddressOf(inserts[j])]

NestedCountsTwice(new, alone) ==
  1 + Cardinality(alone) + SumFunction([j \in DOMAIN new |-> CoveredLen(new[j])])

Children(new, nested, inserts) ==
  IF new = <<>> \/ Undone(new) THEN <<>>
  ELSE <<AddressOf(nested)>> \o [j \in DOMAIN inserts |-> AddressOf(inserts[j])]

(* coverage_count: 1 for the center, which the nested child covers too.    *)
CoverageCount(new, alone) ==
  Cardinality(alone)
    + (IF new = <<>> THEN 1 ELSE SumFunction([j \in DOMAIN new |-> CoveredLen(new[j])]))

(* What is left of a sequence, in the same order. *)
AllBut(seq, out) ==
  LET kept[i \in 0..Len(seq)] ==
        IF i = 0 THEN <<>>
        ELSE IF seq[i] \in out THEN kept[i - 1] ELSE Append(kept[i - 1], seq[i])
  IN kept[Len(seq)]

IsFine(ps, b) == CoveredLen(b) <= ps.cutoff \/ b.scale < ps.minRes

FineTask(ps, b) ==
  [addr |-> AddressOf(b), kids |-> <<>>, uncounted |-> 0, overcounted |-> FALSE, sent |-> FALSE,
   node |-> [parent |-> b.parent, radius |-> MaxDistance(ps, b), count |-> CoveredLen(b),
             children |-> <<>>, singletons |-> b.covered]]

ChildOf(ps, b, cs, s, j) ==
  [parent |-> AddressOf(b), scale |-> s, center |-> cs[j], covered |-> Part(ps, b, cs, s, j)]

DividedTask(ps, b, centers) ==
  LET s == NextScale(ps, b)
      cs == <<b.center>> \o centers
      child(j) == ChildOf(ps, b, cs, s, j)
      nested == child(1)
      alone == {j \in 2..Len(cs) : ps.singletons /\ child(j).covered = {}}
      kept == AllBut([j \in 1..Len(centers) |-> j + 1], alone)
      inserts == [j \in DOMAIN kept |-> child(kept[j])]
      new == IF ~NestedIsKept(ps, nested, inserts) THEN inserts
             ELSE IF ps.first THEN <<nested>> \o inserts ELSE Append(inserts, nested)
  IN [addr |-> AddressOf(b), kids |-> IF Undone(new) THEN <<>> ELSE new,
      uncounted |-> Uncounted(new), overcounted |-> Overcounted(new), sent |-> FALSE,
      node |-> [parent |-> b.parent, radius |-> MaxDistance(ps, b),
                count |-> CoverageCount(new, alone), children |-> Children(new, nested, inserts),
                singletons |-> {cs[j] : j \in alone}]]

-----------------------------------------------------------------------------
(* BuilderNode::new computes the distances from the root: when one fails,  *)
(* build returns its error, and the pool is never given the root.          *)
Init ==
  /\ parameters \in Settings
  /\ queued = {Root(parameters)}
  /\ running = {}
  /\ total = 1
  /\ channel = <<>>
  /\ tree = <<>>
  /\ final = [p \in Point |-> None]
  /\ inserted = 0
  /\ \/ pc = IF RootFits(parameters) THEN "receive" ELSE "failed"
     \/ MayFail /\ pc = "failed"

-----------------------------------------------------------------------------
(* The pool.                                                               *)

Split(b) ==
  /\ b \in queued
  /\ \/ /\ IsFine(parameters, b)
        /\ running' = running \cup {FineTask(parameters, b)}
     \/ /\ ~IsFine(parameters, b)
        /\ \E centers \in PickCenters(parameters, b, NextScale(parameters, b)) :
             running' = running \cup {DividedTask(parameters, b, centers)}
  /\ queued' = queued \ {b}
  /\ UNCHANGED <<parameters, total, channel, tree, final, inserted, pc>>

(* A distance cannot be computed: some of the children, under the First    *)
(* partition, have been counted by then.                                   *)
SplitFails(b) ==
  /\ MayFail
  /\ b \in queued /\ ~IsFine(parameters, b)
  /\ \E n \in (IF parameters.first THEN 1..CoveredLen(b) ELSE {0}) : total' = total + n
  /\ channel' = Append(channel, SplitError)
  /\ queued' = queued \ {b}
  /\ UNCHANGED <<parameters, running, tree, final, inserted, pc>>

Becomes(t, u) == running' = (running \ {t}) \cup (IF u.sent /\ u.kids = <<>> THEN {} ELSE {u})

Count(t) ==
  /\ t \in running /\ t.uncounted > 0
  /\ total' = total + 1
  /\ Becomes(t, [t EXCEPT !.uncounted = @ - 1])
  /\ UNCHANGED <<parameters, queued, channel, tree, final, inserted, pc>>

Uncount(t) ==
  /\ t \in running /\ t.uncounted = 0 /\ t.overcounted
  /\ total' = total - 1
  /\ Becomes(t, [t EXCEPT !.overcounted = FALSE])
  /\ UNCHANGED <<parameters, queued, channel, tree, final, inserted, pc>>

Send(t) ==
  /\ t \in running /\ t.uncounted = 0 /\ ~t.overcounted /\ ~t.sent
  /\ channel' = Append(channel, [addr |-> t.addr, node |-> t.node])
  /\ Becomes(t, [t EXCEPT !.sent = TRUE])
  /\ UNCHANGED <<parameters, queued, total, tree, final, inserted, pc>>

Spawn(t) ==
  /\ t \in running /\ t.sent
  /\ queued' = queued \cup {t.kids[Len(t.kids)]}
  /\ Becomes(t, [t EXCEPT !.kids = Front(@)])
  /\ UNCHANGED <<parameters, total, channel, tree, final, inserted, pc>>

-----------------------------------------------------------------------------
(* The building thread.                                                    *)

(* The points a node is the final address of. *)
Finals(addr, node) == node.singletons \cup (IF IsLeaf(node) THEN {Center(addr)} ELSE {})

Inserted(addr, node) == [a \in DOMAIN tree \cup {addr} |-> IF a = addr THEN node ELSE tree[a]]

(* Mutant: an error in the channel is skipped. *)
ReceiveSkipsErrors ==
  /\ pc = "receive" /\ channel # <<>>
  /\ LET m == Head(channel)
     IN IF m = SplitError
        THEN UNCHANGED <<tree, final, inserted, pc>>
        ELSE /\ tree' = Inserted(m.addr, m.node)
             /\ final' = [p \in Point |-> IF p \in Finals(m.addr, m.node) THEN m.addr ELSE final[p]]
             /\ inserted' = inserted + 1
             /\ pc' = "check"
  /\ channel' = Tail(channel)
  /\ UNCHANGED <<parameters, queued, running, total>>

Receive ==
  /\ pc = "receive" /\ channel # <<>>
  /\ LET m == Head(channel)
     IN IF m = SplitError
        THEN /\ pc' = "failed"
             /\ UNCHANGED <<tree, final, inserted>>
        ELSE /\ tree' = Inserted(m.addr, m.node)
             /\ final' = [p \in Point |-> IF p \in Finals(m.addr, m.node) THEN m.addr ELSE final[p]]
             /\ inserted' = inserted + 1
             /\ pc' = "check"
  /\ channel' = Tail(channel)
  /\ UNCHANGED <<parameters, queued, running, total>>

CheckCount ==
  /\ pc = "check"
  /\ pc' = IF inserted = total THEN "done" ELSE "receive"
  /\ UNCHANGED <<parameters, queued, running, total, channel, tree, final, inserted>>

(* build has returned, or its panic has taken the process down.            *)
Stopped == pc \in {"done", "failed"} /\ UNCHANGED vars

PoolNext ==
  /\ pc # "failed"
  /\ \/ \E b \in queued : Split(b) \/ SplitFails(b)
     \/ \E t \in running : Count(t) \/ Uncount(t) \/ Send(t) \/ Spawn(t)

BuilderNext == Receive \/ CheckCount

Next == PoolNext \/ BuilderNext \/ Stopped

Spec == Init /\ [][Next]_vars

(* The pool runs what is spawned, for no task blocks; the builder runs.    *)
FairSpec == Spec /\ WF_vars(PoolNext) /\ WF_vars(BuilderNext)

-----------------------------------------------------------------------------
(* Scales stay between that of the root and one below the finest           *)
(* resolution, which is what the vector of layers has room for.            *)
Layers == (parameters.minRes - 1)..Root(parameters).scale
InLayers(addr) == addr \in Layers \X Point

TypeOK ==
  /\ parameters \in Settings
  /\ pc \in {"receive", "check", "done", "failed"}
  /\ total \in Nat /\ inserted \in Nat
  /\ queued \subseteq Builder /\ running \subseteq Task
  /\ channel \in Seq([addr: Address, node: Node] \cup {SplitError})
  /\ tree \in [DOMAIN tree -> Node]
  /\ final \in [Point -> DOMAIN tree \cup {None}]
  /\ pc # "failed" =>
       \A addr \in DOMAIN tree \cup {AddressOf(b) : b \in queued} : InLayers(addr)

Failed == pc = "failed" \/ SplitError \in ToSet(channel)

(* total_nodes is the number of nodes that have been inserted, wait in the *)
(* channel, or are still to be split or sent: a task counts the children   *)
(* it is going to spawn before the building thread can hear of its node.   *)
Unfinished(t) ==
  (IF t.sent THEN 0 ELSE 1) + Len(t.kids) - t.uncounted + (IF t.overcounted THEN 1 ELSE 0)

Outstanding(tasks) == SumFunctionOnSet([t \in tasks |-> Unfinished(t)], tasks)

Accounting ==
  ~Failed => total = inserted + Len(channel) + Cardinality(queued) + Outstanding(running)

(* At any time every point is in exactly one place: to be partitioned      *)
(* further, in a node on its way to the tree, or at its final address.     *)
PlacesOf(p) ==
  LET waiting == queued \cup UNION {ToSet(t.kids) : t \in running}
      onTheWay == {[addr |-> t.addr, node |-> t.node] : t \in {u \in running : ~u.sent}}
                    \cup ToSet(channel)
  IN {b \in waiting : p \in PointsOf(b)}
       \cup {m \in onTheWay : p \in Finals(m.addr, m.node)}
       \cup ({final[p]} \ {None})

EveryPointOnce == ~Failed => \A p \in Point : Cardinality(PlacesOf(p)) = 1

(* The finished tree hangs together: what no_dangling_refs asks, nothing   *)
(* unreachable, and children that agree with their parents.                *)
TreeIsConnected ==
  pc = "done" =>
    /\ NoDanglingRefs(tree, AddressOf(Root(parameters)))
    /\ DOMAIN tree \subseteq Reachable(tree, AddressOf(Root(parameters)))
    /\ \A a \in DOMAIN tree : \A c \in ToSet(tree[a].children) :
         tree[c].parent = a /\ Scale(c) < Scale(a)

(* The invariants of a cover tree: a point is within the scale of every    *)
(* node on its path (the root may be exactly at it), and the centers that  *)
(* one node hands its points to are not within the scale of one another.   *)
CoveringAndSeparation ==
  pc = "done" =>
    /\ \A p \in Point : \A a \in ToSet(KnownPath(tree, final, p)) :
         LET d == Between(parameters, Center(a), p)
         IN Within(d, Scale(a)) \/ (tree[a].parent = None /\ d = Powi[Scale(a)])
    /\ \A a \in DOMAIN tree : ~IsLeaf(tree[a]) =>
         LET kids == ToSet(tree[a].children)
             s == Scale(tree[a].children[1])
         IN \A p, q \in {Center(c) : c \in kids} \cup tree[a].singletons :
              p # q => ~Within(Between(parameters, p, q), s)

(* coverage_count is the number of points whose path leads through a node. *)
CountsAreExact ==
  pc = "done" =>
    \A a \in DOMAIN tree :
      tree[a].count = Cardinality({p \in Point : a \in ToSet(KnownPath(tree, final, p))})

(* A point of the cloud is found where it was put: the walk down by        *)
(* distance and the walk up from its final address give the same path.     *)
PathIsKnownPath ==
  pc = "done" =>
    \A p \in Point :
      Path(parameters, tree, AddressOf(Root(parameters)), p) = KnownPath(tree, final, p)

(* build returns or panics: it does not wait for nodes that never come.    *)
BuildEnds == <>(pc \in {"done", "failed"})

(* A node that could not be split is never glossed over: build panics.     *)
FailurePanics == (SplitError \in ToSet(channel)) ~> (pc = "failed")
=============================================================================
