------------------------------- MODULE Tracker -------------------------------
(***************************************************************************)
(* The tracker of a sequence of queries (goko/src/plugins/discrete/tracker)*)
(* as data.  A query leaves a path, from the root of the cover tree to the *)
(* node it belongs to.  A BayesCovertree counts, at every node, which      *)
(* child the paths go on to, and forgets the oldest path when it has more  *)
(* than its window holds; what it derives from the counts (posteriors,     *)
(* divergences) is left out.                                               *)
(***************************************************************************)
EXTENDS Integers, Sequences, FiniteSets, SequencesExt

CONSTANTS
  TreeNode,   \* the addresses of nodes, the tree's and those a client may name
  TreeRoot,
  Singleton,  \* NodeAddress::SINGLETON, the bucket of the paths that end
  Prior,      \* the buckets of the nodes' Dirichlet plugins
  Paths       \* the paths a query may leave

(* One bucket per child of a node, and one for the paths that end there.   *)
Bucket == TreeNode \X (TreeNode \cup {Singleton})

(* A path descends, so that it passes no node twice. *)
ASSUME PathsAssumption ==
  /\ IsFiniteSet(TreeNode) /\ Singleton \notin TreeNode
  /\ Prior \subseteq Bucket
  /\ Paths \subseteq Seq(TreeNode)
  /\ \A p \in Paths : Len(p) >= 1 /\ p[1] = TreeRoot /\ \A j, k \in 1..Len(p) : p[j] = p[k] => j = k

BayesCovertree ==
  [observations: [Bucket -> Nat], total: [TreeNode -> Int],  \* node_trackers
   overall: [TreeNode -> Nat], overallTotal: Int,            \* overall_tracker
   queue: Seq(Paths), count: Nat, window: Nat]

NewTracker(w) ==
  [observations |-> [b \in Bucket |-> 0], total |-> [n \in TreeNode |-> 0],
   overall |-> [n \in TreeNode |-> 0], overallTotal |-> 0,
   queue |-> <<>>, count |-> 0, window |-> w]

(* The buckets a path is counted in. *)
StepsOf(p) == {<<p[j], IF j < Len(p) THEN p[j+1] ELSE Singleton>> : j \in 1..Len(p)}

(* Only what has a prior can be counted: no node without a plugin, and no  *)
(* step that is none of the tree.                                          *)
Panics(p) == ~(StepsOf(p) \subseteq Prior)

(* inc_observation: a count never goes below zero, the total might. *)
Inc(n, change) == IF n + change > 0 THEN n + change ELSE 0

(* Mutant: where the path ends is not taken back. *)
TraceKeepsEnds(t, p, change) ==
  [t EXCEPT
     !.observations = [b \in Bucket |->
                         IF b \in StepsOf(p) /\ (change > 0 \/ b[2] # Singleton)
                         THEN Inc(t.observations[b], change) ELSE t.observations[b]],
     !.total = [n \in TreeNode |->
                  IF \E j \in 1..Len(p) : p[j] = n THEN t.total[n] + change ELSE t.total[n]],
     !.overall = [n \in TreeNode |->
                    IF n = p[Len(p)] THEN Inc(t.overall[n], change) ELSE t.overall[n]],
     !.overallTotal = @ + change]

(* add_trace (change = 1) and remove_trace (change = -1). *)
Trace(t, p, change) ==
  [t EXCEPT
     !.observations = [b \in Bucket |->
                         IF b \in StepsOf(p) THEN Inc(t.observations[b], change) ELSE t.observations[b]],
     !.total = [n \in TreeNode |->
                  IF \E j \in 1..Len(p) : p[j] = n THEN t.total[n] + change ELSE t.total[n]],
     !.overall = [n \in TreeNode |->
                    IF n = p[Len(p)] THEN Inc(t.overall[n], change) ELSE t.overall[n]],
     !.overallTotal = @ + change]

(* Mutant: the path that leaves the queue is the oldest, the one taken     *)
(* back is the newest.                                                     *)
AddPathTakesNewestBack(t, p) ==
  LET added == [Trace(t, p, 1) EXCEPT !.count = @ + 1]
      queue == Append(t.queue, p)
  IN IF t.window = 0 THEN added
     ELSE IF Len(queue) > t.window THEN Trace([added EXCEPT !.queue = Tail(queue)], p, -1)
     ELSE [added EXCEPT !.queue = queue]

AddPath(t, p) ==
  LET added == [Trace(t, p, 1) EXCEPT !.count = @ + 1]
      queue == Append(t.queue, p)
  IN IF t.window = 0 THEN added
     ELSE IF Len(queue) > t.window
          THEN Trace([added EXCEPT !.queue = Tail(queue)], Head(queue), -1)
          ELSE [added EXCEPT !.queue = queue]

CloneNewWindow(t, w) == [t EXCEPT !.window = w]

SequenceLen(t) == IF t.queue = <<>> THEN t.count ELSE Len(t.queue)
=============================================================================
