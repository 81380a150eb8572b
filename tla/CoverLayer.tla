----------------------------- MODULE CoverLayer -----------------------------
(***************************************************************************)
(* A layer of the tree (goko/src/covertree/layer.rs): a monomap from the   *)
(* index of the center to the node.  refresh is one step here: that what   *)
(* readers see of it is one step is shown in MonoMapProofs.  What is       *)
(* kept of the map is the two copies, the log and which refresh comes next,*)
(* because nodes are values whose clone forgets the plugins.               *)
(***************************************************************************)
EXTENDS NodeAddress, TLC

CONSTANTS
  Leaf,      \* the children of a node that has none: Option::None
  NoParent   \* what is saved for the parent of the root

ASSUME OptionAssumption ==
  /\ None \notin Int /\ None \notin Int \X Int
  /\ NoParent \notin Int \X Int /\ Leaf \notin Seq(Int) /\ Leaf \notin Seq(Int \X Int)

(* [address, parent, radius, count, children, singletons, plugins], with   *)
(* plugins a partial function from the kind of plugin to its component.    *)
NewNode(parent, address, radius, count, children, singletons) ==
  [address |-> address, parent |-> parent, radius |-> radius, count |-> count,
   children |-> children, singletons |-> singletons, plugins |-> <<>>]

NodeIsLeaf(n) == n.children = Leaf
ChildrenOf(n) == IF NodeIsLeaf(n) THEN <<>> ELSE n.children

(* The map f with v under the key x. *)
Put(f, x, v) == [y \in {x} \cup DOMAIN f |-> IF y = x THEN v ELSE f[y]]

CloneNode(n) == [n EXCEPT !.plugins = <<>>]
InsertPlugin(n, kind, component) == [n EXCEPT !.plugins = Put(@, kind, component)]

-----------------------------------------------------------------------------
NewLayer(s) ==
  [scale |-> s, shown |-> <<>>, writing |-> <<>>, log |-> <<>>, swap |-> 0,
   first |-> TRUE, second |-> FALSE]

InsertOp(pi, n) == [type |-> "insert", pi |-> pi, node |-> n]
PluginOp(pi, kind, component) ==
  [type |-> "update", pi |-> pi, kind |-> kind, component |-> component]

Apply(nodes, op) ==
  CASE op.type = "insert" -> Put(nodes, op.pi, op.node)
    [] op.type = "update" /\ op.pi \in DOMAIN nodes ->
         [nodes EXCEPT ![op.pi] = InsertPlugin(@, op.kind, op.component)]
    [] OTHER -> nodes

ApplyCloned(nodes, op) ==
  Apply(nodes, IF op.type = "insert" THEN [op EXCEPT !.node = CloneNode(@)] ELSE op)

(* insert_raw and update_node. *)
AddOp(layer, op) ==
  IF layer.first THEN [layer EXCEPT !.writing = Apply(@, op)]
  ELSE [layer EXCEPT !.log = Append(@, op)]

InsertNodes(layer, nodes) ==
  FoldLeft(LAMBDA l, pi : AddOp(l, InsertOp(pi, nodes[pi])), layer, SetToSeq(DOMAIN nodes))

(* Mutant: the operations that the other copy has had are dropped. *)
RefreshDropsApplied(layer) ==
  LET stale == IF layer.second THEN [pi \in DOMAIN layer.shown |-> CloneNode(layer.shown[pi])]
               ELSE layer.writing
      fresh == SubSeq(layer.log, layer.swap + 1, Len(layer.log))
  IN [layer EXCEPT !.shown = FoldLeft(ApplyCloned, stale, fresh), !.writing = layer.shown,
                   !.log = fresh, !.swap = Len(fresh),
                   !.second = layer.first, !.first = FALSE]

(* refresh: bring the copy behind up to date and show it.  The operations  *)
(* up to swap have been applied to the other copy before.                  *)
RefreshLayer(layer) ==
  LET stale == IF layer.second THEN [pi \in DOMAIN layer.shown |-> CloneNode(layer.shown[pi])]
               ELSE layer.writing
      twice == FoldLeft(Apply, stale, SubSeq(layer.log, 1, layer.swap))
      once  == SubSeq(layer.log, layer.swap + 1, Len(layer.log))
  IN [scale |-> layer.scale, shown |-> FoldLeft(ApplyCloned, twice, once),
      writing |-> layer.shown, log |-> once, swap |-> Len(once),
      first |-> FALSE, second |-> layer.first]

(* get_node_and finds a node. *)
HasNode(layer, pi) == pi \in DOMAIN layer.shown

-----------------------------------------------------------------------------
(* save and load: a node without its plugins and with its addresses       *)
(* unpacked, a layer with its nodes in any order.                          *)
Pair(na) == <<ScaleIndex(na), PointIndex(na)>>

SavedNode(n) ==
  [address |-> Pair(n.address), parent |-> IF n.parent = None THEN NoParent ELSE Pair(n.parent),
   radius |-> n.radius, count |-> n.count, singletons |-> n.singletons,
   children |-> IF NodeIsLeaf(n) THEN Leaf ELSE [i \in DOMAIN n.children |-> Pair(n.children[i])]]

LoadedNode(saved) ==
  NewNode(IF saved.parent = NoParent THEN None ELSE FromOption(saved.parent),
          FromOption(saved.address), saved.radius, saved.count,
          IF saved.children = Leaf THEN Leaf ELSE ToAddresses(saved.children), saved.singletons)

SavedLayer(layer) ==
  [scale |-> layer.scale, nodes |-> {SavedNode(layer.shown[pi]) : pi \in DOMAIN layer.shown}]

LoadedLayer(saved) ==
  LET nodes == [pi \in {n.address[2] : n \in saved.nodes} |->
                  LoadedNode(CHOOSE n \in saved.nodes : n.address[2] = pi)]
  IN RefreshLayer(RefreshLayer(InsertNodes(NewLayer(saved.scale), nodes)))
=============================================================================
