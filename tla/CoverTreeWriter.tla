--------------------------- MODULE CoverTreeWriter ---------------------------
(***************************************************************************)
(* The life of a tree after it is built (CoverTreeWriter of                *)
(* goko/src/covertree/tree.rs, save_tree and load_tree of goko/src/utils): *)
(* plugins are attached a layer at a time while readers walk down from the *)
(* root, the tree is saved to a file, the process may die at any moment,   *)
(* also in the middle of a save, and the tree is loaded again.             *)
(***************************************************************************)
EXTENDS TreePlugins

CONSTANTS
  Dataset,   \* [nodes |-> address -> node, root, minRes, cloud]: clouds, and what build makes
  Walker     \* readers that walk the tree

VARIABLES
  dataset,      \* what the tree was built from, None before
  layers,       \* the layers, the lowest one first; <<>> when there is no writer
  final,        \* final_addresses
  treePlugins,  \* parameters.plugins
  adding,       \* the plugin being added and the layer that is next, or None
  walks,        \* per walker where it is and the plugins it has seen on the way
  file,         \* the file: the tree that was saved, the fields written; or None
  saving        \* the tree being saved, or None

treeVars == <<dataset, layers, final, treePlugins, adding>>
fileVars == <<file, saving>>

Alive == layers # <<>>

LargerOf(a, b) == IF a > b THEN a ELSE b
SmallerOf(a, b) == IF a < b THEN a ELSE b

Idle == Alive /\ adding = None /\ saving = None

-----------------------------------------------------------------------------
(* The tree.                                                               *)

InternalIndex(minRes, s) == IF s < minRes THEN 1 ELSE s - minRes + 2

LayerOf(minRes, na) == InternalIndex(minRes, ScaleIndex(na))

(* What build makes, as far as the tree in use relies on it: a tree below  *)
(* the root, of which children are on lower layers and cover no more, and  *)
(* no two nodes of a layer have the same center.                           *)
WellBuilt(d) ==
  LET layer(na) == LayerOf(d.minRes, na)
      below(na) == ToSet(ChildrenOf(d.nodes[na]))
  IN /\ d.minRes \in Int /\ DOMAIN d.nodes \subseteq Int /\ IsFiniteSet(DOMAIN d.nodes)
     /\ d.root \in DOMAIN d.nodes
     /\ \A na \in DOMAIN d.nodes :
          LET n == d.nodes[na]
          IN /\ n = NewNode(n.parent, na, n.radius, n.count, n.children, n.singletons)
             /\ n.count \in Nat /\ n.parent \in {None} \cup DOMAIN d.nodes
             /\ n.children = Leaf \/ n.children \in Seq(DOMAIN d.nodes)
             /\ \A c \in below(na) : layer(c) < layer(na) /\ d.nodes[c].count <= n.count
             /\ na # d.root =>
                  layer(na) < layer(d.root) /\ \E up \in DOMAIN d.nodes : na \in below(up)
     /\ \A a, b \in DOMAIN d.nodes :
          layer(a) = layer(b) /\ PointIndex(a) = PointIndex(b) => a = b

(* The points that have their final address at a node, and those that have *)
(* it at the node or below.                                                *)
FinalPoints(n) == n.singletons \cup (IF NodeIsLeaf(n) THEN {PointIndex(n.address)} ELSE {})

CoveredBy(d) ==
  LET covered[na \in DOMAIN d.nodes] ==
        FinalPoints(d.nodes[na]) \cup UNION {covered[c] : c \in ToSet(ChildrenOf(d.nodes[na]))}
  IN covered

(* No point is in two places, nodes count what they cover, and the points  *)
(* are in the cloud.                                                       *)
WellCounted(d) ==
  LET covered == CoveredBy(d)
  IN \A na \in DOMAIN d.nodes :
       LET n == d.nodes[na]
           kids == ChildrenOf(n)
       IN /\ IsFiniteSet(covered[na]) /\ n.count = Cardinality(covered[na])
          /\ NodeIsLeaf(n) => PointIndex(na) \notin n.singletons
          /\ \A i \in DOMAIN kids : FinalPoints(n) \cap covered[kids[i]] = {}
          /\ \A i, j \in DOMAIN kids : i # j => covered[kids[i]] \cap covered[kids[j]] = {}
          /\ \A p \in covered[na] : d.cloud.position[p] \in Int

ASSUME DatasetAssumption == \A d \in Dataset : WellBuilt(d) /\ WellCounted(d)

(* What get_node_and finds; above the top layer its index panics.          *)
Finds(ls, minRes, na) ==
  LayerOf(minRes, na) <= Len(ls) /\ HasNode(ls[LayerOf(minRes, na)], PointIndex(na))
ShownBy(ls, minRes, na) == ls[LayerOf(minRes, na)].shown[PointIndex(na)]

Addresses(ls) == UNION {{ls[i].shown[pi].address : pi \in DOMAIN ls[i].shown} : i \in DOMAIN ls}
Shown(ls, minRes) == [na \in Addresses(ls) |-> ShownBy(ls, minRes, na)]

(* build: what the builder makes of the cloud is in CoverTreeBuild; every  *)
(* layer is refreshed once.                                                *)
BuiltLayers(d) ==
  LET top == LayerOf(d.minRes, d.root)
      nodesOf(i) == {na \in DOMAIN d.nodes : LayerOf(d.minRes, na) = i}
      written(i) == [pi \in {PointIndex(na) : na \in nodesOf(i)} |->
                       d.nodes[CHOOSE na \in nodesOf(i) : PointIndex(na) = pi]]
  IN [i \in 1..top |-> RefreshLayer(InsertNodes(NewLayer(d.minRes + i - 2), written(i)))]

(* refresh_final_indexes: down from the root, every node has to be there.  *)
Visited(ls, minRes, root) ==
  LET found(nas) == {na \in nas : Finds(ls, minRes, na)}
      below(na) == ToSet(ChildrenOf(ShownBy(ls, minRes, na)))
      step[k \in 0..Len(ls)] ==
        IF k = 0 THEN {root} ELSE step[k-1] \cup UNION {below(na) : na \in found(step[k-1])}
  IN step[Len(ls)]

(* Mutant: a node that is not there is passed over. *)
FinalIndexesOfFound(ls, minRes, root) ==
  LET at(na) == ShownBy(ls, minRes, na)
      visited == {na \in Visited(ls, minRes, root) : Finds(ls, minRes, na)}
  IN [p \in UNION {FinalPoints(at(na)) : na \in visited} |->
        CHOOSE na \in visited : p \in FinalPoints(at(na))]

FinalIndexes(ls, minRes, root) ==
  LET visited == Visited(ls, minRes, root)
      at(na) == ShownBy(ls, minRes, na)
  IN IF \E na \in visited : ~Finds(ls, minRes, na) THEN Panic
     ELSE [p \in UNION {FinalPoints(at(na)) : na \in visited} |->
             CHOOSE na \in visited : p \in FinalPoints(at(na))]

-----------------------------------------------------------------------------
NoWalk == [at |-> None, seen |-> {}, missed |-> {}]

Init ==
  /\ dataset = None /\ layers = <<>> /\ final = <<>> /\ treePlugins = {} /\ adding = None
  /\ walks = [w \in Walker |-> NoWalk]
  /\ file = None /\ saving = None

(* The new writer replaces the old one; to the readers of that one its     *)
(* maps are destroyed.                                                     *)
Build(d) ==
  /\ adding = None /\ saving = None
  /\ dataset' = d
  /\ layers' = BuiltLayers(d)
  /\ final' = FinalIndexes(BuiltLayers(d), d.minRes, d.root)
  /\ treePlugins' = {}
  /\ walks' = [w \in Walker |-> NoWalk]
  /\ UNCHANGED <<adding, fileVars>>

-----------------------------------------------------------------------------
(* add_plugin.                                                             *)

BeginAddPlugin(kind) ==
  /\ Idle
  /\ adding' = [kind |-> kind, at |-> 1]
  /\ UNCHANGED <<dataset, layers, final, treePlugins, walks, fileVars>>

Components(i) ==
  LET shown == Shown(layers, dataset.minRes)
      nodes == layers[i].shown
  IN [pi \in DOMAIN nodes |-> NodeComponent(adding.kind, dataset.cloud, nodes[pi], shown)]

WithPlugins(layer, kind, components, pis) ==
  LET those == SetToSeq({pi \in pis : HasComponent(kind, layer.shown[pi])})
      add(l, pi) == AddOp(l, PluginOp(pi, kind, components[pi]))
  IN FoldLeft(add, layer, those)

(* Mutant: from the root down, as CoverTreeWriter::refresh goes. *)
PublishFromTop ==
  /\ adding # None /\ adding.at <= Len(layers)
  /\ LET i == Len(layers) + 1 - adding.at
         components == Components(i)
     IN /\ \A pi \in DOMAIN components : components[pi] # Panic
        /\ layers' = [layers EXCEPT ![i] =
                        RefreshLayer(WithPlugins(@, adding.kind, components, DOMAIN components))]
        /\ adding' = [adding EXCEPT !.at = @ + 1]
  /\ UNCHANGED <<dataset, final, treePlugins, walks, fileVars>>

(* One round of the loop: a component for every node of the layer, into    *)
(* the log, and the layer is refreshed.                                    *)
PublishLayer ==
  /\ adding # None /\ adding.at <= Len(layers)
  /\ LET i == adding.at
         components == Components(i)
     IN /\ \A pi \in DOMAIN components : components[pi] # Panic
        /\ layers' = [layers EXCEPT ![i] =
                        RefreshLayer(WithPlugins(@, adding.kind, components, DOMAIN components))]
        /\ adding' = [adding EXCEPT !.at = i + 1]
  /\ UNCHANGED <<dataset, final, treePlugins, walks, fileVars>>

InsertTreePlugin ==
  /\ adding # None /\ adding.at > Len(layers)
  /\ treePlugins' = treePlugins \cup {adding.kind}
  /\ adding' = None
  /\ UNCHANGED <<dataset, layers, final, walks, fileVars>>

(* A component panics: the nodes that came before it are in the log, the   *)
(* layer is not refreshed.                                                 *)
AddPluginPanics ==
  /\ adding # None /\ adding.at <= Len(layers)
  /\ LET i == adding.at
         components == Components(i)
         fails == {pi \in DOMAIN components : components[pi] = Panic}
     IN /\ fails # {}
        /\ \E before \in SUBSET (DOMAIN components \ fails) :
             layers' = [layers EXCEPT ![i] = WithPlugins(@, adding.kind, components, before)]
  /\ adding' = None
  /\ UNCHANGED <<dataset, final, treePlugins, walks, fileVars>>

-----------------------------------------------------------------------------
(* A reader walks from a node to one of its children, in its own time.     *)

PluginsAt(na) ==
  IF Finds(layers, dataset.minRes, na)
  THEN DOMAIN ShownBy(layers, dataset.minRes, na).plugins ELSE {}

GoTo(w, na) ==
  walks' = [walks EXCEPT ![w] = [at |-> na, seen |-> PluginsAt(na),
                                 missed |-> @.seen \ PluginsAt(na)]]

StartWalk(w) ==
  /\ Alive
  /\ walks[w].at = None
  /\ GoTo(w, dataset.root)
  /\ UNCHANGED <<treeVars, fileVars>>

StepWalk(w) ==
  /\ walks[w].at # None
  /\ \E na \in ToSet(ChildrenOf(ShownBy(layers, dataset.minRes, walks[w].at))) : GoTo(w, na)
  /\ UNCHANGED <<treeVars, fileVars>>

EndWalk(w) ==
  /\ walks[w].at # None
  /\ walks' = [walks EXCEPT ![w] = NoWalk]
  /\ UNCHANGED <<treeVars, fileVars>>

-----------------------------------------------------------------------------
(* save_tree, load_tree and the death of the process between them.         *)

(* CoreProto, with its fields in the order of the file: the parameters and *)
(* the root, the layers, the names of the points.                          *)
Proto ==
  [minRes |-> dataset.minRes, root |-> Pair(dataset.root), names |-> DOMAIN final,
   layers |-> [i \in DOMAIN layers |-> SavedLayer(layers[i])]]

Fields(proto) == 1 + Len(proto.layers) + 1

(* The old file is removed before the tree is encoded. *)
BeginSave ==
  /\ Idle
  /\ saving' = [of |-> dataset, proto |-> Proto]
  /\ file' = None
  /\ UNCHANGED <<treeVars, walks>>

(* torn: what was written ends within a field, wherever that is. *)
WriteFields ==
  /\ saving # None
  /\ \E n \in 0..Fields(saving.proto), torn \in BOOLEAN :
       /\ file # None => ~file.torn /\ (torn \/ n > file.written)
       /\ torn => n = 1
       /\ file' = [saved |-> saving, written |-> n, torn |-> torn]
  /\ UNCHANGED <<treeVars, walks, saving>>

EndSave ==
  /\ saving # None /\ file # None
  /\ file.written = Fields(saving.proto)
  /\ saving' = None
  /\ UNCHANGED <<treeVars, walks, file>>

Crash ==
  /\ Alive
  /\ layers' = <<>> /\ final' = <<>> /\ treePlugins' = {} /\ adding' = None
  /\ walks' = [w \in Walker |-> NoWalk]
  /\ saving' = None
  /\ UNCHANGED <<dataset, file>>

(* A field that is not there has its default: no layers, no names.  (Of a  *)
(* file cut before the layers only that it has none matters.)              *)
Decoded ==
  LET proto == file.saved.proto
      whole == LargerOf(0, SmallerOf(file.written - 1, Len(proto.layers)))
  IN [proto EXCEPT !.layers = SubSeq(@, 1, whole)]

LoadedLayers == [i \in DOMAIN Decoded.layers |-> LoadedLayer(Decoded.layers[i])]
LoadedRoot == FromOption(Decoded.root)

(* load, with the cloud the tree was built on; it panics when there is no  *)
(* file, when the file does not parse and when the walk for the final      *)
(* addresses does not find a node.                                         *)
Load ==
  /\ ~Alive /\ file # None
  /\ ~file.torn
  /\ LET found == FinalIndexes(LoadedLayers, Decoded.minRes, LoadedRoot)
     IN /\ found # Panic
        /\ final' = found
  /\ layers' = LoadedLayers
  /\ dataset' = file.saved.of
  /\ UNCHANGED <<treePlugins, adding, walks, fileVars>>

-----------------------------------------------------------------------------
(* Properties.                                                             *)

(* The tree is the one the builder made, but for the plugins, whatever     *)
(* refreshes, saves, crashes and loads lie between: every node is shown,   *)
(* the two copies of a layer have the same nodes once both were written,   *)
(* and every point has the final address that known_path starts from.      *)
TreeIsWhole ==
  Alive =>
    LET shown == Shown(layers, dataset.minRes)
    IN /\ DOMAIN shown = DOMAIN dataset.nodes
       /\ \A na \in DOMAIN shown : CloneNode(shown[na]) = dataset.nodes[na]
       /\ \A i \in DOMAIN layers :
            ~layers[i].second => DOMAIN layers[i].writing = DOMAIN layers[i].shown
       /\ DOMAIN final = UNION {FinalPoints(shown[na]) : na \in DOMAIN shown}
       /\ \A p \in DOMAIN final : p \in FinalPoints(shown[final[p]])

(* A reader that saw a plugin on a node sees it on every node below, even  *)
(* while plugins are being published: layers are published from below.     *)
WalksMissNothing == \A w \in Walker : walks[w].missed = {}

(* What the summary of the values of some points, and the moments of their *)
(* positions, have to be.                                                  *)
CountOf(values, points, v) == Cardinality({p \in points : ValueOf(values, p) = v})
SummaryOf(values, points) ==
  LET seen == {ValueOf(values, p) : p \in points} \ {NoLabel, LabelError}
  IN [summary |-> [v \in seen |-> CountOf(values, points, v)],
      nones |-> CountOf(values, points, NoLabel), errors |-> CountOf(values, points, LabelError)]
MomentsOf(position, points) ==
  [moment1 |-> SumFunction([p \in points |-> position[p]]),
   moment2 |-> SumFunction([p \in points |-> position[p] * position[p]]),
   count |-> Cardinality(points)]

Describes(component, kind, d, n) ==
  LET covered == CoveredBy(d)
      points == covered[n.address]
      weight(na) == IF na = SINGLETON THEN Cardinality(n.singletons) ELSE Cardinality(covered[na])
      branches == {SINGLETON} \cup ToSet(ChildrenOf(n))
  IN CASE kind = "labels" -> component = SummaryOf(d.cloud.labels, points)
       [] kind = "meta" -> component = SummaryOf(d.cloud.metadata, points)
       [] kind = "coverage" ->
            /\ component \in Seq(points)
            /\ ToSet(component) = points /\ Len(component) = Cardinality(points)
       [] kind = "dirichlet" -> component = [b \in branches |-> weight(b) + 1]
       [] kind = "categorical" ->
            component = [b \in branches |->
                           weight(b) + (IF b = SINGLETON /\ NodeIsLeaf(n) THEN 1 ELSE 0)]
       [] kind = "gaussian" -> component = MomentsOf(d.cloud.position, points)

(* Every component that is shown describes the whole subtree of its node,  *)
(* though it was made from what the children showed at the time, and once  *)
(* the tree has a plugin every node does (of the coverage, every node that *)
(* covers few enough points).                                              *)
PluginsDescribeSubtree ==
  Alive =>
    LET shown == Shown(layers, dataset.minRes)
    IN \A na \in DOMAIN shown :
         /\ \A kind \in DOMAIN shown[na].plugins :
              Describes(shown[na].plugins[kind], kind, dataset, shown[na])
         /\ \A kind \in treePlugins :
              kind \in DOMAIN shown[na].plugins
                \/ (kind = "coverage" /\ shown[na].count >= MaxCoverage)

(* No refresh takes a plugin from a node that showed it, though the second *)
(* refresh of a layer clones the nodes, and a clone has no plugins.  (A    *)
(* layer whose second refresh is to come has not shown any, or is one of a *)
(* new tree.)                                                              *)
KeepsPlugins ==
  \A i \in DOMAIN layers \cap DOMAIN layers' :
    ~layers[i].second /\ ~layers'[i].second =>
      \A pi \in DOMAIN layers[i].shown :
        DOMAIN layers[i].shown[pi].plugins \subseteq DOMAIN layers'[i].shown[pi].plugins
PluginsStay == [][KeepsPlugins]_<<treeVars, fileVars, walks>>
=============================================================================
