----------------------------- MODULE PyCoverTree -----------------------------
(***************************************************************************)
(* The two programs that drive a tree: one that uses the library itself,   *)
(* and one that uses the Python object (pygoko/src), which owns the        *)
(* builder, the cloud that a yaml file named and, once fitted, the writer. *)
(* A panic is an exception in Python: the object lives on as it was left.  *)
(* The parameters of the builder are part of the dataset.                  *)
(***************************************************************************)
EXTENDS CoverTreeWriter

CONSTANTS
  Program,   \* bound: the plugins that a program in Rust adds to a tree, in order
  BulkChunk  \* the queries of one thread, 100 in the code

ASSUME ProgramAssumption == Program \subseteq Seq(Kinds)

VARIABLES
  object,   \* [python |-> which program, builder |-> it has one, temp |-> the cloud or None,
            \*  plugins |-> the plugins it adds to a tree]
  pending   \* those it has still to add

pyVars == <<object, pending>>
vars == <<treeVars, fileVars, walks, pyVars>>

-----------------------------------------------------------------------------
(* Bulk queries (goko/src/query_interface): the queries are cut in chunks, *)
(* each for one thread with a clone of the reader, and what the chunks     *)
(* give is put together again.  A panic in a thread is one of the caller.  *)

Chunks(queries) ==
  LET last(i) == IF i * BulkChunk < Len(queries) THEN i * BulkChunk ELSE Len(queries)
  IN [i \in 1..((Len(queries) + BulkChunk - 1) \div BulkChunk) |->
        SubSeq(queries, (i - 1) * BulkChunk + 1, last(i))]

(* Nothing can be reduced to nothing: without a query the unwrap fails.    *)
(* answers: what the reader answers each query.                            *)
MapWithReader(queries, answers) ==
  LET answer(chunk) == [j \in DOMAIN chunk |-> answers[chunk[j]]]
      chunked == [i \in DOMAIN Chunks(queries) |-> answer(Chunks(queries)[i])]
      all == FlattenSeq(chunked)
  IN IF chunked = <<>> \/ \E i \in DOMAIN all : all[i] = Panic THEN Panic ELSE all

-----------------------------------------------------------------------------
New(plugins) == [python |-> TRUE, builder |-> TRUE, temp |-> None, plugins |-> plugins]
Rust(plugins) == [python |-> FALSE, builder |-> FALSE, temp |-> None, plugins |-> plugins]

PyInit ==
  /\ Init
  /\ object \in {New(<<"labels", "dirichlet">>)} \cup {Rust(plugins) : plugins \in Program}
  /\ pending = <<>>

PyIdle == object.python /\ adding = None /\ pending = <<>>

-----------------------------------------------------------------------------
(* The calls that change the object.                                       *)

LoadYamlConfig(d) ==
  /\ PyIdle
  /\ object' = [object EXCEPT !.builder = TRUE, !.temp = d]
  /\ UNCHANGED <<treeVars, fileVars, walks, pending>>

(* fit, with the data of the call or the cloud of the yaml file; then the  *)
(* plugins.                                                                *)
Fit(given) ==
  LET d == IF given # None THEN given ELSE object.temp
      temp == IF given # None THEN object.temp ELSE None
  IN /\ PyIdle
     /\ object.builder /\ d # None
     /\ Build(d)
     /\ object' = [object EXCEPT !.builder = FALSE, !.temp = temp]
     /\ pending' = object.plugins

(* Without a builder, because the tree is fitted, fit panics when it has   *)
(* taken the cloud.                                                        *)
FitPanics ==
  /\ PyIdle
  /\ ~object.builder
  /\ object' = [object EXCEPT !.temp = None]
  /\ UNCHANGED <<treeVars, fileVars, walks, pending>>

AddNextPlugin ==
  /\ pending # <<>>
  /\ BeginAddPlugin(Head(pending))
  /\ UNCHANGED pyVars

PluginAdded ==
  /\ InsertTreePlugin
  /\ pending' = Tail(pending)
  /\ UNCHANGED object

(* The call that adds the plugins panics. *)
PluginsPanic ==
  /\ AddPluginPanics
  /\ pending' = <<>>
  /\ UNCHANGED object

-----------------------------------------------------------------------------
(* The calls that only read: when they panic, and what can be reached.     *)

(* index_depths: how long the path of a point is, and how far down it the  *)
(* labels of a node are all the same (tau only decides how nearly); every  *)
(* summary on the way is unwrapped, and so is the largest of its counts.   *)
IndexDepth(p) ==
  LET shown == Shown(layers, dataset.minRes)
      up[na \in DOMAIN shown] ==
        IF shown[na].parent = None THEN <<na>> ELSE Append(up[shown[na].parent], na)
      path == up[final[p]]
      labels(i) == shown[path[i]].plugins["labels"].summary
      unlabelled(i) == "labels" \notin DOMAIN shown[path[i]].plugins \/ labels(i) = EmptyBag
      homogeneous(i) == ~unlabelled(i) /\ Cardinality(DOMAIN labels(i)) = 1
      stops == {i \in DOMAIN path : unlabelled(i) \/ homogeneous(i)}
  IN IF p \notin DOMAIN final THEN <<0, 0>>
     ELSE IF stops = {} THEN <<Len(path), Len(path)>>
     ELSE IF unlabelled(Min(stops)) THEN Panic
     ELSE <<Len(path), Min(stops) - 1>>

IndexDepths(ps) == MapWithReader(ps, [p \in ToSet(ps) |-> IndexDepth(p)])

(* PyNode::children_addresses leaves out what is not a valid tuple.        *)
PyChildren(na) ==
  ToAddresses(ToValidTuples(ChildrenOf(ShownBy(layers, dataset.minRes, na))))

PyVisited ==
  LET step[k \in 0..Len(layers)] ==
        IF k = 0 THEN {dataset.root}
        ELSE step[k-1] \cup UNION {ToSet(PyChildren(na)) : na \in step[k-1]}
  IN step[Len(layers)]

(* children_probs: without a distribution, nothing.                        *)
ChildrenProbs(na) ==
  IF "dirichlet" \notin PluginsAt(na) THEN {}
  ELSE LET params == ShownBy(layers, dataset.minRes, na).plugins["dirichlet"]
       IN {<<ToTuple(branch), params[branch]>> : branch \in DOMAIN params}

(* layers: the readers of the layers with their scales, from the top; a    *)
(* PyLayer makes the addresses of its nodes of its scale and their centers.*)
LayerScales == [i \in DOMAIN layers |-> dataset.minRes - 1 + Len(layers) - i]
LayerAt(s) == layers[InternalIndex(dataset.minRes, s)]
PyLayerNodes(s) == {Pack(s, pi) : pi \in DOMAIN LayerAt(s).shown}
PyLayerChildren(s, pi) == ToSet(ToAddresses(ToValidTuples(ChildrenOf(LayerAt(s).shown[pi]))))

TopScale == dataset.minRes - 1 + Len(layers) - 1   \* scale_range().end - 1
BottomScale == dataset.minRes

(* The weighted fractal dimensions unwrap every child, and the largest of  *)
(* their populations.                                                      *)
Populations(n) ==
  [i \in DOMAIN ChildrenOf(n) |->
     LET child == ChildrenOf(n)[i]
     IN IF Finds(layers, dataset.minRes, child)
        THEN ShownBy(layers, dataset.minRes, child).count ELSE Panic]
WeightedDimPanics(n) == ~NodeIsLeaf(n) /\ (Populations(n) = <<>> \/ Panic \in ToSet(Populations(n)))

(* sample goes down the tree as the Dirichlet components say, until one    *)
(* says the singletons; every node it comes to has to have a component.    *)
SampleWalkEnds ==
  \A na \in Visited(layers, dataset.minRes, dataset.root) :
    /\ "dirichlet" \in PluginsAt(na)
    /\ \A branch \in DOMAIN ShownBy(layers, dataset.minRes, na).plugins["dirichlet"] :
         IsSingleton(branch) \/ Finds(layers, dataset.minRes, branch)

(* PyNode::singletons makes a matrix with a row for every covered point of *)
(* the singletons of the node, and its center if it is a leaf.             *)
SingletonsPanics(na) ==
  LET n == ShownBy(layers, dataset.minRes, na)
  IN n.count # Cardinality(FinalPoints(n))

-----------------------------------------------------------------------------
PyNext ==
  /\ object.python
  /\ \/ \E d \in Dataset : LoadYamlConfig(d)
     \/ \E d \in Dataset \cup {None} : Fit(d)
     \/ FitPanics

(* A program in Rust has one tree at a time, built or loaded. *)
RustNext ==
  /\ ~object.python
  /\ UNCHANGED object
  /\ \/ ~Alive /\ pending' = object.plugins /\ \E d \in Dataset : Build(d)
     \/ pending' = object.plugins /\ Load
     \/ pending' = <<>> /\ Crash
     \/ (BeginSave \/ WriteFields \/ EndSave) /\ UNCHANGED pending

PluginNext ==
  \/ AddNextPlugin
  \/ PublishLayer /\ UNCHANGED pyVars
  \/ PluginAdded
  \/ PluginsPanic

(* The Python object and its readers belong to one thread. *)
WalkNext ==
  /\ object.python => PyIdle
  /\ UNCHANGED pyVars
  /\ \E w \in Walker : StartWalk(w) \/ StepWalk(w) \/ EndWalk(w)

Next == PyNext \/ RustNext \/ PluginNext \/ WalkNext

Spec == PyInit /\ [][Next]_vars

-----------------------------------------------------------------------------
(* Properties.                                                             *)

Fitted == object.python /\ Alive /\ {"labels", "dirichlet"} \subseteq treePlugins

Labelled == DOMAIN final \subseteq DOMAIN dataset.cloud.labels
              /\ \A p \in DOMAIN final : dataset.cloud.labels[p] # NoLabel

(* The layers, from the top scale to the one below the bottom, list every  *)
(* node under the address it has, and their children are nodes.            *)
LayersListTheTree ==
  LET scales == ToSet(LayerScales)
  IN /\ scales = (BottomScale - 1)..TopScale
     /\ TopScale = ScaleIndex(dataset.root)
     /\ UNION {PyLayerNodes(s) : s \in scales} = DOMAIN dataset.nodes
     /\ \A s \in scales : \A pi \in DOMAIN LayerAt(s).shown :
          /\ Packable(s, pi)
          /\ PyLayerChildren(s, pi) \subseteq DOMAIN dataset.nodes
          /\ ~WeightedDimPanics(LayerAt(s).shown[pi])

(* The depths of many points at once are those of each of them: as many    *)
(* nodes as there are above it, and above those with one label only as     *)
(* many as have several.                                                   *)
DepthsAreOfTheirPoints ==
  LET points == SetToSeq(DOMAIN final)
      depths == IndexDepths(points)
      above == [p \in DOMAIN final |->
                  {na \in DOMAIN dataset.nodes : p \in CoveredBy(dataset)[na]}]
      mixed(na) == Cardinality({dataset.cloud.labels[p] : p \in CoveredBy(dataset)[na]}) > 1
  IN depths = [i \in DOMAIN points |->
                 <<Cardinality(above[points[i]]), Cardinality({na \in above[points[i]] : mixed(na)})>>]

(* Every child is listed with its probability, as many times as it covers  *)
(* points, once more for the prior; the singletons have no address.        *)
ProbabilitiesAreOfChildren(na) ==
  LET n == ShownBy(layers, dataset.minRes, na)
  IN ChildrenProbs(na) = {<<None, Cardinality(n.singletons) + 1>>}
       \cup {<<<<ScaleIndex(c), PointIndex(c)>>,
               Cardinality(CoveredBy(dataset)[c]) + 1>> : c \in ToSet(PyChildren(na))}

(* What Python asks of a fitted tree it gets: the root is a valid tuple,   *)
(* the children that PyNode lists lead to every node and so do the layers, *)
(* the singletons of a leaf fill their matrix, sample comes to an end, and *)
(* no unwrap on the way to a point fails when the points have labels -     *)
(* whatever was loaded, fitted or has panicked before.                     *)
QueriesAnswer ==
  Fitted =>
    /\ ToTuple(dataset.root) # None
    /\ PyVisited = DOMAIN dataset.nodes
    /\ \A na \in PyVisited :
         NodeIsLeaf(ShownBy(layers, dataset.minRes, na)) => ~SingletonsPanics(na)
    /\ LayersListTheTree
    /\ SampleWalkEnds
    /\ \A na \in PyVisited : ProbabilitiesAreOfChildren(na)
    /\ Labelled => DepthsAreOfTheirPoints

=============================================================================
