# Goko, verified

TLA+ models of goko (`src/`), a library that builds cover trees over point
clouds, keeps one tree open to concurrent readers while plugins and trackers
are attached to it, and serves it over HTTP and to Python.  TLC checks the
models on small instances; TLAPS proves theorems about the concurrent map,
the build, queries, the life of a tree with its plugins, the tracker, its baseline
and its server, the statistics, and the point clouds, for every value of the constants.

Paths below are relative to `src/`.

## Inventory

| Part | State | Operations | Interacts with | Modules |
|---|---|---|---|---|
| **Monomap** `goko/src/monomap` | two copies of a hash map, an atomic pointer to one, a log of writes, a swap index, one epoch per read handle under a mutex, the epochs at the last swap | writer: `insert`, `update`, `remove`, `purge`, `set_meta`, `refresh`, `Drop`; reader: clone or factory, any read through `with_handle` | one per layer of the tree; readers on any thread | `MonoMap`, `MonoMapSpec`, `MonoMapHistory` |
| **Nodes, layers, tree** `goko/src/covertree` | per layer a monomap from point index to node (parent, children, singletons, radius, coverage count, plugins); the map of final addresses | `path`, `known_path`, `add_plugin`, `refresh`, `load`, `save`, `no_dangling_refs` | monomap, plugins, server | `CoverTree`, `CoverLayer`, `CoverTreeWriter` |
| **Queries** `tree.rs`, `query_tools`, `query_interface` | per query two heaps of nodes and one of the k best; chunks of queries per thread | `knn`, `routing_knn`, bulk queries | nodes, point cloud | `CoverTreeQuery`, `PyCoverTree` |
| **Builder** `goko/src/covertree/{builders,data_caches}.rs` | tasks in the rayon pool, the shared `total_nodes`, an unbounded channel; per task the points it covers with their distances | settings, `build`, `split_parallel`, `split`, `split_nearest`, `split_first` | writes the tree; many tasks, one receiver | `BuilderConfig`, `CoverTreeBuild` |
| **Plugins** `goko/src/plugins` | per node a value built from its children's values, bottom layer first | `parent_plugin`, `node_component` | `add_plugin` publishes a layer at a time | `TreePlugins`, `Summaries` |
| **Tracker** `goko/src/plugins/discrete/tracker` | a queue of paths, one posterior per node, an overall posterior; a baseline of the statistics so far | `add_path`, `clone_new_window`, statistics, the baseline builder | fed by the server | `Tracker`, `TrackerWindow`, `TrackerBaseline` |
| **Statistics** `stats_goko` | the counts of a categorical or Dirichlet distribution (parameter store); sums a tracker keeps up to date | `add`, `subtract`, `replace`, merge, divergences, samples | plugins, tracker | `ParameterStore`, `Dirichlet`, `DirichletTracker`, `DiscreteCounts` |
| **Addresses** `core_goko` | scale and point packed in 64 bits | conversions, special values | everywhere | `NodeAddress` |
| **Point clouds** `pointcloud` | memory maps, rows in memory, sparse rows, labels with masks, glued clouds with a table of indexes | loaders, `merge`, `reindex`, `convert`, distances, moments, summaries | builder, plugins | `PointSources`, `Labels`, `Clouds`, `Metrics`, `CloudSession` |
| **Server** `serve_goko` | per connection a worker task, its channel and its buffers; trackers by name under an `RwLock`, each a task with a channel | HTTP requests, `CoreReader::process`, `TrackerWorker::process` | tree readers, trackers | `HttpService`, `TrackerService`, `TrackerWorker`, `TrackerRegistry` |
| **Python bindings** `pygoko` | a builder, a cloud, and after `fit` a writer | `load_yaml_config`, `fit`, views of layers and nodes, depths | writer and readers | `PyCoverTree` |

What is hard, and what makes each part correct:

* **Monomap.** Lock-free readers race the writer: a reader stores its epoch
  first and loads the pointer later, the epochs are recorded one by one after
  the swap, and handles appear between two refreshes.  Correct means that the
  writer never changes a copy that a read holds, that both copies follow one
  history of writes across three regimes (direct writes before the first
  refresh, the clone of the second, the log with its swap index afterwards),
  that readers see published versions only, in order, and that `refresh` and
  `Drop` return.
* **Builder.** `build` stops on a count that its own workers keep raising and,
  for an only child that is undone, lowering, while nodes arrive in any order.
  Correct means that it stops exactly when every node is in, that a failed task
  panics rather than leaving a hole, and that the result is a cover tree:
  covering and separation hold, every point is in one place, coverage counts
  are exact, and the two ways to find a point's path agree whatever ties there
  are and in whatever order the random centers came.
* **Publication, save and load.** Layers are refreshed one after the other, a
  node that is cloned loses its plugins, and a reader walks across layers
  meanwhile; a save removes the old file first and may be cut off at any byte.
  Correct means that a walk never goes from a node with a plugin to one
  without, that what a plugin says of a node is true of its whole subtree, that
  nothing published is lost, and that what is loaded is the tree that was saved
  or is refused.
* **Queries.** The exact search must return the k nearest whatever it prunes, by
  estimates that are raised while nodes wait in the heaps.
* **Tracker and statistics.** The posteriors must at all times be the prior plus
  the paths in the window, after any sequence of additions and changes of
  window; sums kept up to date term by term must be those of a batch, and the
  two extremes a baseline keeps enough to leave one out.
* **Point clouds.** Whatever a cloud was put together from, an index stands for
  one row of the files with its own label; a query that is split over threads
  or lanes answers what a plain loop would.
* **Server.** A tracker is a task of its own that may die; requests hold the
  read lock while they wait for it; bodies come in chunks into buffers that are
  used again.  Every request must be answered, and those of one connection in
  order, each with what it asked for.

`PROJECT.json` lists the hazards line by line, with the properties that cover
each.

## Modules

### The concurrent map

`MonoMap` is the map with its readers.  What other threads can see half done is
several actions:

| Code | Actions |
|---|---|
| `MonoReadHandle::new` | `Register` |
| `with_handle` | `BeginRead` (the epoch is stored), `LoadPtr`, `EndRead` (the guard sets the MSB) |
| `add_op` | `WriteDirect` before the first refresh, `WriteLogged` after it |
| `set_meta` | `SetMeta` |
| `refresh` | `BeginRefresh`, `WaitStep`, `WaitDone` (`wait`), `CloneStale`, `ApplyOp`, `Swap`, `Record` (one handle at a time), `EndRefresh` |
| `Drop` | `BeginDrop`, `DropRefresh`, `PublishNull`, `DropLock`, `WaitStep`, `WaitDone`, `Free` |

`ptr`, `wbuf`, `data` are the pointer, the writer's copy and the contents;
`lastEpochs` and `epoch` the recorded and the current epochs, a count and the
MSB.  `my_epoch` counts the reads of a handle without a bound, and a count is only
ever asked whether it is 0 and whether it is the recorded one; so the model keeps
two numbers for it, and a read takes the one that is not recorded (`NextCount`).
Streams of reads are therefore endless in the runs; the counter's end, after 2^63
reads, is not modelled.  `held` is what the read in progress of each handle has got so far: nothing,
the epoch stored, or the pointer it loaded.  `wpc`, `i` are the writer's place
in `refresh` or `Drop`, `life` the stages of `Drop`.  A value is cloned when it
is first applied to a copy and moved the second time; `Clone` is a constant
operator, because `CoverNode::clone` is not the identity.

`MonoMapSpec` is the abstract map: a history of writes and metas, of which
refresh publishes a longer prefix, and readers that hold a published version.
`MonoMapHistory` adds the history to `MonoMap`, states what each copy holds in
terms of it (`HistoryInv`) and maps the detailed map to the abstract one
(`AbstractSpec`).

### The build

`CoverTree` holds the tree as data: addresses, nodes, the child that covers a
point under either partition, `Path`, `KnownPath` and `Reachable`
(`no_dangling_refs`).  `CoverTreeBuild` is `build`: a `Builder` is a
`BuilderNode` that has been handed to the pool; `Split` starts its task and
works out the partition, `Count` and `Uncount` are the atomic operations on
`total_nodes` one at a time, `Send` and `Spawn` what follows; `SplitFails` is a
distance that cannot be computed (when it is one of the root's, before there is a task,
`build` returns the error, and `pc` is `"failed"` from the start); `Receive` and `CheckCount` are the loop of the
building thread.  The order in which random centers are drawn is a choice
among all the orders the generator can produce (`PickCenters`).

Distances are natural numbers and the base is 2: the logarithm that gives a
scale is then exact, and its special cases are kept (`-inf` for duplicates,
`NaN` for no distance at all, both cast to `i32`).

`BuilderConfig` is `CoverTreeBuilder` before that: defaults, setters and the yaml
file, whose whole numbers are cast to narrower types and wrap.  The settings
of the run come out of it, so that they are settings a program can have.

`CoverTreeQuery` goes on where the build ends (`pc = "done"`), so that what is
searched is every tree the build can make, and is `knn` and `routing_knn` with
their `KnnQueryHeap`.  `childHeap` and `singletonHeap` are its two heaps of
nodes, `estMinDist`, `known` and `nearest` its `est_min_dist`, `known_indexes`
and `dist_heap`:

| Code | Actions |
|---|---|
| a query comes, the heap is made | `Ask` |
| `push_nodes` of the root | `PushRoot` |
| a turn of `greedy_knn_nodes`: `closest_unvisited_child_covering_address`, `child_knn` | `Greedy` |
| a turn of the loop of `knn`: `closest_unvisited_singleton_covering_address`, `singleton_knn` | `Singletons` |
| `unpack` | `Unpack` |

A query is a row of distances to the points of the cloud, any that the triangle
inequality allows, and k.  Heaps are sets; where `QueryAddress` does not order
two nodes either may be popped.  Distances are whole in units of 1 / `Base`, for
which no setting may have a scale below 0.  A distance that cannot be computed
is left out: the tree was built from the same points.

### The tree in use

`CoverLayer` is a layer: `shown` and `writing` are the two copies of its map,
`log` the operations, and `RefreshLayer` a whole refresh (`MonoMap` has its
steps; a reader here sees one side of it or the other).  `CloneNode` drops
the plugins, as `CoverNode::clone` does.  `TreePlugins` is `NodeComponent`, what
each plugin makes of a node from the nodes below: label and metadata summaries
(`Summaries`), the points covered, Dirichlet, categorical and gaussian.
`NodeAddress` is the packing, with its widths as constants.

`CoverTreeWriter` is the life of a tree:

| Code | Actions |
|---|---|
| `build`, then the refresh of every layer | `Build` |
| `add_plugin` | `BeginAddPlugin`, `PublishLayer` (once per layer, from below), `InsertTreePlugin`; `AddPluginPanics` when a component cannot be made |
| a reader that goes from a node to a child | `StartWalk`, `StepWalk`, `EndWalk` |
| `save_tree`: the old file is removed, the tree encoded, the new one written | `BeginSave`, `WriteFields` (any number of fields, perhaps a torn one), `EndSave` |
| the process dies | `Crash`, between any two steps |
| `load_tree`, `load`, `refresh_final_indexes` | `Load` |

`PyCoverTree` adds the two programs that drive it: one in Rust, that adds plugins
in an order of its own, and the Python object, which owns the builder, the
cloud a yaml file named and the writer (`LoadYamlConfig`, `Fit`, `FitPanics`,
`AddNextPlugin`, `PluginsPanic`).  Its views (children, layers, depths,
probabilities) are operators, and `QueriesAnswer` says when they answer.
`MapWithReader` is how bulk queries are cut into chunks for the threads and put
together again.

### The tracker and its server

`Tracker` is `BayesCovertree` as data: the counts at every node of which child
the paths go on to (`observations`, `total`), where they end (`overall`), the
queue and the window.  `AddPath` is `add_path` with the removal of the path that
leaves the window; `Panics` is what `inc_observation` expects.  `TrackerWindow`
is one tracker over its life, with `Add` and `NewWindow` (`clone_new_window`,
whose caller goes on with the clone), and a history of what was added.
`TrackerBaseline` goes on with a baseline builder that may take the tracker over
at any time (`BNew`, `BAddPath`): every so many paths it records the divergences
at all nodes, keeps sums and the two extremes, and finds the records that stand
out.  Logarithms of gamma functions are tables of whole numbers.  Of
`goko/src/plugins/discrete` the directory `tracker/` is meant; the file
`tracker.rs` beside it is an older copy.

`TrackerWorker` is what a worker makes of a request (`TrackerWorker::process`),
and what the reader answers by itself.  `TrackerService` composes it with the
server:

| Code | Actions |
|---|---|
| a request goes into the channel of its connection | `Call` |
| the task of a connection takes the next request (`CoreReader::process`) | `Query` (answered by the reader alone), `AskMain`, `AskLock` |
| `trackers.write().await.entry(..).or_insert_with(..)` | `InsertEntry`; the task queues for the read lock at once |
| `trackers.read().await.get(..)`, `message` | `LookUp`, `Send` |
| the reply arrives, the guard is dropped, the client is answered | `Respond` |
| the service is dropped, the task ends | `HangUp` |
| the task of a worker | `Process`, `Panic` |

The lock is tokio's: first come first served, readers together.  A worker that
panics drops its receiver and with it the one-shots of everything in its
channel, whose futures then fail.  `TrackerRegistry` is the abstract
specification: every request takes effect at one moment between call and
answer, answers of a connection come in order, names stay once they are there.
`AtomicTrackers` maps the detailed server to it (`effect` is the one-shot that
has been answered but not yet responded to).

`HttpService` is the HTTP side of some of the connections, in front of that:

| Code | Actions |
|---|---|
| `GokoHttp::call`: a request goes into the connection's channel | `HttpCall` |
| its task takes the next and reads the route and the query string | `ReadWithoutBody`, `RejectQuery`, `BeginBody`, `PanicInQuery` |
| `PointBuffer::poll_point`, a chunk at a time | `PollPoint` |
| `into_http`, `ResponseFuture` | `HttpRespond` |
| the same, with a content type that is no text | `PanicInParse` |
| the service is dropped | `HttpHangUp` |

The other connections are clients of the library, whose calls are `Call`.

### Statistics

`ParameterStore` is the sparse vector of counts: sorted addresses with their
values, the table of positions that `enable_hashmap` makes (and drops at once),
and the total.  `Dirichlet` is what is computed from it, divergences,
likelihoods and samples, over tabulated gamma functions, and the tracker with
its sums kept up to date.  `DirichletTracker` is a program that collects data,
makes a prior of it and follows it with a tracker, made whole (`StartTracker`)
or bucket by bucket (`StartSparse`, `SetPrior`), observing and forgetting
(`Observe`, `Forget`).  `DiscreteCounts` is the abstract specification, a bag of
counts and its sum.

### Point clouds

`PointSources` has the memory maps (bytes, floats, pages), rows in memory, sparse
rows and the chunks of a query over threads; `Labels` the three kinds of labels,
their masks, merges and loaders; `Clouds` glued and labelled clouds and the
loaders that put them together from a yaml file; `Metrics` the L1 and L2 kernels,
dense, lane by lane, and sparse.  `CloudSession` is a program that opens a cloud
in any of these ways and merges, reindexes and converts it.  `expected` is its
history: the rows that the files say, by their docs and not by the loaders
(`IntRow`: a label that is negative or missing is none), and which of them every
index is meant to be.  It also keeps the `doubts` about the labels of a cloud: that
files with and without a mask were merged (`masks`), and that a file says 0
(`zeros`).  A doubt takes nothing off what is expected: the points of such a cloud
are held to the files as ever, and its labels are not, for there the code departs from
what is expected (findings).  Failures are values (`Failed`), so that a run goes on to
what a program would then do; the drop of a map that panics is one of them
(`DropPanics`).

## Runs

| Run | Shows | Bounds |
|---|---|---|
| `monomap` | the writer is alone with its copy; both copies follow the history; the map implements the abstract one | every operation, two handles (the reader that `construct` returns and the writer's own), each with any number of reads, a log of two, two metas |
| `monomap_writer` | `refresh` and `Drop` return, under endless streams of reads; two refreshes empty the log | updates, three handles (one of them registered on the way), each with any number of reads, a log of one, a writer that drops |
| `monomap_drop` | **violated**: a read survives `Drop` | see findings |
| `build` | the accounting, the finished tree, and that a failed task makes `build` panic | four points on a line in three shapes (ties, duplicates, all equal), settings of a builder by hand, from a file, and from a file and then set, cutoffs 0, 1, 2 and one that wrapped; any task may fail |
| `knn` | the search is exact, and what it has not met can still be reached | two clouds of four points, all cutoffs 0 to 2, both partitions, both settings of singletons; every query at a distance up to 8; k from 1 to 3 |
| `routing_knn` | **violated**: `routing_knn` is `knn` without singletons | see findings |
| `publish` | the tree is whole through plugins, saves, crashes and loads; walks and plugins; the views of the bindings answer | a tree of five points over six layers and one of three, with all labels, or two missing; one walker; three programs in Rust and the Python one |
| `tracker` | the counts are those of the window, and are conserved whatever windows come; outliers are found | a tree of four nodes, four paths that share nodes, five additions, first windows 0 to 3, clones with 0 and 2; a record every path or every second |
| `tracker_service` | clients see an atomic registry; a conversation is in order; every request is answered; the windows of a worker agree | an HTTP connection and a client of the library, two requests each, one name and the main tracker, windows 1 and 2, a path that kills the worker; bodies of two chunks, one broken off, one with the wrong decoder, a window and a k that are too large |
| `dirichlet` | the store is a bag of counts; sums kept up to date are those of a batch; divergences agree; samples follow the counts | three addresses, a total of five before and after there is a tracker, a table at the second address |
| `clouds` | indexes are rows of the files, with their own labels; queries and summaries agree with single points however they are split; sparse is dense; maps cover their files | data files of whole rows, a ragged one and one of less than a float, label files of every kind, every pair of them; lanes of four and two, words of two bits, chunks of one or two points |
| `labels_masks` | **violated**: labels survive a merge of files with and without a mask | see findings |

A cfg names every bound.  Why they are enough:

* The monomap's hazards need a read that stays through two swaps and one that
  begins between them, which is two handles; a refresh under a stream of reads
  needs a handle that never stops, and none is made to.  Operations interact
  only through one key, its clone, and the three regimes of refresh.  A handle
  that registers on the way, whose epoch the last swap has not recorded, is the
  third one of `monomap_writer`; `WriterIsAlone` is proved for any number.
* Four points give a root with two children and a grandchild, an only child
  undone, ties between centers and every branch of the builder.  A query up to
  twice the radius of the cloud away has every node covering it, some, or none,
  and k from 1 to 3 of four points leaves a heap that fills early, late or just
  at the end.
* The deep tree has a chain of nested children down to the layer below the
  resolution, leaves on several layers and a layer without nodes; one walker
  suffices because readers do not interact.  A file has a field per layer, and
  may be cut after each.  The widths of an address are the least that hold the trees:
  the largest point, the highest scale and the lowest that a tree may have are
  in use, and the addresses beside them are the special ones.
* Five paths fill the largest window and make it slide twice, and let a window
  be set, removed and set again with paths on either side.
* Two requests on each of two connections are a race to add one name, followed
  by a use or a panic while the other connection waits for the lock, for the
  same worker, or not at all; and a good request behind every kind of bad one.
* Three addresses insert before, between and behind, on either side of the
  change to a table.  Lanes of four and two leave every remainder to rows of up
  to nine words.  Chunks of one or two points leave a last chunk that is full
  or not, with failures in two chunks.  There are files whose bytes make
  no whole float, whose floats make no whole row, of less than one float, and of nothing; and
  a file with and one without a mask stand in either order.

**Fairness.**  `MonoMap`'s liveness assumes that a writer inside `refresh` or
`Drop` keeps running (it is one thread that blocks on nothing but the readers)
and that closures given to `with_handle` return; nobody has to begin anything.
It is weak fairness: a step of `wait` that is possible only at the moments when
nobody reads need never be taken.
The server assumes that tokio polls every task that can go on, that the lock
serves its queue, and that clients send the bodies they have announced; nobody
has to make a request or hang up.  The build assumes that rayon runs
what is spawned, which holds as no task blocks, and that the building thread
runs.  The other specifications have safety properties only.

**Memory.**  Sequentially consistent: `with_handle` and `refresh` have SeqCst
fences between epoch and pointer, and the count of the build is SeqCst.

**Numbers.**  Distances and coordinates are natural numbers, scales are exact
logarithms to base 2, and the gamma functions are tables of whole numbers: what
is checked is which terms go into a sum, and when, never its rounding.

## Proofs

The theorems hold for every value of the constants that the assumptions allow.
The assumptions are those of the modules proved about, all evaluated by TLC in
the runs: `BoundsAssumption` and `DataAssumption` (`MonoMap`); `BaseAssumption`,
`PointAssumption` (a cloud has finitely many points) and `NoneAssumption` (`None`
is no address) of `CoverTree`; `SettingsAssumption`, `ErrorAssumption` (an error in
the channel is no node) and `CloudAssumption` (distances are symmetric and zero
from a point to itself; no triangle inequality) of `CoverTreeBuild`;
`QueryAssumption` of `CoverTreeQuery` (k is not zero; the unit of distance is such
that the finest resolution is not below zero);
`DatasetAssumption`, that every tree of the run is well built and counts what it
covers (`WellBuilt`, `WellCounted`), with `CoverageAssumption`, `LabelAssumption` (no
label is no error), `ProgramAssumption` (a program adds plugins of the six kinds there
are), `OptionAssumption` (`None`, a leaf and no parent can be told
from what they stand beside) and the assumption on the widths of an address, for the life of a tree;
`PathsAssumption` (finitely many nodes, of which a path passes none twice) and
`WindowsAssumption` of the tracker; `BaselineAssumption` and `GammaAssumption` of its
baseline (no divergence from a prior to what observations make of it is below zero,
and likelihoods are whole numbers: what gamma and digamma have, and the tables must); `StoreAssumption` (finitely many raw addresses, which are
numbers, and a table is told from none) and `TrackerAssumption` (the tables have whole
numbers up to what may be collected twice over, and nothing else is asked of them;
`None` is no address) of the statistics; those of the clouds, named with their theorems; those of `TrackerWorker` and `HttpService` (`BufferAssumption`: what a buffer
holds, no body, a body being read, or nothing after a hang-up, can be told apart).

**The concurrent map.**  `MonoMapProofs` proves `TypeCorrect` (`TypeOK`),
`WriterIsAlone` (`ExclusiveAccess`) and `TwoRefreshesFlush` (`DropFlushesLog`).
`ExclusiveAccess` is not inductive: that no reader holds the writer's copy when it
changes it follows from what `wait` has established about the handles it went
past.  The strengthening says, for each handle, that a read that holds the
writer's copy carries exactly the epoch recorded at the last swap, unfinished;
that a handle which `wait` has passed does not hold it; and that during the
recording the handles not yet visited may hold either.  A reader that stored
its epoch before a swap and loads the pointer after it gets the new copy, which
is the harmless case.  `DropFlushesLog` needs what each of the two refreshes of
`Drop` has left in the log and where the swap index then is.

It also proves `CopiesConverge` (`HistoryInv`) and `Refinement`
(`AbstractSpec`), from the same invariant and an inductive statement
of how much of the history each copy holds at each place of `refresh`.  Both are
for values whose clone is a copy (`CloneIsACopy`), and `Refinement` for a map
that is not dropped, as in the run `monomap`: with a `Clone` that loses plugins the
copies do differ, which is what `PluginsStay` is about, and `Drop` is where
`NoReadAfterFree` fails.

**Data.**  `DataLemmas` has what the proofs below need of sums over finite sets, of
least and greatest elements, of finite images and of sequences.  The library's
induction theorems take an operator as a parameter and cannot be cited, so
induction over the naturals is done with sets: a set of naturals that is not
empty has a least element, and a counterexample set without one is empty.  In the
same way a recursive function is shown to exist, and to satisfy its equation.

**The build.**  `CoverTreeProofs` proves, for any cloud, settings, choice of
centers and order of the tasks, `BuildIsTyped` (`TypeOK`), `BuildCountsNodes`
(`Accounting`), `BuildKeepsPoints` (`EveryPointOnce`) and `BuildReturnsWhole`: when
`build` returns no task is at work, nothing waits in the channel and every point
has its final address.  First come facts of one split: under both partitions the
parts of a node are disjoint and are all of what it covers, with or without
the nested child (`DividedTaskDivides`), and a node that divides has room below
it.  `Accounting` is inductive only with the tasks distinct (they are in a
set, so that two of them with the same state would be counted once), with what is
left to be counted bounded by the children, and with the subtraction still to
come only where an addition has been made; a task is told from another by the
points it divides, which is why places of points and the count are one
invariant (`IInv`).  Its last part says that `total_nodes` is never below what is
still to arrive, so that the loop cannot stop while anything is outstanding.
Once a task has failed the count is wrong for ever, and all four say so
(`Failed`, which leads to a panic).

It proves also what kind of tree it is: `FinishedTreeIsConnected`
(`TreeIsConnected`), `CoverTreeProperty` (`CoveringAndSeparation`), `CountsOfTheTree`
(`CountsAreExact`) and `WalksMeet` (`PathIsKnownPath`).  None of them says anything before
the end, so the invariant (`Shaped`) is about half-built trees: there is an
assignment of the `BuilderNode` each address was made of, under which every node,
made, on its way or waiting, has its parent among the nodes that are made, and
what a node handed down to a child is exactly what the walk by distance sends there
(`NodeShape`).  The last is a fact of one split (`DividedTaskHandsDown`): the owner
that a partition chooses is the child that `CoveringChild` finds, although the
nested center is first in one order and last in another, ties are broken
differently, children that cover only themselves have become singletons, and
the nested child may have been dropped.  It uses that centers are apart, which
is why separation is part of it.  Addresses never meet (`KidsAreNew`): builders
that wait have disjoint points, and below a node scales fall.  From a finished
tree the four theorems follow by inductions over the tree, from the root down,
up to the root, or from the leaves up (`FromTheRoot`, `ToTheRoot`, `FromBelow`):
the walk down and the walk up from the final address are the same sequence
node by node (`WalksAgree`), and its nodes are those that were given the point
(`NodesOnTheWay`).

**Queries.**  `CoverTreeProofs` also proves `SearchOverlooksNothing`
(`NothingOverlooked`) and `KnnFindsTheNearest` (`KnnIsExact`): for any cloud, tree the build can
make of it, query, k and order of pops, `knn` returns k points than which no other
is nearer.  The invariant (`QInv`) joins three facts.  The
points held are the k nearest of those met so far, which pushing one more keeps
(`KeepsMore`: the k nearest of the k nearest and some new points are the k nearest of
all).  What a node is estimated at is no more than the distance of any point
below it (`MinDistBelow`), which needs the covering property of the finished tree
(`NodeCovers`), the root's own boundary case, and the triangle inequality of the query.
And whatever is not met is still to be found in a heap or is too far: a node that
is popped hands its points to its singletons and children (`BelowNode`), all of
which `child_knn` pushes or rightly leaves out (`PushKeeps`, `PushAll`,
`ChildKnnKeeps`), with a `max_dist` that may be out of date but only too large.  Nothing in it depends
on the order of pops, nor on the estimates: a node that goes back keeps its
address, which is why those may be wrong, and it holds for `routing_knn` too.
That a search which is over has emptied both heaps is the last part; it is what
`routing_knn` lacks.  `NothingOverlooked` and the types of the heaps alone are not inductive: they do not
say that the points held are the nearest, nor that the center of a node in a heap is met.

**The life of a tree.**  `CoverTreeWriterProofs` proves `TreesStayWhole`
(`TreeIsWhole`), `WalkersMissNothing` (`WalksMissNothing`), `PluginsAreKept`
(`PluginsStay`) and `PluginsDescribe` (`PluginsDescribeSubtree`), under the specification of `PyCoverTree`, for any tree that is well
built, any order of plugins, walks, panics, fits, saves and loads, and any cut of the file.
None is inductive.  Of a layer, `Settled` says that the copy behind, with the operations before
the swap index applied, is the copy shown, both being the nodes that were
built but for plugins: so a refresh that clones, which drops plugins, puts back
those it dropped, and the second refresh of a layer, which has nothing to put back, finds none
to drop.  Of walks, `Below` says that a child shows what its parent shows *or
has pending*: `add_plugin` may panic when half of a layer's components are in
the log, and they are published by a later refresh, maybe of another plugin.
`ShownUpTo`, that the layers already published show the plugin that is being added, is
what brings `Below` over a refresh; that the coverage plugin, which large nodes
do not get, leaves no gap below a node that has it follows because a child covers no more than
its parent (`HasComponent`).  A file that was cut off before its
end has no root (`LoadedIsWhole`): the final indexes cannot be computed, and no
tree is loaded; any other is the tree that was saved, without plugins.  `WellBuilt` is
what of `build` this rests on: children are on lower layers, cover no more and
hang below the root, and no two nodes have one address.  Its counterparts for the tree that `build`
returns are `FinishedTreeIsConnected` and `CountsOfTheTree`; the two models hold
trees in different forms, so the step from the ones to the other is by reading.

What plugins say has an invariant of its own (`PlanInvariant`).  That what is shown
is true of its node is not inductive: a refresh shows what is in the log, and the
next one shows the other copy, so `TreeFits` asks of every component, shown, logged
or in the copy behind, that it describes its node.  It holds of half a layer too,
which is what a panic in `add_plugin` leaves.  Of a component that is made, the
proof has first that `ShownUpTo` gives every child that can have one
(`AllShow`), and then, plugin by plugin (`SummaryFits`, `GaussianFits`,
`CoverageFits`, `WeightsFit`), that the folds over singletons and children come to
the counts, the moments or the list of the points covered: the pieces are apart
(`WellCounted`, whose counterparts for the build are `CountsOfTheTree` and
`BuildKeepsPoints`), so that a sum over the union is the sum of the sums
(`SumOfUnion`), and a fold over a sequence that lists a set once describes
the set (`TableAlong`, `Gathers`).  These are inductions on positions in a sequence, for
which the natural numbers are enough.  `CoveringExists` gives the recursion
down the tree, `CoveredBy`, a solution, as many steps from the leaves as there are layers.

**The tracker.**  `TrackerProofs` proves, for any tree, set of paths and windows,
`TypeCorrect` (`TypeOK`: no count goes below zero, the queue is within the
window), `CountsAreOfTheWindow` (`PosteriorIsWindow`) and `FlowThroughNodes`
(`FlowIsConserved`).  The counts alone are not inductive: that taking back the
head of the queue takes back the path that leaves the window needs
`QueueIsEnd`, the queue is the end of the history, as long as the window says;
and `CountsAreOfTheQueue`, a bucket counts the paths of the queue (of the whole
history, without a window) that pass it.  `FlowIsConserved` holds for windows that
come and go, where neither is true any more: its invariant `FlowInv` says that
a bucket holds at least the paths of the queue that pass it (`QueueIsCounted`), so
that taking one back never meets a zero and stops short; and a path that is
counted or taken back goes into and out of every node it passes once
(`TraceKeepsFlow`).

It also proves `OutliersStandOut` (`OutliersAreFound`), of a tracker that a builder feeds and
does not change (`BuildersRefine`, so that the three theorems above hold of it too).
The property speaks of nodes the builder has met; its invariant (`NodesAreOfPoints`)
speaks of all of them: moments kept of a node, or none yet, count the data points that
report it and sum their divergences, no point exceeds the two extremes, the largest is a
point's own unless it is still zero, and the second largest is below it.  The last is all
that is true of the second: `update` does not notice a value between the two.  It
is enough because a point that alone has the largest has set it, so that what
remains without it is smaller; one that others exceed is neither extreme.  No
divergence is below zero (`GammaAssumption`), which extremes that start at zero
need, and it holds for as many observations as there were paths
(`CountsAreOfPaths`).  That the statistics of a client are those of the point just taken
is a sum over all nodes, of which `small` leaves out those that add nothing (`SmallSum`).

**The statistics.**  `DirichletProofs` proves `DataOfCounts` (`DataIsCounts`),
`SamplesFollowCounts` (`SampleFollowsCounts`), `TrackerIsBatch` (`IncrementalIsBatch`) and
`DivergencesAreOne` (`DivergencesAgree`), for any addresses, amounts, merges, totals and
tables of gamma functions: the tables may hold any whole numbers, so that what the
theorems say is that the same terms are summed, for the same arguments.  A store is
correct when its addresses rise, its values are in step and it has no table
(`IsStore`), and its total is the sum of its counts (`CountStore`); then the search finds
an address where it is, or where it goes (`SearchFinds`), and each operation changes one count
(`SetTo`).  `Merge` and `FromPairs` are folds over a store or a list of pairs: what they
return is followed through the pairs in order, what is merged so far being the count of the
addresses met (`UpTo`).  The refinement maps a store to the counts of all
addresses, those it does not have being zero.

A sum over the places of a store, over its pairs, or over two stores side by side is
a sum over all addresses (`OverPlaces`, `KlOverPairs`, `OverBoth`): addresses are
distinct, and one that is missing adds nothing.  With this every divergence is one and the same
sum of a part per address (`KlParts`, `MllParts`).  The invariant of the tracker
(`TrackerInv`) says that the evidence is at addresses of the prior, of which none has zero
(`Evidence`), that a bucket of the tracker has the prior and the count of its address and its
part of the sums, and one that is missing has no count yet, and that the four running
sums are those of the parts (`Followed`).  `IncrementalIsBatch` alone is not inductive: it does
not say that each bucket has its own part, which is what an update takes away from
the sum, nor anything of the sum below zero, where the divergence is cut off.
Where an observation has no prior all of the divergences decline alike (`NothingAgainst`).
Draws are counted by the sums of the values up to each place: they rise, the place found
for a number is the first whose sum is above it (`FirstPassed`), and so its
numbers are an interval as long as its count.

**The server.**  `TrackerServiceProofs` proves `ServiceIsTyped` (`TypeOK`),
`RepliesAreNotLost`, `WorkersWindowsAgree` (`WindowsAgree`) and `ServiceIsAtomic`
(`AtomicTrackers`), for any number of connections, names, requests and paths that
kill a worker, under the specification with the HTTP side in front.  The
inductive invariant follows a request: what was called is what has been
answered, is at work, and waits in the channel, in this order; a message in the
channel of a worker is the current request of exactly one task, which waits for
it and holds the read lock; a worker that was named is in the map.  A worker that
panics fails all of its messages at once, so that a task that waits has its
reply or a live worker with its message.  All trackers of a worker are
`AddPath` images of one sequence of paths, each over its own window, which is
`WindowsAgree`.  The refinement maps `effect` to the reply that has been made and
not yet answered; `Process`, `Panic` and `Query` are the moments at which requests
take effect, all other steps stutter or are calls and answers, and every step of
the HTTP side is a step of the service or a stutter (a panic while a request is read
is a `HangUp`).

`ConversationsAreInOrder` (`ConversationIsInOrder`) stands on that invariant.  A reply
suits the request it was made for (`RepliesSuit`), wherever it is: made by a worker, by the
task itself, or failed with the worker.  And every connection is in tune: what waits
in its inbox is the rest of what was asked; every response given fits what was meant
at its place; and the connection is in one of four phases, at rest, with a request
at work, with a body half read, or gone, each of which says how many requests
have been meant, called and answered.  Of these numbers the property itself has
only the one in `calls`; without the others a response could answer the request before.

**The clouds.**  `CloudProofs` proves `MapsCoverFiles` (`MapsCoverTheFiles`) for any
files and pages (`SourcesAssumption`, `FilesAssumption`, `ConfigsAssumption`): a map that is
open is that of a file (`MapsAreOfFiles`), and the rest is arithmetic of whole pages and floats.

It also proves `SparseRowsAreDense` (`SparseIsDense`), for any matrix whose rows are as
long as one another (`MatricesAssumption`), any width of the registers
(`LanesAssumption`: the wide ones are two narrow ones) and any number of bits of the
small integer types (`SignBitAssumption`).  The invariant (`CloudsAreMade`) says that a
sparse cloud is the compressed form of a matrix, of which the rows are expected, and
that the sources of a glued one are rows of one dimension or labeled.  The values of a
stored row at their columns, zero elsewhere, are the row (`SpreadIsRow`), and both
sides are then the gap of two rows, a sum over all coordinates.  The dense kernels
reach it since the wide lanes, the narrow ones and what is left over cut a row in
three and add each coordinate once (`LanesCut`, `LanesAddAll`).  The sparse ones
walk along two lists of columns, advancing in the one that is behind or in both: what the walk
has still to add is always the gap of the corners it has not come to (`WalkIsRest`, an
induction on how many these are).  Only rising columns make that true, which is what
compressing gives.

`CloudsAreTheirFiles` (`CloudIsItsFiles`) says that the indexes of a cloud are the rows of its
files with their points, and where there are no doubts with their labels.  Where files with
and without a mask were merged (`labels_masks`), or a file says 0, the code does lose labels,
and the theorem claims the points alone.  It holds for any data files and label files whose
floats are as many as their bytes make (`FilesAssumption`, `LabelFilesAssumption`), any
configurations of which a row fits in a chunk (`ConfigsAssumption`), any lists of pairs to
reindex by (`IndexesAssumption`), and a `None` that is no mask and no label (`MaskAssumption`,
`NoLabelAssumption`).  The invariant, beside `CloudsAreMade`, is `CloudsHold`: a cloud of which
something is expected holds the expected rows (`FilesHold`), or, with doubts, their points beside
some labels (`DoubtHolds`).  One in memory has a block of floats
for every row and labels that say, one by one, what stands beside the points
(`SourceHolds`); a glued one is a list of such sources whose rows, laid end to end, are the
expected ones, and its table sends every index to the source and the offset that its row
came from (`GluedHolds`, `IndexesHold`).  The property itself has only what an index
answers; the rest is what merging, converting and reindexing go on from, and that a cloud
in memory has no floats behind its last row, without which a merge would shift the rows
of the other.  What is laid out behind what is a matter of where each piece ends (`Ends`,
`LaidOut`): `FlattenSeq` lays its parts out (`FlattenedIsLaidOut`), a place in the whole is a
place in one part (`PlaceOf`), whole blocks of parts are blocks of the whole
(`BlocksOfFlattened`), and two sequences laid out alike are one (`SameFlat`).  Of the loaders it is
shown that what they reduce is the concatenation of the files, floats, labels and masks
alike (`MergedFloats`, `MergedSays`), and of a reindex that as many new indexes as
pairs leave one pair for each (`OnePairEach`, by counting).

`QueriesAreOfPoints` (`QueriesAgree`) goes on from there: since every index answers with its
row, the chunks of a query, each computed by itself and in any order, laid end to end are
the distances of the points asked for; an index that is not there fails its chunk, the
error that is reported is one of those, and the dense rows and the moments stop at the
first of them or are sums over all the points (`FirstMomentAgrees`, `SecondMomentAgrees`).

**Only model-checked.**

* Liveness (`RefreshReturns`, `DropCompletes`, `BuildEnds`, `FailurePanics`,
  `EveryRequestAnswered`) needs fairness and `ENABLED`, beyond TLAPS.
* `QueriesAnswer`: what the bindings list and count goes up from a node to the root,
  through chunks of queries that are put together again, and through tuples that are
  checked and left out one by one.  What it rests on, that the tree is whole and the
  plugins describe it, is proved.
* `SummariesAgree`, that a summary of labels has every label of the points asked for, and
  counts those that have none: what a point's label is, is proved (`CloudIsItsFiles`).

## Findings

* `Drop` of the write handle publishes the null pointer and waits, but the wait
  compares with the epochs of the last refresh.  A read that began after that
  refresh is not waited for, and loses its copy (`NoReadAfterFree`), against the
  comment at `goko/src/monomap/write.rs:95`.
* `routing_knn` is documented as the same as `knn` for the points that are not
  singletons (`goko/src/covertree/tree.rs:308`).  Its loop ends as soon as a
  round of `greedy_knn_nodes` pops a leaf first, with nearer centers still in
  the heap (`RoutingKnnIsExact`).
* Labels with a mask merged with labels without one: those without are hidden, and if they come
  first what the mask says of the others is shifted (`MixedMasksKeepLabels`), against
  "Merges 2 labels together", `pointcloud/src/label_sources/mod.rs:65`.

Noted while reading, and modelled as the code has it unless said otherwise:

* Tree.  The doc of `min_res_index` (`goko/src/covertree/tree.rs:78`) makes a
  node at that scale a leaf, `split` divides it; `use_singletons` is described the
  wrong way round at `tree.rs:80`; `knn` is said to stop when no node could
  cover a closer point (`tree.rs:277`) but looks at every node that was pushed,
  and the answer is the same.  `load` ignores the saved dimension and count.
  A negative `leaf_cutoff` in a yaml file becomes a very large one.
* Tracker.  `sequence_len` is documented as the number of elements that went into
  the statistics (`goko/src/plugins/discrete/tracker/tracker.rs:273`); after
  `clone_new_window` it is not.  `loo_violators` also reports records that tie, and asserts that no likelihood it leaves
  out is positive (`LooPanics`).  `update` of a node's extremes drops a value between the
  largest two.
* Statistics.  `enable_hashmap` drops its table at once.  `weight`, which nothing
  calls, leaves the total as it was.  `kl_div` is not a number for a bucket that
  is empty on both sides.
* Point clouds.  The csv loader masks the label 0 (`pointcloud/src/loaders/csv_loaders.rs:52`),
  although its doc has negative labels masked; the doubt `zeros` marks such clouds.
  `one_hot_to_int` runs over the floats of the labels and not over the labels
  (`pointcloud/src/label_sources/mod.rs:117`), and panics behind the last row of any file that is
  not empty.  A summary of vector labels does not count its first vector
  (`pointcloud/src/summaries/mod.rs:95`), against the doc of `count`.  A file of one to three
  bytes makes a map of no floats, whose drop asks `munmap` to give back nothing, and panics
  (`pointcloud/src/data_sources/memmapf32/unix.rs:216`).  The yaml doc names `label_csv_index` and `label_dim`, the
  code reads `labels_index` and `labels_dim`.  `munmap` is given floats for bytes,
  so that part of a mapping stays.  A ragged file shifts the points behind it
  when it is merged, and a ragged file of vector labels the labels behind it, which
  are counted only when all are in a row; converting a reindexed glued cloud forgets the indexes;
  reindexing with a doubled new index loses a point that `len` still counts.
  A sparse point can only be made dense in a cloud if its last coordinate is
  stored.  The L1 distances take a square root of the sum, and `Distance`, which queries are
  held to, takes it with them.  What a summary does with an index that is not there depends on
  the cloud: a glued one fails with it, labels in memory panic, and unlabeled rows count it as
  one without a label; `SummariesAgree` holds the glued ones to the error and leaves the others open,
  of which no doc says anything.  `is_empty` is true of a `SparseDataRam` that has points and
  false of a `HashGluedCloud` without sources; only clouds that wrap others call it, and it is
  not modelled.
* Server.  The content type `zlib` is read by the decoder of bare deflate streams
  and `gzip` by that of zlib streams.  A `k` that is no `usize` panics the task of
  the connection, as does a content type that is no text once the body has been read
  (`PanicInParse`); a window that is none is a 404.  `poll_ready` tells a client that
  was dropped from other errors of a connection; the model has one error for both.
* Bindings.  `singletons` panics for routing nodes, `sample` at its end, and the
  depths at nodes without labels; setters panic once a tree is fitted; a bulk
  query without queries panics.

## Plan

What would come next: `WellBuilt` from the theorems about the build, by a mapping from the
finished tree of `CoverTreeBuild` to the dataset of `CoverTreeWriter`; `SummariesAgree`,
from what the proofs about the clouds say of labels; and what the views of the bindings
list (`QueriesAnswer`).

## Not modelled, and why

* Numerics over reals: the values of logarithms, gamma functions, variances and
  the Gaussian divergences, the fractal dimensions, rounding.
* Code that no build has or nothing calls: `pointcloud/src/metrics/old.rs`,
  `goko/src/plugins/discrete/tracker.rs`, `serve_goko/src/core/tracker_worker.rs`,
  the svd gaussians, the adjacency matrices (commented out), `remove_point`,
  `NamedSet`.
* Data without code (`stats_goko/src/discrete/stats_consts.rs`), the generated file
  format (`goko/src/tree_file_format.rs`, of which `CoverTreeWriter` has the
  fields), the Windows maps.
* Presentation and plumbing: error types, printing, globbing of paths, the
  in-flight count that feeds only tower's `Load`, wrappers of the bindings that
  hold no state, benches, examples.
