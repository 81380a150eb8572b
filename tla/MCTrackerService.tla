-------------------------- MODULE MCTrackerService --------------------------
(* One named tracker and the main one, and what HTTP requests may go wrong with, for TLC. *)
EXTENDS HttpService

CONSTANTS a, x, t  \* a node, an address that is no node of the tree, the name of a tracker

MCPaths == {<<TreeRoot>>, <<TreeRoot, a>>, <<TreeRoot, x>>}

MCPrior == {<<TreeRoot, a>>, <<TreeRoot, Singleton>>, <<a, Singleton>>}

MCLibrary ==
  [kind: {"track_point"}, name: {t}, path: {<<TreeRoot>>}]
    \cup [kind: {"track_path"}, name: {t}, path: {<<TreeRoot, x>>}]
    \cup [kind: {"add"}, name: {t}, window: {1}]
    \cup [kind: {"track_point"}, name: {Main}, path: {NoPath}]

NoBody == [compressed |-> "no", chunks |-> <<>>, fails |-> FALSE]
Http(route, name, k, window, content, body) ==
  [route |-> route, name |-> name, k |-> k, window |-> window, content |-> content, body |-> body]

Chunked(p) == <<SubSeq(Encoded(p), 1, 1), SubSeq(Encoded(p), 2, 2)>>

\* a stream that ends in an error, the wrong compression, a window and a k that are too large,
\* a content type that is no text
MCHttpRequest ==
  {Http("track_add", t, Absent, 2, Absent, NoBody),
   Http("track_stats", t, Absent, 12, Absent, NoBody),
   Http("track_point", t, Absent, Absent, "zlib",
        [compressed |-> "deflate", chunks |-> Chunked(<<TreeRoot, a>>), fails |-> FALSE]),
   Http("track_point", t, Absent, Absent, Absent,
        [compressed |-> "no", chunks |-> Chunked(<<TreeRoot>>), fails |-> TRUE]),
   Http("path", Main, Absent, Absent, "gzip",
        [compressed |-> "deflate", chunks |-> <<Encoded(<<TreeRoot>>)>>, fails |-> FALSE]),
   Http("routing_knn", Main, Absent, Absent, Absent,
        [compressed |-> "no", chunks |-> <<Encoded(<<TreeRoot>>)>>, fails |-> FALSE]),
   Http("knn", Main, 12, Absent, Absent, NoBody),
   Http("path", Main, Absent, Absent, "opaque",
        [compressed |-> "no", chunks |-> Chunked(<<TreeRoot>>), fails |-> FALSE]),
   Http("unknown", Main, Absent, Absent, Absent, NoBody)}

MCReadable == {hr \in MCHttpRequest : ~IsMalformed(hr) /\ ~KnnQueryPanics(hr)}

MCRequest == MCLibrary \cup {RequestOf(hr, p) : hr \in MCReadable, p \in MCPaths \cup {NoPath}}
=============================================================================
