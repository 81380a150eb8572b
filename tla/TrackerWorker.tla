---------------------------- MODULE TrackerWorker ----------------------------
(***************************************************************************)
(* The tracking requests of the server and what a TrackerWorker makes of   *)
(* them (serve_goko/src/api/tracker.rs).  A worker keeps one tracker per   *)
(* window size; the server knows workers by name, and one more without.    *)
(***************************************************************************)
EXTENDS Tracker

CONSTANTS
  Connection, \* clients, with one connection each
  Name,       \* the names of trackers
  Main,       \* the tracker without a name
  NoPath,     \* a point that the tree fails to find a path for
  None,       \* Option::None
  Request     \* the requests clients make

Tracking ==
  [kind: {"track_point"}, name: Name \cup {Main}, path: Paths \cup {NoPath}]
    \cup [kind: {"track_path"}, name: Name \cup {Main}, path: Paths]
    \cup [kind: {"add", "stats"}, name: Name \cup {Main}, window: Nat]

(* Everything that is no tracking request is answered by the reader alone; *)
(* a point is known by the path the tree finds for it.                     *)
Querying ==
  [kind: {"query"}, what: {"parameters", "unknown"}]
    \cup [kind: {"query"}, what: {"path"}, path: Paths \cup {NoPath}]
    \cup [kind: {"query"}, what: {"knn", "routing_knn"}, path: Paths \cup {NoPath}, k: Nat]

ASSUME RequestAssumption ==
  /\ Main \notin Name
  /\ NoPath \notin Paths
  /\ Request \subseteq Tracking \cup Querying

Worker == Name \cup {Main}

Done(type, success) == [type |-> type, success |-> success]
Unknown  == [type |-> "unknown"]
NotFound == [type |-> "404"]
Error    == [type |-> "error"]

Response ==
  {[type |-> "parameters"], Unknown, NotFound, Error}
    \cup [type: {"knn", "routing_knn"}, of: Paths, k: Nat]
    \cup [type: {"path"}, path: Paths]
    \cup [type: {"track", "add"}, success: BOOLEAN]
    \cup [type: {"stats"}, length: Nat, overall: [TreeNode -> Nat]]

ASSUME NoneAssumption == None \notin Response

(* What the reader finds for a point, under the names of the points. *)
ParametersAnswer == [type |-> "parameters"]
KnnAnswer(r) == IF r.path = NoPath THEN Error ELSE [type |-> r.what, of |-> r.path, k |-> r.k]
PathAnswer(r) == IF r.path = NoPath THEN Error ELSE [type |-> "path", path |-> r.path]

(* process of the reader *)
QueryAnswer(r) ==
  CASE r.what = "parameters" -> ParametersAnswer
    [] r.what \in {"knn", "routing_knn"} -> KnnAnswer(r)
    [] r.what = "path" -> PathAnswer(r)
    [] OTHER -> NotFound

(* A point is tracked by the path the tree finds for it; a client of the   *)
(* library may also name a path itself (HTTP has no such request).         *)
Counted(r) == r.kind \in {"track_point", "track_path"} /\ r.path # NoPath

(* Mutant: the loop over the trackers stops after the first one. *)
TrackFirstOnly(ts, p) ==
  [w \in DOMAIN ts |-> IF \A v \in DOMAIN ts : w <= v THEN AddPath(ts[w], p) ELSE ts[w]]

Track(ts, p) == [w \in DOMAIN ts |-> AddPath(ts[w], p)]

WithTracker(ts, w) ==
  [v \in DOMAIN ts \cup {w} |-> IF v = w THEN NewTracker(w) ELSE ts[v]]

(* process: ts holds the worker's trackers by window size. *)
AfterRequest(ts, r) ==
  CASE Counted(r) -> Track(ts, r.path)
    [] r.kind = "add" /\ r.window \notin DOMAIN ts -> WithTracker(ts, r.window)
    [] OTHER -> ts

AnswerTo(ts, r) ==
  CASE Counted(r) -> Done("track", r.kind = "track_path" \/ DOMAIN ts # {})
    [] r.kind = "track_point" /\ ~Counted(r) -> Error
    [] r.kind = "add" -> Done("add", r.window \notin DOMAIN ts)
    [] r.kind = "stats" /\ r.window \in DOMAIN ts ->
         [type |-> "stats", length |-> SequenceLen(ts[r.window]), overall |-> ts[r.window].overall]
    [] OTHER -> Unknown

(* add_trace unwraps the tracker of every node on the path. *)
Kills(ts, r) == Counted(r) /\ DOMAIN ts # {} /\ Panics(r.path)
=============================================================================
