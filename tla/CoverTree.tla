------------------------------ MODULE CoverTree ------------------------------
(***************************************************************************)
(* The cover tree as data, and the walks over it that follow one point     *)
(* (goko/src/covertree/node.rs and tree.rs).  A tree is a function from    *)
(* addresses (a scale index and the index of the center) to nodes; the     *)
(* parameters are a record with the metric and the builder's settings.     *)
(* Distances are natural numbers, in a unit below the smallest distance    *)
(* the tree has to tell apart.                                             *)
(***************************************************************************)
EXTENDS Integers, Sequences, FiniteSets, SequencesExt

CONSTANTS
  Point,   \* the indexes of the point cloud
  Base,    \* scale_base
  None     \* Option::None

ASSUME BaseAssumption == Base \in Nat /\ Base >= 2
ASSUME PointAssumption == IsFiniteSet(Point)

(* [cloud |-> the metric, first |-> the partition type is First,           *)
(*  cutoff |-> leaf_cutoff, minRes |-> min_res_index,                      *)
(*  singletons |-> use_singletons]                                         *)
Parameters ==
  [cloud: [Point \X Point -> Nat], first: BOOLEAN, cutoff: Nat, minRes: Int, singletons: BOOLEAN]

Between(ps, p, q) == ps.cloud[<<p, q>>]

Address == Int \X Point
Scale(a) == a[1]
Center(a) == a[2]

ASSUME NoneAssumption == None \notin Address

(* A node; its nested child, if it has any, is the first of its children.  *)
Node ==
  [parent: Address \cup {None}, radius: Nat \cup {-1}, count: Nat, children: Seq(Address),
   singletons: SUBSET Point]

IsLeaf(node) == node.children = <<>>

(* scale_base.powi(s), for s >= 0. *)
Powi[s \in Nat] == IF s = 0 THEN 1 ELSE Base * Powi[s - 1]

(* d < scale_base.powi(s), for a whole number d. *)
Within(d, s) == d < (IF s >= 0 THEN Powi[s] ELSE 1)

-----------------------------------------------------------------------------
(* The child a point would go to, or None.  D[i] is its distance to the    *)
(* center of child i; the distance to the nested child is that to the node.*)

NearestCoveringChild(ps, node, p) ==
  LET kids == node.children
      D(i) == Between(ps, Center(kids[i]), p)
      others == 2..Len(kids)
      closest == CHOOSE i \in others : \A j \in others : D(i) < D(j) \/ (D(i) = D(j) /\ i <= j)
      i == IF \A j \in others : D(1) < D(j) THEN 1 ELSE closest
  IN IF kids # <<>> /\ Within(D(i), Scale(kids[i])) THEN kids[i] ELSE None

FirstCoveringChild(ps, node, p) ==
  LET kids == node.children
      covering == {i \in DOMAIN kids : Within(Between(ps, Center(kids[i]), p), Scale(kids[i]))}
  IN IF covering # {} THEN kids[CHOOSE i \in covering : \A j \in covering : i <= j] ELSE None

CoveringChild(ps, node, p) ==
  IF ps.first THEN FirstCoveringChild(ps, node, p) ELSE NearestCoveringChild(ps, node, p)

(* path: from the root to the last node that covers the point. *)
Path(ps, tree, root, p) ==
  LET walk[a \in {root} \cup DOMAIN tree \cup UNION {ToSet(tree[b].children) : b \in DOMAIN tree}] ==
        IF a \notin DOMAIN tree THEN <<a>>
        ELSE LET child == CoveringChild(ps, tree[a], p)
             IN IF child = None THEN <<a>> ELSE <<a>> \o walk[child]
  IN walk[root]

(* known_path: up the parents from the final address of a point. *)
KnownPath(tree, final, p) ==
  LET up[a \in {final[p]} \cup DOMAIN tree \cup {tree[b].parent : b \in DOMAIN tree}] ==
        IF a \notin DOMAIN tree \/ tree[a].parent = None THEN <<a>> ELSE Append(up[tree[a].parent], a)
  IN up[final[p]]

(* no_dangling_refs: every child of a node that can be reached is there. *)
Reachable(tree, root) ==
  LET step[n \in Nat] ==
        IF n = 0 THEN {root}
        ELSE step[n-1] \cup UNION {ToSet(tree[a].children) : a \in step[n-1] \cap DOMAIN tree}
  IN step[Cardinality(DOMAIN tree) + 1]

NoDanglingRefs(tree, root) == Reachable(tree, root) \subseteq DOMAIN tree
=============================================================================
