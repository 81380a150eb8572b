---------------------------- MODULE ParameterStore ----------------------------
(***************************************************************************)
(* A sparse vector over node addresses (stats_goko/src/discrete/parameter_ *)
(* store.rs): the raw addresses, sorted, and one value for each, in step.  *)
(* A table of positions may stand in for the binary search.  Positions are *)
(* counted from 1, and 0 is no position.                                   *)
(***************************************************************************)
EXTENDS Integers, Sequences, FiniteSets, SequencesExt

CONSTANTS
  Loc,        \* raw addresses; NodeAddress::SINGLETON is the least of them
  HashLimit,  \* addresses a store holds without a table (100)
  NoTable

ASSUME StoreAssumption ==
  /\ Loc \subseteq Nat /\ IsFiniteSet(Loc) /\ HashLimit \in Nat
  /\ NoTable \notin [Loc -> Nat]

NewParams == [indexes |-> <<>>, hashed |-> NoTable, values |-> <<>>, total |-> 0]

(* binary_search: where loc is, or where it goes. *)
SearchedAt(s, loc) == Cardinality({j \in DOMAIN s.indexes : s.indexes[j] < loc}) + 1

Holds(s, loc) == Contains(s.indexes, loc)

Index(s, loc) ==
  IF s.hashed # NoTable
  THEN IF loc \in DOMAIN s.hashed THEN s.hashed[loc] ELSE 0
  ELSE IF Holds(s, loc) THEN SearchedAt(s, loc) ELSE 0

(* The search of an update, which falls back on the addresses. *)
IndexToUpdate(s, loc) ==
  IF s.hashed # NoTable /\ loc \in DOMAIN s.hashed THEN s.hashed[loc]
  ELSE IF Holds(s, loc) THEN SearchedAt(s, loc) ELSE 0

TableOf(indexes) ==
  [loc \in ToSet(indexes) |-> CHOOSE j \in DOMAIN indexes : indexes[j] = loc]

(* Mutant: the table is kept. *)
HashmapIsKept(indexes) == TableOf(indexes)

(* enable_hashmap builds the table and drops it again, so that a store     *)
(* never has one and searches its addresses whatever its size.             *)
EnableHashmap(indexes) == NoTable

(* A table that exists is told of the new address only, although those     *)
(* behind it move.                                                         *)
InsertLoc(s, loc, v) ==
  LET at == SearchedAt(s, loc)
      indexes == InsertAt(s.indexes, at, loc)
  IN [s EXCEPT
        !.indexes = indexes,
        !.values = InsertAt(s.values, at, v),
        !.hashed = IF s.hashed # NoTable THEN (loc :> at) @@ s.hashed
                   ELSE IF Len(indexes) > HashLimit THEN EnableHashmap(indexes) ELSE NoTable]

ValueOf(s, loc) == s.values[Index(s, loc)]
Get(s, loc, else) == IF Index(s, loc) = 0 THEN else ELSE ValueOf(s, loc)

(* The vector alone, as Dirichlet uses it, which keeps its own total. *)
AddValue(s, loc, n) ==
  LET at == IndexToUpdate(s, loc)
  IN IF at = 0 THEN InsertLoc(s, loc, n) ELSE [s EXCEPT !.values[at] = @ + n]

AddPop(s, loc, n) == [AddValue(s, loc, n) EXCEPT !.total = s.total + n]

ReplacePop(s, loc, n) ==
  LET at == IndexToUpdate(s, loc)
  IN IF at = 0 THEN [InsertLoc(s, loc, n) EXCEPT !.total = s.total + n]
     ELSE [s EXCEPT !.values[at] = n, !.total = @ + n - s.values[at]]

(* Mutant: the total goes down by what was asked for. *)
RemovePopAsAsked(s, loc, n) ==
  LET at == Index(s, loc)
  IN IF at = 0 THEN s
     ELSE [s EXCEPT !.values[at] = IF @ > n THEN @ - n ELSE 0, !.total = @ - n]

(* What is taken from an address is at most what is there. *)
RemovePop(s, loc, n) ==
  LET at == Index(s, loc)
  IN IF at = 0 THEN s
     ELSE LET left == IF s.values[at] > n THEN s.values[at] - n ELSE 0
          IN [s EXCEPT !.values[at] = left, !.total = @ + left - s.values[at]]

FromPairs(pairs) == FoldLeft(LAMBDA s, p : ReplacePop(s, p[1], p[2]), NewParams, pairs)

(* The pairs of address and value, in order. *)
Iter(s) == [j \in DOMAIN s.indexes |-> <<s.indexes[j], s.values[j]>>]

(* The members of a set of addresses, in order. *)
Ascending(S) ==
  CHOOSE q \in [1..Cardinality(S) -> S] : \A i, j \in DOMAIN q : i < j => q[i] < q[j]

(* Mutant: it ends with the store that ends first. *)
DoubleIterEndsEarly(s, t) ==
  LET both == {l \in ToSet(s.indexes) \cup ToSet(t.indexes) :
                 (\E m \in ToSet(s.indexes) : l <= m) /\ (\E m \in ToSet(t.indexes) : l <= m)}
      either == Ascending(both)
      at(u, loc) == IF Holds(u, loc) THEN u.values[SearchedAt(u, loc)] ELSE 0
  IN [j \in DOMAIN either |-> <<either[j], at(s, either[j]), at(t, either[j])>>]

(* The merge of two iterations, both sorted: every address of either, with *)
(* zero for the store that has it not.                                     *)
DoubleIter(s, t) ==
  LET either == Ascending(ToSet(s.indexes) \cup ToSet(t.indexes))
      at(u, loc) == IF Holds(u, loc) THEN u.values[SearchedAt(u, loc)] ELSE 0
  IN [j \in DOMAIN either |-> <<either[j], at(s, either[j]), at(t, either[j])>>]

Merge(s, t) == FoldLeft(LAMBDA u, p : AddPop(u, p[1], p[2]), s, Iter(t))
=============================================================================
