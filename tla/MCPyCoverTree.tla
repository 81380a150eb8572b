---------------------------- MODULE MCPyCoverTree ----------------------------
(* Trees that the builder makes of clouds on a line, for TLC. *)
EXTENDS PyCoverTree

N(scale, center, parent, radius, count, kids, singles) ==
  NewNode(parent, Pack(scale, center), radius, count, kids, singles)

Nodes(ns) == [na \in {n.address : n \in ns} |-> CHOOSE n \in ns : n.address = na]

(* Of the points 0, 0, 6, 7, 16: a chain of nested children down to the    *)
(* layer below the resolution, singletons, leaves on several layers.       *)
MCDeep ==
  Nodes({N(4, 4, None, 16, 5, <<Pack(3, 4), Pack(3, 0)>>, {}),
         N(3, 4, Pack(4, 4), 0, 1, Leaf, {}),
         N(3, 0, Pack(4, 4), 7, 4, <<Pack(2, 0), Pack(2, 2)>>, {}),
         N(2, 2, Pack(3, 0), 1, 2, Leaf, {3}),
         N(2, 0, Pack(3, 0), 0, 2, <<Pack(0, 0)>>, {}),
         N(0, 0, Pack(2, 0), 0, 2, <<Pack(-1, 0)>>, {}),
         N(-1, 0, Pack(0, 0), 0, 2, Leaf, {1})})

(* Of the points 0, 2, 3: a root with a nested child. *)
MCFlat ==
  Nodes({N(2, 0, None, 3, 3, <<Pack(1, 0), Pack(1, 1)>>, {}),
         N(1, 0, Pack(2, 0), 0, 1, Leaf, {}),
         N(1, 1, Pack(2, 0), 1, 2, Leaf, {2})})

Cloud(positions, values, labelled) ==
  [labels |-> [p \in 0..(labelled - 1) |-> values[p + 1]],
   metadata |-> [p \in 0..(Len(positions) - 1) |-> NoLabel],
   position |-> [p \in 0..(Len(positions) - 1) |-> positions[p + 1]]]

MCDeepLabelled ==
  [nodes |-> MCDeep, root |-> Pack(4, 4), minRes |-> 0,
   cloud |-> Cloud(<<0, 0, 6, 7, 16>>, <<1, 2, 1, 2, 2>>, 5)]

\* two labels short: those of a singleton and of the root's center
MCDeepShort == [MCDeepLabelled EXCEPT !.cloud = Cloud(<<0, 0, 6, 7, 16>>, <<1, 2, 1, 2, 2>>, 3)]

MCFlatLabelled ==
  [nodes |-> MCFlat, root |-> Pack(2, 0), minRes |-> 0, cloud |-> Cloud(<<0, 2, 3>>, <<1, 2, 2>>, 3)]

MCPrograms ==
  {<<"labels", "dirichlet", "gaussian">>, <<"coverage", "meta", "categorical">>,
   <<"gaussian", "labels", "coverage">>}
MCDatasets == {MCDeepLabelled, MCDeepShort, MCFlatLabelled}
=============================================================================
