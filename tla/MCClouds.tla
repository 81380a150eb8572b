------------------------------- MODULE MCClouds -------------------------------
(* Data files, ragged, of less than a float and empty, and label files of   *)
(* every kind.                                                              *)
EXTENDS CloudSession

MCFiles == [a |-> [bytes |-> 16, floats |-> <<1, 2, 3, 4>>],
            b |-> [bytes |-> 10, floats |-> <<5, 7>>],
            c |-> [bytes |-> 12, floats |-> <<6, 8, 9>>],
            tiny  |-> [bytes |-> 3, floats |-> <<>>],
            empty |-> [bytes |-> 0, floats |-> <<>>]]

Csv(rows) == [ext |-> "csv", rows |-> rows]
Dat(floats) == [ext |-> "dat", bytes |-> 4 * Len(floats), floats |-> floats]
MCLabelFiles == [full   |-> Csv(<<3, 4>>),    one    |-> Csv(<<5>>),
                 part   |-> Csv(<<3, -1>>),   gap    |-> Csv(<<Missing>>),
                 binary |-> Dat(<<1, 0>>),    bit    |-> Dat(<<1>>),
                 hot    |-> Dat(<<1, 0, 0, 1>>), zero |-> Csv(<<0, 2>>),
                 tiny   |-> [ext |-> "dat", bytes |-> 2, floats |-> <<>>], empty |-> Dat(<<>>),
                 ext    |-> [ext |-> "txt"]]

Config(data, dim, labels, ldim, index) ==
  [data_path |-> data, data_dim |-> dim, labels_path |-> labels, labels_dim |-> ldim,
   labels_index |-> index]

(* Every way to lay one, two or three label files beside the data files.    *)
MCConfigs ==
  {Config(d, n, l, m, i) :
     d \in {<<>>, <<"a">>, <<"a", "b">>, <<"b", "a">>, <<"c", "b">>, <<"b", "c">>, <<"a", "b", "b">>,
            <<"tiny">>, <<"a", "tiny">>, <<"a", "empty">>, <<"tiny", "empty">>},
     n \in {1, 2}, m \in {1, 2}, i \in BOOLEAN,
     l \in {<<x, y>> : x, y \in {"full", "one", "part", "gap", "zero", "binary", "bit", "tiny"}}
           \cup {<<"part", "gap", "gap">>, <<"hot">>, <<"hot", "binary">>, <<"binary">>, <<"full">>, <<"ext">>, <<"tiny">>,
                 <<"full", "empty">>, <<"tiny", "empty">>, <<"binary", "empty">>}}

(* Any two rows of three words, and longer rows that fill the lanes.        *)
MCMatrices ==
  {<<x, y>> : x, y \in [1..3 -> 0..2]}
  \cup {<<<<1, 0, 0, 0, 2, 0, 3>>, <<0, 0, 3, 0, 2, 0, 1>>, <<0, 0, 0, 0, 0, 0, 2>>,
          <<3, 1, 3, 0, 1, 1, 2>>>>,
        <<<<0, 0, 0, 0, 0, 0, 0, 0, 0>>, <<1, 1, 1, 1, 3, 3, 3, 3, 2>>,
          <<0, 0, 0, 3, 0, 0, 0, 1, 0>>>>}

(* Every permutation of three indexes, and lists that are none.             *)
MCReindexings ==
  {[k \in 1..3 |-> <<k - 1, p[k]>>] : p \in {q \in [1..3 -> 0..2] : Cardinality(Range(q)) = 3}}
  \cup {<<<<0, 5>>, <<1, 0>>, <<2, 1>>>>, <<<<0, 0>>, <<1, 0>>, <<2, 2>>>>,
        <<<<7, 0>>, <<1, 1>>, <<2, 2>>>>, <<<<0, 1>>, <<1, 0>>>>}

MCQueries == {<<>>, <<1, 0>>, <<0, 2, 1>>, <<9, 0, 8>>, <<0, 1, 2, 0, 2, 1, 1>>,
              <<0, 1, 9, 0, 2, 8, 1>>, <<5, 0, 1, 5, 5, 1, 0, 5>>}
=============================================================================
