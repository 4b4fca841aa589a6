--------------------------- MODULE MCRainfallHost ---------------------------
(* Instances of RainfallHost for TLC.                                      *)
EXTENDS RainfallHost, TLC

Sources == {<<"a", "?">>, <<"a">>}

OneSource == {<<"a", "?">>}

(* A replacement and its inverse, a deletion, a two-edit transaction, and  *)
(* four that are refused: empty, out of bounds, splitting a character,     *)
(* ambiguous.                                                              *)
Edits ==
  { <<Edit(0, 1, <<"b">>)>>, <<Edit(0, 1, <<"a">>)>>, <<Edit(0, 1, <<>>)>>,
    <<Edit(0, 0, <<"lead", "t1">>), Edit(1, 2, <<"b">>)>>,
    <<>>, <<Edit(0, 9, <<>>)>>, <<Edit(1, 2, <<>>)>>,
    <<Edit(1, 1, <<"a">>), Edit(1, 1, <<"b">>)>> }

(* Enough to leave a text and come back to it.                             *)
FewEdits == {<<Edit(0, 1, <<"b">>)>>, <<Edit(0, 1, <<"a">>)>>}

Symmetry == Permutations(Generation) \cup Permutations(Proc)
            \cup Permutations(Path) \cup Permutations(Document)
=============================================================================
