--------------------------- MODULE MCRainfallLive ---------------------------
(* Instances of RainfallLive for TLC.                                      *)
EXTENDS RainfallLive

Sources == {<<"a", "?">>}
Texts == {<<"t1", "t2">>, <<"t1", "t2", "?">>}
Edits == {<<Edit(0, 0, <<"b">>)>>}
=============================================================================
