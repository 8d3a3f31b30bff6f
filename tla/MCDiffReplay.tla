---------------------------- MODULE MCDiffReplay ----------------------------
(***************************************************************************)
(* The TLC instance of DiffReplay: the rpc node is one upstream and the     *)
(* explorers share the other.  Update requests are interchangeable, and so  *)
(* are the values, which replay only compares.                              *)
(***************************************************************************)
EXTENDS DiffReplay, TLC

CONSTANTS e1, e2

MCSeedOrder == <<"rpc", "blockscout", "routescan">>
MCDefaultEndpoint == [t \in Types |-> IF t = "rpc" THEN e1 ELSE e2]
Symmetry == Permutations(Admins) \cup Permutations(Raws)
=============================================================================
