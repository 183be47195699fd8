------------------------------- MODULE MCFSWatcher -------------------------------
(***************************************************************************)
(* A small instance of FSWatcher: a chain of four directories, two         *)
(* watchers of one directory each and a recursive one above.               *)
(***************************************************************************)
EXTENDS FSWatcher
MCPaths == {<<>>, <<"a">>, <<"a", "b">>, <<"a", "b", "c">>, <<"a", "b", "c", "d">>}
MCPathOf == [w \in Watchers |-> IF w = "w2" THEN <<"a", "b", "c">> ELSE <<"a">>]
MCRecursive == [w \in Watchers |-> IF w = "w3" THEN 9 ELSE 0]
=============================================================================
