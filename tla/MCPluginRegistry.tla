---------------------------- MODULE MCPluginRegistry ----------------------------
(***************************************************************************)
(* A small instance of PluginRegistry: a plugin path with one directory    *)
(* below it and one below that; versions of a plugin, one with a config    *)
(* file, one with a config file that cannot be loaded, and one that is not *)
(* supported.                                                              *)
(***************************************************************************)
EXTENDS PluginRegistry

MCDepth == [d \in Dirs |-> CASE d = "root" -> 0 [] d \in {"a", "b"} -> 1 [] OTHER -> 2]
MCPlugin(v, config, supported) ==
    [name |-> "foo", version |-> v, config |-> config, supported |-> supported, autoStart |-> TRUE]
MCPlugins == {MCPlugin(1, "good", TRUE), MCPlugin(2, "bad", TRUE), MCPlugin(3, "none", FALSE)}
MCGood == {MCPlugin(1, "good", TRUE), MCPlugin(2, "none", TRUE)}
=============================================================================
