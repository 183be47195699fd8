---------------------------- MODULE MCPluginActivity ----------------------------
(***************************************************************************)
(* Small instances of PluginActivity: one or two requests at a time, a     *)
(* timeout of two ticks.                                                   *)
(***************************************************************************)
EXTENDS PluginActivity, TLC

=============================================================================
