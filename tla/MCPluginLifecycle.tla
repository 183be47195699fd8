--------------------------- MODULE MCPluginLifecycle ---------------------------
(***************************************************************************)
(* Small instances of PluginLifecycle: a few callers of start() and        *)
(* stop(), each of which calls again and again, and two or three hosts.    *)
(***************************************************************************)
EXTENDS PluginLifecycle, TLC

AllFailures == FailureKinds
ErrorsOnly == {"spawn", "activate", "crash"}

=============================================================================
