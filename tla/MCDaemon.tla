-------------------------------- MODULE MCDaemon --------------------------------
(***************************************************************************)
(* A small instance of Daemon.                                             *)
(***************************************************************************)
EXTENDS Daemon

MCCollectors == {{}, {"x"}, {"throws"}}
=============================================================================
