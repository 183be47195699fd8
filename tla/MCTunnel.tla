-------------------------------- MODULE MCTunnel --------------------------------
(***************************************************************************)
(* Small instances of Tunnel: one subscription with the requests that end  *)
(* it, or streams side by side.                                            *)
(***************************************************************************)
EXTENDS Tunnel, TLC

=============================================================================
