-------------------------- MODULE MCServiceDispatcher --------------------------
(* Instances of ServiceDispatcher for TLC. *)
EXTENDS ServiceDispatcher, TLC

\* Sids and topics are interchangeable: no definition singles one out.
Symmetric == Permutations(Sids) \cup Permutations(Topics)
===============================================================================
