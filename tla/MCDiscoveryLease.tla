-------------------------- MODULE MCDiscoveryLease --------------------------
(* Instances of DiscoveryLease for TLC.                                        *)
EXTENDS DiscoveryLease
=============================================================================
