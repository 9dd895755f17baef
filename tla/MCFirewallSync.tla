--------------------------- MODULE MCFirewallSync ---------------------------
(* setup, the monitor's timer and an admin, over an OS update that changes *)
(* the published ranges; see FirewallSync.cfg for the bounds.              *)
EXTENDS FirewallSync
=============================================================================
