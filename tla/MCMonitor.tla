----------------------------- MODULE MCMonitor -----------------------------
(* Two services, two ports and one blocklist. *)
EXTENDS Monitor

MCServices == <<"stalwart", "museum">>
MCPorts == <<"8443", "2525">>
MCZones == <<"zen">>
=============================================================================
