--------------------------- MODULE MCDdlDiscovery ---------------------------
(* Instances of DdlDiscovery for TLC. *)
EXTENDS DdlDiscovery
=============================================================================
