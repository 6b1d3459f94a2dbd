--------------------------- MODULE MCDHCPServers ---------------------------
(* DHCP registry for TLC: one internal network and one host-only          *)
(* interface, so listings hold zero, one or two records in either order.  *)
EXTENDS DHCPServers
=============================================================================
