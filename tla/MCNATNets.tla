----------------------------- MODULE MCNATNets -----------------------------
(* NAT network registry for TLC: two networks, so a listing holds zero,   *)
(* one or two records; the configurations fix which dialects the tool    *)
(* prints and whether a blank line ends the listing.                      *)
EXTENDS NATNets
=============================================================================
