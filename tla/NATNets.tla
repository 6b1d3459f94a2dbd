------------------------------ MODULE NATNets ------------------------------
(***************************************************************************)
(* The NAT network registry of natnet.go.  VBoxManage holds the NAT        *)
(* networks (created outside this library); NATNets() parses its "list     *)
(* natnets" colon-block listing into a map keyed by network name.  The     *)
(* listing is printed in the dialect of the tool's version (the two the    *)
(* code's comment shows), records in any order, with or without a blank    *)
(* line after the last record.                                             *)
(***************************************************************************)
EXTENDS Naturals, Sequences, SequencesExt, FiniteSets, TLC

CONSTANTS
    Names,         \* NAT network names
    Addrs,         \* gateway addresses the tool prints
    Plens,         \* IPv4 prefix lengths of the networks
    Plens6,        \* IPv6 prefix lengths
    NoAddr,        \* a nil net.IP
    NoMask,        \* a nil net.IPMask
    NoNet,         \* no NAT network of that name
    NoCall,        \* NATNets() not called yet
    Dialects,      \* the listing dialects of the tool versions in use
    TrailingBlank  \* whether the listing may end with a blank line or not

ASSUME NATNetsAssumption ==
    /\ Names \subseteq STRING /\ "" \notin Names
    /\ NoAddr \notin Addrs /\ NoMask \notin Plens \cup Plens6
    /\ Dialects \subseteq {"6.x", "7.0"}
    /\ TrailingBlank \subseteq BOOLEAN /\ TrailingBlank # {}

\* The NATNet struct; of each net.IPNet the model keeps what the parser
\* sets: the IPv4 IP and mask and the IPv6 mask.
NATNet == [Name : Names \cup {""}, IP : Addrs \cup {NoAddr},
           Mask : Plens \cup {NoMask}, IPv6Mask : Plens6 \cup {NoMask},
           DHCP : BOOLEAN, Enabled : BOOLEAN]

ZeroNATNet == [Name |-> "", IP |-> NoAddr, Mask |-> NoMask,
               IPv6Mask |-> NoMask, DHCP |-> FALSE, Enabled |-> FALSE]

\* What the tool keeps of a NAT network.
Config == [gw : Addrs, plen : Plens, plen6 : Plens6, dhcp : BOOLEAN,
           enabled : BOOLEAN]

VARIABLES
    natnets,   \* the tool's NAT networks: name -> Config or NoNet
    listed,    \* the networks the tool listed to the last NATNets() call
    result     \* what the last NATNets() returned

vars == <<natnets, listed, result>>

-----------------------------------------------------------------------------
(* The listing (lines as in DHCPServers: blank, matched by reColonLine,    *)
(* or not matched).  A CIDR is printed as address/prefix length.           *)

Blank == [kind |-> "blank"]
Colon(k, v) == [kind |-> "colon", key |-> k, val |-> v]
Unmatched == [kind |-> "other"]

YesNo(b) == IF b THEN "Yes" ELSE "No"

RecordLines(dialect, n, c) ==
    IF dialect = "6.x"
    THEN <<Colon("NetworkName", n), Colon("IP", c.gw),
           Colon("Network", [plen |-> c.plen]), Colon("IPv6 Enabled", "Yes"),
           Colon("IPv6 Prefix", [plen |-> c.plen6]),
           Colon("DHCP Enabled", YesNo(c.dhcp)),
           Colon("Enabled", YesNo(c.enabled)), Unmatched, Unmatched>>
    ELSE <<Colon("Name", n), Colon("Enabled", YesNo(c.enabled)),
           Colon("Network", [plen |-> c.plen]), Colon("Gateway", c.gw),
           Colon("DHCP Server", YesNo(c.dhcp)), Colon("IPv6", "Yes"),
           Colon("IPv6 Prefix", [plen |-> c.plen6]),
           Colon("IPv6 Default", "No"), Unmatched, Unmatched>>

Listing(s, dialect, ord, trailing) ==
    LET recs == [i \in DOMAIN ord |->
                   RecordLines(dialect, ord[i], s[ord[i]])
                   \o (IF i < Len(ord) \/ trailing THEN <<Blank>> ELSE <<>>)]
    IN FlattenSeq(recs)

\* Faulty variant: the parsed CIDR kept whole instead of its mask.
ParseCIDRMaskWhole(cidr) == cidr

\* net.ParseCIDR keeps the mask of the printed prefix length.
ParseCIDRMask(cidr) == cidr.plen

-----------------------------------------------------------------------------
(* NATNets().  A record is stored into m when the blank line after it is   *)
(* read; keys are compared case-sensitively.                               *)

\* Faulty variant: only the 7.0 key "Name" recognised for the name.
SetFieldNoAlias(n, key, val) ==
    CASE key = "Name"                    -> [n EXCEPT !.Name = val]
      [] key \in {"IP", "Gateway"}       -> [n EXCEPT !.IP = val]
      [] key = "Network"                 -> [n EXCEPT !.Mask = ParseCIDRMask(val)]
      [] key = "IPv6 Prefix"             -> [n EXCEPT !.IPv6Mask = ParseCIDRMask(val)]
      [] key = "DHCP Enabled"            -> [n EXCEPT !.DHCP = (val = "Yes")]
      [] key = "Enabled"                 -> [n EXCEPT !.Enabled = (val = "Yes")]
      [] OTHER                           -> n

SetField(n, key, val) ==
    CASE key \in {"Name", "NetworkName"} -> [n EXCEPT !.Name = val]
      [] key \in {"IP", "Gateway"}       -> [n EXCEPT !.IP = val]
      [] key = "Network"                 -> [n EXCEPT !.Mask = ParseCIDRMask(val)]
      [] key = "IPv6 Prefix"             -> [n EXCEPT !.IPv6Mask = ParseCIDRMask(val)]
      [] key = "DHCP Enabled"            -> [n EXCEPT !.DHCP = (val = "Yes")]
      [] key = "Enabled"                 -> [n EXCEPT !.Enabled = (val = "Yes")]
      [] OTHER                           -> n

\* m[k] = v on a Go map.
MapPut(m, k, v) == [x \in DOMAIN m \cup {k} |-> IF x = k THEN v ELSE m[x]]

ScanLine(st, line) ==
    CASE line.kind = "blank" ->
            [m |-> MapPut(st.m, st.n.Name, st.n), n |-> ZeroNATNet]
      [] line.kind = "colon" -> [st EXCEPT !.n = SetField(st.n, line.key, line.val)]
      [] OTHER -> st

ParseNATNets(lines) ==
    LET s[i \in 0..Len(lines)] ==
          IF i = 0 THEN [m |-> <<>>, n |-> ZeroNATNet]
          ELSE ScanLine(s[i - 1], lines[i])
    IN s[Len(lines)]

\* One NATNets() call: the tool lists its networks, the code parses them.
NATNetsCall ==
    \E dialect \in Dialects, trailing \in TrailingBlank,
      ord \in SetToSeqs({n \in Names : natnets[n] # NoNet}) :
        /\ listed' = natnets
        /\ result' = ParseNATNets(Listing(natnets, dialect, ord, trailing)).m
        /\ UNCHANGED natnets

\* The tool's users create and remove NAT networks.
ToolAddNATNet(n, c) ==
    /\ natnets[n] = NoNet
    /\ natnets' = [natnets EXCEPT ![n] = c]
    /\ UNCHANGED <<listed, result>>

ToolRemoveNATNet(n) ==
    /\ natnets[n] # NoNet
    /\ natnets' = [natnets EXCEPT ![n] = NoNet]
    /\ UNCHANGED <<listed, result>>

Init ==
    /\ natnets = [n \in Names |-> NoNet]
    /\ listed = NoCall
    /\ result = NoCall

Next ==
    \/ \E n \in Names, c \in Config : ToolAddNATNet(n, c)
    \/ \E n \in Names : ToolRemoveNATNet(n)
    \/ NATNetsCall

Spec == Init /\ [][Next]_vars

TypeOK ==
    /\ natnets \in [Names -> Config \cup {NoNet}]
    /\ listed \in [Names -> Config \cup {NoNet}] \cup {NoCall}
    /\ result = NoCall \/ \A k \in DOMAIN result : result[k] \in NATNet

\* The NATNet value the tool's network n with configuration c parses to.
AsNATNet(n, c) ==
    [Name |-> n, IP |-> c.gw, Mask |-> c.plen, IPv6Mask |-> c.plen6,
     DHCP |-> c.dhcp, Enabled |-> c.enabled]

\* Read-path faithfulness: every NATNets() call returns one entry per
\* network the tool listed, keyed by its name and holding its own fields
\* (spec 4.6: the last record must not be lost when no blank line follows
\* it; 4.1: the historical key names of one field are all accepted).
NATNetsFaithful ==
    result # NoCall =>
        /\ DOMAIN result = {n \in Names : listed[n] # NoNet}
        /\ \A n \in DOMAIN result : result[n] = AsNATNet(n, listed[n])

=============================================================================
