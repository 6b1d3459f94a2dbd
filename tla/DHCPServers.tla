---------------------------- MODULE DHCPServers ----------------------------
(***************************************************************************)
(* The DHCP server registry of dhcp.go.  VBoxManage holds the DHCP servers *)
(* (the variable servers, keyed by the network name it lists them under);  *)
(* addDHCP asks it to add one, and DHCPs() parses its "list dhcpservers"   *)
(* colon-block listing back into a map keyed by network name.  A listing   *)
(* is rendered by the tool in one of the dialects its versions print, with *)
(* the records in any order and with or without a blank line after the    *)
(* last one; DHCPs() is one action that parses it line by line.            *)
(***************************************************************************)
EXTENDS Naturals, Sequences, SequencesExt, FiniteSets, TLC

CONSTANTS
    IntNets,       \* internal network names (addDHCP with --netname)
    HostIfs,       \* host-only interface names (addDHCP with --ifname)
    Addrs,         \* IPv4 addresses the tool prints
    Masks,         \* network masks the tool prints
    NoAddr,        \* a nil net.IP
    NoMask,        \* a nil net.IPMask
    NoServer,      \* no DHCP server for a network
    NoCall,        \* DHCPs() not called yet
    Dialects,      \* the listing dialects of the tool versions in use
    TrailingBlank  \* whether the listing may end with a blank line or not

ASSUME DHCPServersAssumption ==
    /\ IntNets \cup HostIfs \subseteq STRING
    /\ NoAddr \notin Addrs /\ NoMask \notin Masks
    /\ Dialects \subseteq {"5.x", "6.1"}
    /\ TrailingBlank \subseteq BOOLEAN /\ TrailingBlank # {}

\* The network name the tool lists a DHCP server under: a host-only
\* interface's server is listed under HostInterfaceNetworking-<ifname>.
ListedName(kind, name) ==
    IF kind = "--ifname" THEN "HostInterfaceNetworking-" \o name ELSE name

NetNames == IntNets \cup {ListedName("--ifname", i) : i \in HostIfs}

\* The DHCP struct (the IPv4 net split into its IP and its mask).
DHCP == [NetworkName : NetNames \cup {""}, IP : Addrs \cup {NoAddr},
         Mask : Masks \cup {NoMask}, LowerIP : Addrs \cup {NoAddr},
         UpperIP : Addrs \cup {NoAddr}, Enabled : BOOLEAN]

ZeroDHCP == [NetworkName |-> "", IP |-> NoAddr, Mask |-> NoMask,
             LowerIP |-> NoAddr, UpperIP |-> NoAddr, Enabled |-> FALSE]

\* What the tool keeps of a server.
Config == [ip : Addrs, mask : Masks, lower : Addrs, upper : Addrs,
           enabled : BOOLEAN]

VARIABLES
    servers,   \* the tool's DHCP servers: network name -> Config or NoServer
    listed,    \* the servers the tool listed to the last DHCPs() call
    result     \* what the last DHCPs() returned

vars == <<servers, listed, result>>

-----------------------------------------------------------------------------
(* addDHCP: the "dhcpserver add" command the code builds, and the tool     *)
(* adding the server unless the network already has one (the command then  *)
(* fails and the error is returned).                                       *)

\* Faulty variant: the mask passed where the IP belongs.
AddDHCPArgsSwapped(kind, name, d) ==
    [kind |-> kind, name |-> name, ip |-> d.Mask, netmask |-> d.IP,
     lowerip |-> d.LowerIP, upperip |-> d.UpperIP,
     enable |-> IF d.Enabled THEN "--enable" ELSE "--disable"]

AddDHCPArgs(kind, name, d) ==
    [kind |-> kind, name |-> name, ip |-> d.IP, netmask |-> d.Mask,
     lowerip |-> d.LowerIP, upperip |-> d.UpperIP,
     enable |-> IF d.Enabled THEN "--enable" ELSE "--disable"]

ToolAddDHCP(cmd) ==
    LET n == ListedName(cmd.kind, cmd.name)
    IN IF servers[n] = NoServer
       THEN servers' = [servers EXCEPT ![n] =
                [ip |-> cmd.ip, mask |-> cmd.netmask, lower |-> cmd.lowerip,
                 upper |-> cmd.upperip, enabled |-> cmd.enable = "--enable"]]
       ELSE UNCHANGED servers

\* AddInternalDHCP (kind --netname) and AddHostonlyDHCP (kind --ifname).
AddDHCP(kind, name, d) ==
    /\ ToolAddDHCP(AddDHCPArgs(kind, name, d))
    /\ UNCHANGED <<listed, result>>

-----------------------------------------------------------------------------
(* The listing.  A line is blank, a line reColonLine matches (its key and  *)
(* value), or a line it does not match.                                    *)

Blank == [kind |-> "blank"]
Colon(k, v) == [kind |-> "colon", key |-> k, val |-> v]
Unmatched == [kind |-> "other"]

YesNo(b) == IF b THEN "Yes" ELSE "No"

\* One record as the tool prints it: 5.x and 6.0 print "IP" and lower-case
\* "lowerIPAddress"; 6.1 prints "Dhcpd IP", capitalised address keys and a
\* global configuration section whose lines the parser must ignore.
RecordLines(dialect, n, c) ==
    IF dialect = "5.x"
    THEN <<Colon("NetworkName", n), Colon("IP", c.ip),
           Colon("NetworkMask", c.mask), Colon("lowerIPAddress", c.lower),
           Colon("upperIPAddress", c.upper), Colon("Enabled", YesNo(c.enabled))>>
    ELSE <<Colon("NetworkName", n), Colon("Dhcpd IP", c.ip),
           Colon("LowerIPAddress", c.lower), Colon("UpperIPAddress", c.upper),
           Colon("NetworkMask", c.mask), Colon("Enabled", YesNo(c.enabled)),
           Unmatched, Colon("    minLeaseTime", "default"),
           Colon("Groups", "None")>>

\* The listing of servers s with its records in the order ord.
Listing(s, dialect, ord, trailing) ==
    LET recs == [i \in DOMAIN ord |->
                   RecordLines(dialect, ord[i], s[ord[i]])
                   \o (IF i < Len(ord) \/ trailing THEN <<Blank>> ELSE <<>>)]
    IN FlattenSeq(recs)

\* strings.ToLower on the keys of the dialects.
ToLower(k) ==
    CASE k = "NetworkName"    -> "networkname"
      [] k = "IP"             -> "ip"
      [] k = "Dhcpd IP"       -> "dhcpd ip"
      [] k = "NetworkMask"    -> "networkmask"
      [] k \in {"lowerIPAddress", "LowerIPAddress"} -> "loweripaddress"
      [] k \in {"upperIPAddress", "UpperIPAddress"} -> "upperipaddress"
      [] k = "Enabled"        -> "enabled"
      [] k = "    minLeaseTime" -> "    minleasetime"
      [] k = "Groups"         -> "groups"

-----------------------------------------------------------------------------
(* DHCPs().  The scan keeps the map m, the DHCP being filled (dhcp) and    *)
(* the keys of m that point at that same object: m stores the pointer, so *)
(* a field set after the name line is seen through m, and a second name    *)
(* line in one record binds a second key to the same object.              *)

\* The field assignment of the switch for a lower-cased key.
SetField(d, key, val) ==
    CASE key \in {"ip", "dhcpd ip"} -> [d EXCEPT !.IP = val]
      [] key = "upperipaddress"     -> [d EXCEPT !.UpperIP = val]
      [] key = "loweripaddress"     -> [d EXCEPT !.LowerIP = val]
      [] key = "networkmask"        -> [d EXCEPT !.Mask = val]
      [] key = "enabled"            -> [d EXCEPT !.Enabled = (val = "Yes")]
      [] OTHER                      -> d

\* m[k] = v on a Go map.
MapPut(m, k, v) == [x \in DOMAIN m \cup {k} |-> IF x = k THEN v ELSE m[x]]

\* Replace the object behind the keys in bound.
Rebind(m, bound, d) == [k \in DOMAIN m |-> IF k \in bound THEN d ELSE m[k]]

\* Faulty variant: the record is stored when the blank line after it is
\* read (as NATNets() does) instead of when its name is read.
ScanLineStoreOnBlank(st, line) ==
    IF st.err \/ line.kind = "other" THEN st
    ELSE IF line.kind = "blank"
    THEN IF st.dhcp.NetworkName \in DOMAIN st.m
         THEN [st EXCEPT !.err = TRUE]
         ELSE [st EXCEPT !.m = MapPut(st.m, st.dhcp.NetworkName, st.dhcp),
                         !.dhcp = ZeroDHCP]
    ELSE LET key == ToLower(line.key)
         IN IF key = "networkname"
            THEN [st EXCEPT !.dhcp.NetworkName = line.val]
            ELSE [st EXCEPT !.dhcp = SetField(st.dhcp, key, line.val)]

ScanLine(st, line) ==
    IF st.err \/ line.kind = "other" THEN st
    ELSE IF line.kind = "blank"
    THEN [st EXCEPT !.dhcp = ZeroDHCP, !.bound = {}]
    ELSE LET key == ToLower(line.key)
         IN IF key = "networkname"
            THEN LET d == [st.dhcp EXCEPT !.NetworkName = line.val]
                 IN IF line.val \in DOMAIN st.m
                    THEN [st EXCEPT !.err = TRUE]
                    ELSE [m |-> MapPut(Rebind(st.m, st.bound, d), line.val, d),
                          dhcp |-> d, bound |-> st.bound \cup {line.val},
                          err |-> FALSE]
            ELSE LET d == SetField(st.dhcp, key, line.val)
                 IN [st EXCEPT !.m = Rebind(st.m, st.bound, d), !.dhcp = d]

ParseDHCPs(lines) ==
    LET s[i \in 0..Len(lines)] ==
          IF i = 0
          THEN [m |-> <<>>, dhcp |-> ZeroDHCP, bound |-> {}, err |-> FALSE]
          ELSE ScanLine(s[i - 1], lines[i])
    IN s[Len(lines)]

\* One DHCPs() call: the tool lists its servers, the code parses them.
DHCPs ==
    \E dialect \in Dialects, trailing \in TrailingBlank,
      ord \in SetToSeqs({n \in NetNames : servers[n] # NoServer}) :
        LET st == ParseDHCPs(Listing(servers, dialect, ord, trailing))
        IN /\ listed' = servers
           /\ result' = IF st.err THEN [ok |-> FALSE] ELSE [ok |-> TRUE, m |-> st.m]
           /\ UNCHANGED servers

-----------------------------------------------------------------------------
Init ==
    /\ servers = [n \in NetNames |-> NoServer]
    /\ listed = NoCall
    /\ result = NoCall

\* The DHCP values callers pass to addDHCP: its network name is not read.
AddInputs == [NetworkName : {""}, IP : Addrs, Mask : Masks, LowerIP : Addrs,
              UpperIP : Addrs, Enabled : BOOLEAN]

Next ==
    \/ \E name \in IntNets, d \in AddInputs : AddDHCP("--netname", name, d)
    \/ \E name \in HostIfs, d \in AddInputs : AddDHCP("--ifname", name, d)
    \/ DHCPs

Spec == Init /\ [][Next]_vars

TypeOK ==
    /\ servers \in [NetNames -> Config \cup {NoServer}]
    /\ listed \in [NetNames -> Config \cup {NoServer}] \cup {NoCall}
    /\ result = NoCall \/ result.ok \in BOOLEAN

\* The DHCP value the tool's server n with configuration c should parse to.
AsDHCP(n, c) ==
    [NetworkName |-> n, IP |-> c.ip, Mask |-> c.mask, LowerIP |-> c.lower,
     UpperIP |-> c.upper, Enabled |-> c.enabled]

\* Read-path faithfulness: every DHCPs() call returns, without error, one
\* entry per server the tool listed, keyed by its network name and holding
\* that server's own fields, whatever the dialect, the record order and
\* whether the listing ends with a blank line.
DHCPsFaithful ==
    result # NoCall =>
        /\ result.ok
        /\ DOMAIN result.m = {n \in NetNames : listed[n] # NoServer}
        /\ \A n \in DOMAIN result.m : result.m[n] = AsDHCP(n, listed[n])

=============================================================================
