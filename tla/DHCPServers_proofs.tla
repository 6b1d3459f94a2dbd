------------------------- MODULE DHCPServers_proofs -------------------------
(***************************************************************************)
(* Proofs about the DHCP server registry of dhcp.go: the variables keep    *)
(* their types, the tool holds finitely many servers, and every DHCPs()    *)
(* call returns exactly the servers the tool listed, for every set of      *)
(* networks and addresses, both listing dialects and both endings.        *)
(***************************************************************************)
EXTENDS DHCPServers, IndexLemmas, SequenceTheorems, FiniteSetTheorems, TLAPS

\* The networks the tool has a DHCP server for.
Listed(sv) == {n \in NetNames : sv[n] # NoServer}

\* The state of the scan of DHCPs() after the lines read so far.
ScanState == [m : UNION {[D -> DHCP] : D \in SUBSET NetNames},
              dhcp : DHCP, bound : SUBSET NetNames, err : BOOLEAN]

\* The variables keep their types and the tool holds finitely many servers
\* (each addDHCP adds at most one), so a listing is a finite sequence.
TypeInv == TypeOK /\ IsFiniteSet(Listed(servers))

-----------------------------------------------------------------------------
(* addDHCP writes one server, under a network name the tool lists.         *)
LEMMA AddKeepsType ==
  ASSUME TypeInv, NEW kind \in {"--netname", "--ifname"}, NEW name,
         kind = "--netname" => name \in IntNets,
         kind = "--ifname" => name \in HostIfs,
         NEW d \in AddInputs, AddDHCP(kind, name, d)
  PROVE  TypeInv'
<1> DEFINE n == ListedName(kind, name)
           c == AddDHCPArgs(kind, name, d)
           cfg == [ip |-> c.ip, mask |-> c.netmask, lower |-> c.lowerip,
                   upper |-> c.upperip, enabled |-> c.enable = "--enable"]
<1>1. n \in NetNames
  BY DEF ListedName, NetNames
<1>2. cfg \in Config
  BY DEF AddDHCPArgs, AddInputs, Config
<1>3. servers' = IF servers[n] = NoServer THEN [servers EXCEPT ![n] = cfg]
                 ELSE servers
  BY DEF AddDHCP, ToolAddDHCP, AddDHCPArgs
<1>4. servers' \in [NetNames -> Config \cup {NoServer}]
  BY <1>1, <1>2, <1>3 DEF TypeInv, TypeOK
<1>5. IsFiniteSet(Listed(servers'))
  <2>1. Listed(servers') \subseteq Listed(servers) \cup {n}
    BY <1>3 DEF Listed
  <2>2. IsFiniteSet(Listed(servers) \cup {n})
    BY FS_AddElement DEF TypeInv
  <2> QED
    BY <2>1, <2>2, FS_Subset
<1> QED
  BY <1>4, <1>5 DEF AddDHCP, TypeInv, TypeOK

-----------------------------------------------------------------------------
(***************************************************************************)
(* The scan of DHCPs() from any state: ParseDHCPs is Run from the empty    *)
(* map, and a listing made of two parts is scanned part after part.        *)
(***************************************************************************)
Run(st0, lines) ==
    LET s[i \in 0..Len(lines)] ==
          IF i = 0 THEN st0 ELSE ScanLine(s[i - 1], lines[i])
    IN s

St0 == [m |-> <<>>, dhcp |-> ZeroDHCP, bound |-> {}, err |-> FALSE]

LEMMA RunDef ==
  ASSUME NEW st0, NEW S, NEW lines \in Seq(S)
  PROVE  /\ Run(st0, lines)[0] = st0
         /\ \A i \in 1..Len(lines) :
               Run(st0, lines)[i] = ScanLine(Run(st0, lines)[i - 1], lines[i])
<1>1. FiniteNatInductiveDefHypothesis(Run(st0, lines), st0,
                                      LAMBDA v, i : ScanLine(v, lines[i]), 0, Len(lines))
  BY DEF FiniteNatInductiveDefHypothesis, Run
<1>0. Len(lines) \in Nat
  BY LenProperties
<1>2. FiniteNatInductiveDefConclusion(Run(st0, lines), st0,
                                      LAMBDA v, i : ScanLine(v, lines[i]), 0, Len(lines))
  BY <1>0, <1>1, FiniteNatInductiveDef
<1> QED
  BY <1>2 DEF FiniteNatInductiveDefConclusion

LEMMA ParseIsRun ==
  ASSUME NEW S, NEW lines \in Seq(S)
  PROVE  ParseDHCPs(lines) = Run(St0, lines)[Len(lines)]
BY DEF ParseDHCPs, Run, St0

(* Scanning a \o b is scanning a, then b from where a left the scan.       *)
LEMMA RunConcat ==
  ASSUME NEW st0, NEW S, NEW a \in Seq(S), NEW b \in Seq(S)
  PROVE  Run(st0, a \o b)[Len(a) + Len(b)]
           = Run(Run(st0, a)[Len(a)], b)[Len(b)]
<1> DEFINE r == Run(st0, a \o b)
           ra == Run(st0, a)
           rb == Run(ra[Len(a)], b)
<1>1. /\ Len(a) \in Nat /\ Len(b) \in Nat
      /\ a \o b \in Seq(S)
      /\ Len(a \o b) = Len(a) + Len(b)
      /\ \A i \in 1..Len(a) + Len(b) :
            (a \o b)[i] = IF i <= Len(a) THEN a[i] ELSE b[i - Len(a)]
  BY ConcatProperties
<1>2. r[0] = st0 /\ \A i \in 1..Len(a) + Len(b) : r[i] = ScanLine(r[i - 1], (a \o b)[i])
  <2>1. r[0] = st0 /\ \A i \in 1..Len(a \o b) : r[i] = ScanLine(r[i - 1], (a \o b)[i])
    <3>1. a \o b \in Seq(S)
      BY <1>1
    <3>2. \A L \in Seq(S) :
             /\ Run(st0, L)[0] = st0
             /\ \A i \in 1..Len(L) : Run(st0, L)[i] = ScanLine(Run(st0, L)[i - 1], L[i])
      BY RunDef
    <3> QED
      BY <3>1, <3>2
  <2> QED
    BY <2>1, <1>1
<1>3. ra[0] = st0 /\ \A i \in 1..Len(a) : ra[i] = ScanLine(ra[i - 1], a[i])
  BY RunDef
<1>4. rb[0] = ra[Len(a)] /\ \A i \in 1..Len(b) : rb[i] = ScanLine(rb[i - 1], b[i])
  BY RunDef
<1>5. \A i \in 0..Len(a) : r[i] = ra[i]
  <2> DEFINE P == {i \in Nat : i <= Len(a) => r[i] = ra[i]}
  <2>1. 0 \in P
    BY <1>1, <1>2, <1>3
  <2>2. \A i \in P \cap Nat : i + 1 \in P
    <3> TAKE i \in P \cap Nat
    <3> SUFFICES ASSUME i + 1 <= Len(a) PROVE r[i + 1] = ra[i + 1]
      OBVIOUS
    <3>1. r[i + 1] = ScanLine(r[i], a[i + 1])
      BY <1>1, <1>2
    <3>2. ra[i + 1] = ScanLine(ra[i], a[i + 1])
      BY <1>1, <1>3
    <3> QED
      BY <3>1, <3>2, <1>1
  <2>3. Nat \subseteq P
    BY <2>1, <2>2, SetInduction
  <2> QED
    BY <2>3, <1>1
<1>6. \A i \in 0..Len(b) : r[Len(a) + i] = rb[i]
  <2> DEFINE P == {i \in Nat : i <= Len(b) => r[Len(a) + i] = rb[i]}
  <2>1. 0 \in P
    BY <1>1, <1>4, <1>5
  <2>2. \A i \in P \cap Nat : i + 1 \in P
    <3> TAKE i \in P \cap Nat
    <3> SUFFICES ASSUME i + 1 <= Len(b) PROVE r[Len(a) + (i + 1)] = rb[i + 1]
      OBVIOUS
    <3>1. r[Len(a) + (i + 1)] = ScanLine(r[Len(a) + i], b[i + 1])
      BY <1>1, <1>2
    <3>2. rb[i + 1] = ScanLine(rb[i], b[i + 1])
      BY <1>1, <1>4
    <3> QED
      BY <3>1, <3>2, <1>1
  <2>3. Nat \subseteq P
    BY <2>1, <2>2, SetInduction
  <2> QED
    BY <2>3, <1>1
<1> QED
  BY <1>1, <1>6


-----------------------------------------------------------------------------
(***************************************************************************)
(* One line at a time.  Between records the scan is Clean: a fresh DHCP    *)
(* and no key bound to it.  Inside the record of network n it is InRec:    *)
(* m maps n to the DHCP being filled, which is the only object bound.      *)
(***************************************************************************)
Clean(M) == [m |-> M, dhcp |-> ZeroDHCP, bound |-> {}, err |-> FALSE]

InRec(M, n, d) == [m |-> MapPut(M, n, d), dhcp |-> d, bound |-> {n}, err |-> FALSE]

\* The lines of a listing: the keys and values both dialects print.
LineKeys == {"NetworkName", "IP", "Dhcpd IP", "NetworkMask", "lowerIPAddress",
             "LowerIPAddress", "upperIPAddress", "UpperIPAddress", "Enabled",
             "    minLeaseTime", "Groups"}
LineSet == {Blank, Unmatched} \cup
           [kind : {"colon"}, key : LineKeys,
            val : NetNames \cup Addrs \cup Masks \cup {"Yes", "No", "default", "None"}]

(* RunDef for listings, with nothing left to instantiate but the lines.   *)
LEMMA RunLines ==
  \A st0 : \A lines \in Seq(LineSet) :
     /\ Run(st0, lines)[0] = st0
     /\ \A i \in 1..Len(lines) :
           Run(st0, lines)[i] = ScanLine(Run(st0, lines)[i - 1], lines[i])
BY RunDef

(* A name line read between records binds a new key to a fresh DHCP.      *)
LEMMA NameLine ==
  ASSUME NEW D, NEW X, NEW M \in [D -> X], NEW n, n \notin D
  PROVE  ScanLine(Clean(M), Colon("NetworkName", n))
           = InRec(M, n, [ZeroDHCP EXCEPT !.NetworkName = n])
<1>1. Rebind(M, {}, [ZeroDHCP EXCEPT !.NetworkName = n]) = M
  BY DEF Rebind
<1>2. ToLower("NetworkName") = "networkname"
  BY DEF ToLower
<1> QED
  BY <1>1, <1>2 DEF ScanLine, Clean, InRec, Colon

(* Any other key line fills in the DHCP, seen through m.                  *)
LEMMA FieldLine ==
  ASSUME NEW M, NEW n, NEW d, NEW k, NEW v, ToLower(k) # "networkname"
  PROVE  ScanLine(InRec(M, n, d), Colon(k, v))
           = InRec(M, n, SetField(d, ToLower(k), v))
<1>1. \A d2 : Rebind(MapPut(M, n, d), {n}, d2) = MapPut(M, n, d2)
  BY DEF Rebind, MapPut
<1> QED
  BY <1>1 DEF ScanLine, InRec, Colon

(* A line reColonLine does not match changes nothing.                     *)
LEMMA OtherLine ==
  ASSUME NEW M, NEW n, NEW d
  PROVE  ScanLine(InRec(M, n, d), Unmatched) = InRec(M, n, d)
BY DEF ScanLine, InRec, Unmatched

(* The blank line after a record starts a fresh DHCP; m keeps the record. *)
LEMMA BlankLine ==
  ASSUME NEW M, NEW n, NEW d
  PROVE  ScanLine(InRec(M, n, d), Blank) = Clean(MapPut(M, n, d))
BY DEF ScanLine, InRec, Blank, Clean


(* The keys of both dialects, lower-cased.                                 *)
LEMMA LowerKeys ==
  /\ ToLower("IP") = "ip"
  /\ ToLower("NetworkMask") = "networkmask"
  /\ ToLower("lowerIPAddress") = "loweripaddress"
  /\ ToLower("LowerIPAddress") = "loweripaddress"
  /\ ToLower("upperIPAddress") = "upperipaddress"
  /\ ToLower("UpperIPAddress") = "upperipaddress"
  /\ ToLower("Enabled") = "enabled"
  /\ ToLower("Groups") = "groups"
BY DEF ToLower


(***************************************************************************)
(* The DHCP being filled, field by field.  Rec names a DHCP by its six    *)
(* fields; every step of a record is stated on Rec terms, whose fields    *)
(* are left opaque, so that the zero value's fields never need to be      *)
(* spelled out: the record overwrites every one of them.                   *)
(***************************************************************************)
Rec(a, b, m, l, u, e) ==
    [NetworkName |-> a, IP |-> b, Mask |-> m, LowerIP |-> l, UpperIP |-> u,
     Enabled |-> e]

DHCPFields == {"NetworkName", "IP", "Mask", "LowerIP", "UpperIP", "Enabled"}

(* A function on the six fields is the Rec of its fields.                 *)
LEMMA RecOfFields ==
  ASSUME NEW d, d = [x \in DHCPFields |-> d[x]]
  PROVE  d = Rec(d.NetworkName, d.IP, d.Mask, d.LowerIP, d.UpperIP, d.Enabled)
BY DEF DHCPFields, Rec

\* The zero DHCP with the name line's write.
Named(n) == [ZeroDHCP EXCEPT !.NetworkName = n]

(* The name line's write to a zero DHCP.                                   *)
LEMMA NamedZero ==
  ASSUME NEW n
  PROVE  Named(n) = Rec(n, Named(n).IP, Named(n).Mask, Named(n).LowerIP,
                        Named(n).UpperIP, Named(n).Enabled)
<1> DEFINE d == Named(n)
<1>1. d = [x \in DHCPFields |-> d[x]]
  BY DEF Named, ZeroDHCP, DHCPFields
<1>2. d.NetworkName = n
  BY DEF Named, ZeroDHCP
<1>3. d = Rec(d.NetworkName, d.IP, d.Mask, d.LowerIP, d.UpperIP, d.Enabled)
  BY <1>1, RecOfFields
<1> QED
  BY <1>2, <1>3

\* The keys of the 6.1 dialect that hold a space, and their lower-cased forms,
\* by name (the SMT backend cannot take a string literal with a space).
KDhcpdIP == "Dhcpd IP"
KdhcpdIP == "dhcpd ip"
KMinLease == "    minLeaseTime"
KminLease == "    minleasetime"

(* Those keys lower-cased, and none of them is the name key.               *)
LEMMA SpacedKeys ==
  /\ ToLower(KDhcpdIP) = KdhcpdIP /\ ToLower(KMinLease) = KminLease
  /\ KdhcpdIP # "networkname" /\ KminLease # "networkname"
  /\ KDhcpdIP \in LineKeys /\ KMinLease \in LineKeys
BY DEF ToLower, KDhcpdIP, KdhcpdIP, KMinLease, KminLease, LineKeys

(* The switch of DHCPs() on each lower-cased key of the dialects.        *)
\* The case "ip" sets the IP.
LEMMA SetIP ==
  ASSUME NEW a, NEW b, NEW m, NEW l, NEW u, NEW e, NEW v
  PROVE  SetField(Rec(a, b, m, l, u, e), "ip", v) = Rec(a, v, m, l, u, e)
BY DEF SetField, Rec

\* The case KdhcpdIP sets the IP (6.1 key).
LEMMA SetDhcpdIP ==
  ASSUME NEW a, NEW b, NEW m, NEW l, NEW u, NEW e, NEW v
  PROVE  SetField(Rec(a, b, m, l, u, e), KdhcpdIP, v) = Rec(a, v, m, l, u, e)
BY DEF SetField, Rec, KdhcpdIP

\* The case "networkmask" sets the mask.
LEMMA SetMask ==
  ASSUME NEW a, NEW b, NEW m, NEW l, NEW u, NEW e, NEW v
  PROVE  SetField(Rec(a, b, m, l, u, e), "networkmask", v) = Rec(a, b, v, l, u, e)
BY DEF SetField, Rec

\* The case "loweripaddress" sets the lower address.
LEMMA SetLower ==
  ASSUME NEW a, NEW b, NEW m, NEW l, NEW u, NEW e, NEW v
  PROVE  SetField(Rec(a, b, m, l, u, e), "loweripaddress", v) = Rec(a, b, m, v, u, e)
BY DEF SetField, Rec

\* The case "upperipaddress" sets the upper address.
LEMMA SetUpper ==
  ASSUME NEW a, NEW b, NEW m, NEW l, NEW u, NEW e, NEW v
  PROVE  SetField(Rec(a, b, m, l, u, e), "upperipaddress", v) = Rec(a, b, m, l, v, e)
BY DEF SetField, Rec

\* The case "enabled" sets Enabled, true for "Yes".
LEMMA SetEnabled ==
  ASSUME NEW a, NEW b, NEW m, NEW l, NEW u, NEW e, NEW v
  PROVE  SetField(Rec(a, b, m, l, u, e), "enabled", v) = Rec(a, b, m, l, u, v = "Yes")
BY DEF SetField, Rec

\* The case KminLease sets nothing.
LEMMA SetMinLease ==
  ASSUME NEW a, NEW b, NEW m, NEW l, NEW u, NEW e, NEW v
  PROVE  SetField(Rec(a, b, m, l, u, e), KminLease, v) = Rec(a, b, m, l, u, e)
BY DEF SetField, Rec, KminLease

\* The case "groups" sets nothing.
LEMMA SetGroups ==
  ASSUME NEW a, NEW b, NEW m, NEW l, NEW u, NEW e, NEW v
  PROVE  SetField(Rec(a, b, m, l, u, e), "groups", v) = Rec(a, b, m, l, u, e)
BY DEF SetField, Rec

(* "Yes" and "No" read back as the Boolean printed.                        *)
LEMMA YesNoRead ==
  ASSUME NEW b \in BOOLEAN
  PROVE  (YesNo(b) = "Yes") = b
BY DEF YesNo

(* FieldLine with the lower-cased key given.                              *)
LEMMA FieldStep ==
  ASSUME NEW M, NEW n, NEW d, NEW k, NEW v, NEW key,
         ToLower(k) = key, key # "networkname"
  PROVE  ScanLine(InRec(M, n, d), Colon(k, v)) = InRec(M, n, SetField(d, key, v))
BY FieldLine

(* The lines of a record are lines of a listing.                           *)
LEMMA LineFacts ==
  ASSUME NEW n \in NetNames, NEW c \in Config
  PROVE  /\ Colon("NetworkName", n) \in LineSet
         /\ Colon("IP", c.ip) \in LineSet
         /\ Colon(KDhcpdIP, c.ip) \in LineSet
         /\ Colon("NetworkMask", c.mask) \in LineSet
         /\ Colon("lowerIPAddress", c.lower) \in LineSet
         /\ Colon("LowerIPAddress", c.lower) \in LineSet
         /\ Colon("upperIPAddress", c.upper) \in LineSet
         /\ Colon("UpperIPAddress", c.upper) \in LineSet
         /\ Colon("Enabled", YesNo(c.enabled)) \in LineSet
         /\ Unmatched \in LineSet
         /\ Colon(KMinLease, "default") \in LineSet
         /\ Colon("Groups", "None") \in LineSet
<1>1. c.ip \in Addrs /\ c.mask \in Masks /\ c.lower \in Addrs /\ c.upper \in Addrs
  BY DEF Config
<1>2. YesNo(c.enabled) \in {"Yes", "No"}
  BY DEF YesNo
<1>3. KDhcpdIP \in LineKeys /\ KMinLease \in LineKeys
  BY SpacedKeys
<1> QED
  BY <1>1, <1>2, <1>3 DEF Colon, LineSet, LineKeys, Unmatched

(* Tuples of the lengths of the two dialects' records.                      *)
LEMMA Tuple6 ==
  ASSUME NEW S, NEW a1 \in S, NEW a2 \in S, NEW a3 \in S, NEW a4 \in S,
         NEW a5 \in S, NEW a6 \in S
  PROVE  /\ <<a1, a2, a3, a4, a5, a6>> \in Seq(S)
         /\ Len(<<a1, a2, a3, a4, a5, a6>>) = 6
OBVIOUS

LEMMA Tuple9 ==
  ASSUME NEW S, NEW a1 \in S, NEW a2 \in S, NEW a3 \in S, NEW a4 \in S,
         NEW a5 \in S, NEW a6 \in S, NEW a7 \in S, NEW a8 \in S, NEW a9 \in S
  PROVE  /\ <<a1, a2, a3, a4, a5, a6, a7, a8, a9>> \in Seq(S)
         /\ Len(<<a1, a2, a3, a4, a5, a6, a7, a8, a9>>) = 9
OBVIOUS

(* The record of network n in the 5.x dialect leaves the scan inside the  *)
(* record, with the DHCP n's configuration c parses to.                    *)
LEMMA Record5 ==
  ASSUME NEW D, NEW X, NEW M \in [D -> X], NEW n \in NetNames, n \notin D,
         NEW c \in Config
  PROVE  LET L == RecordLines("5.x", n, c)
         IN  /\ L \in Seq(LineSet)
             /\ Run(Clean(M), L)[Len(L)] = InRec(M, n, AsDHCP(n, c))
<1> DEFINE L == RecordLines("5.x", n, c)
           r == Run(Clean(M), L)
           e1 == Rec(n, Named(n).IP, Named(n).Mask,
                      Named(n).LowerIP, Named(n).UpperIP, Named(n).Enabled)
           e2 == Rec(n, c.ip, Named(n).Mask,
                      Named(n).LowerIP, Named(n).UpperIP, Named(n).Enabled)
           e3 == Rec(n, c.ip, c.mask,
                      Named(n).LowerIP, Named(n).UpperIP, Named(n).Enabled)
           e4 == Rec(n, c.ip, c.mask,
                      c.lower, Named(n).UpperIP, Named(n).Enabled)
           e5 == Rec(n, c.ip, c.mask,
                      c.lower, c.upper, Named(n).Enabled)
           e6 == Rec(n, c.ip, c.mask,
                      c.lower, c.upper, YesNo(c.enabled) = "Yes")
<1>1. L = <<Colon("NetworkName", n),
             Colon("IP", c.ip),
             Colon("NetworkMask", c.mask),
             Colon("lowerIPAddress", c.lower),
             Colon("upperIPAddress", c.upper),
             Colon("Enabled", YesNo(c.enabled))>>
  BY DEF RecordLines
<1>2. L \in Seq(LineSet) /\ Len(L) = 6
  <2>1. /\ Colon("NetworkName", n) \in LineSet
        /\ Colon("IP", c.ip) \in LineSet
        /\ Colon("NetworkMask", c.mask) \in LineSet
        /\ Colon("lowerIPAddress", c.lower) \in LineSet
        /\ Colon("upperIPAddress", c.upper) \in LineSet
        /\ Colon("Enabled", YesNo(c.enabled)) \in LineSet
    BY LineFacts
  <2>2. /\ <<Colon("NetworkName", n), Colon("IP", c.ip), Colon("NetworkMask", c.mask), Colon("lowerIPAddress", c.lower), Colon("upperIPAddress", c.upper), Colon("Enabled", YesNo(c.enabled))>> \in Seq(LineSet)
        /\ Len(<<Colon("NetworkName", n), Colon("IP", c.ip), Colon("NetworkMask", c.mask), Colon("lowerIPAddress", c.lower), Colon("upperIPAddress", c.upper), Colon("Enabled", YesNo(c.enabled))>>) = 6
    BY <2>1, Tuple6
  <2> QED
    BY <1>1, <2>2
<1>3. r[0] = Clean(M) /\ \A i \in 1..Len(L) : r[i] = ScanLine(r[i - 1], L[i])
  BY <1>2, RunLines
<1>4. r[1] = InRec(M, n, e1)
  <2>1. r[1] = ScanLine(Clean(M), Colon("NetworkName", n))
    <3>1. L[1] = Colon("NetworkName", n) /\ 1 \in 1..Len(L)
      BY <1>1, <1>2
    <3> QED
      BY <3>1, <1>3
  <2>2. ScanLine(Clean(M), Colon("NetworkName", n)) = InRec(M, n, Named(n))
    BY NameLine DEF Named
  <2>3. Named(n) = e1
    BY NamedZero
  <2> QED
    BY <2>1, <2>2, <2>3
<1>5. r[2] = InRec(M, n, e2)
  <2>1. r[2] = ScanLine(InRec(M, n, e1), Colon("IP", c.ip))
    <3>1. L[2] = Colon("IP", c.ip) /\ 2 \in 1..Len(L)
      BY <1>1, <1>2
    <3> QED
      BY <3>1, <1>3, <1>4
  <2>2. ScanLine(InRec(M, n, e1), Colon("IP", c.ip)) = InRec(M, n, SetField(e1, "ip", c.ip))
    <3>1. ToLower("IP") = "ip"
      BY LowerKeys
    <3>2. "ip" # "networkname"
      OBVIOUS
    <3> QED
      BY <3>1, <3>2, FieldStep
  <2>3. SetField(e1, "ip", c.ip) = e2
    BY SetIP
  <2> QED
    BY <2>1, <2>2, <2>3
<1>6. r[3] = InRec(M, n, e3)
  <2>1. r[3] = ScanLine(InRec(M, n, e2), Colon("NetworkMask", c.mask))
    <3>1. L[3] = Colon("NetworkMask", c.mask) /\ 3 \in 1..Len(L)
      BY <1>1, <1>2
    <3> QED
      BY <3>1, <1>3, <1>5
  <2>2. ScanLine(InRec(M, n, e2), Colon("NetworkMask", c.mask)) = InRec(M, n, SetField(e2, "networkmask", c.mask))
    <3>1. ToLower("NetworkMask") = "networkmask"
      BY LowerKeys
    <3>2. "networkmask" # "networkname"
      OBVIOUS
    <3> QED
      BY <3>1, <3>2, FieldStep
  <2>3. SetField(e2, "networkmask", c.mask) = e3
    BY SetMask
  <2> QED
    BY <2>1, <2>2, <2>3
<1>7. r[4] = InRec(M, n, e4)
  <2>1. r[4] = ScanLine(InRec(M, n, e3), Colon("lowerIPAddress", c.lower))
    <3>1. L[4] = Colon("lowerIPAddress", c.lower) /\ 4 \in 1..Len(L)
      BY <1>1, <1>2
    <3> QED
      BY <3>1, <1>3, <1>6
  <2>2. ScanLine(InRec(M, n, e3), Colon("lowerIPAddress", c.lower)) = InRec(M, n, SetField(e3, "loweripaddress", c.lower))
    <3>1. ToLower("lowerIPAddress") = "loweripaddress"
      BY LowerKeys
    <3>2. "loweripaddress" # "networkname"
      OBVIOUS
    <3> QED
      BY <3>1, <3>2, FieldStep
  <2>3. SetField(e3, "loweripaddress", c.lower) = e4
    BY SetLower
  <2> QED
    BY <2>1, <2>2, <2>3
<1>8. r[5] = InRec(M, n, e5)
  <2>1. r[5] = ScanLine(InRec(M, n, e4), Colon("upperIPAddress", c.upper))
    <3>1. L[5] = Colon("upperIPAddress", c.upper) /\ 5 \in 1..Len(L)
      BY <1>1, <1>2
    <3> QED
      BY <3>1, <1>3, <1>7
  <2>2. ScanLine(InRec(M, n, e4), Colon("upperIPAddress", c.upper)) = InRec(M, n, SetField(e4, "upperipaddress", c.upper))
    <3>1. ToLower("upperIPAddress") = "upperipaddress"
      BY LowerKeys
    <3>2. "upperipaddress" # "networkname"
      OBVIOUS
    <3> QED
      BY <3>1, <3>2, FieldStep
  <2>3. SetField(e4, "upperipaddress", c.upper) = e5
    BY SetUpper
  <2> QED
    BY <2>1, <2>2, <2>3
<1>9. r[6] = InRec(M, n, e6)
  <2>1. r[6] = ScanLine(InRec(M, n, e5), Colon("Enabled", YesNo(c.enabled)))
    <3>1. L[6] = Colon("Enabled", YesNo(c.enabled)) /\ 6 \in 1..Len(L)
      BY <1>1, <1>2
    <3> QED
      BY <3>1, <1>3, <1>8
  <2>2. ScanLine(InRec(M, n, e5), Colon("Enabled", YesNo(c.enabled))) = InRec(M, n, SetField(e5, "enabled", YesNo(c.enabled)))
    <3>1. ToLower("Enabled") = "enabled"
      BY LowerKeys
    <3>2. "enabled" # "networkname"
      OBVIOUS
    <3> QED
      BY <3>1, <3>2, FieldStep
  <2>3. SetField(e5, "enabled", YesNo(c.enabled)) = e6
    BY SetEnabled
  <2> QED
    BY <2>1, <2>2, <2>3
<1>10. (YesNo(c.enabled) = "Yes") = c.enabled
  BY YesNoRead DEF Config
<1>11. e6 = AsDHCP(n, c)
  BY <1>10 DEF Rec, AsDHCP
<1> QED
  BY <1>2, <1>9, <1>11

(* The same for the record in the 6.1 dialect, whose global section lines *)
(* the scan skips or leaves without effect.                               *)
LEMMA Record61 ==
  ASSUME NEW D, NEW X, NEW M \in [D -> X], NEW n \in NetNames, n \notin D,
         NEW c \in Config
  PROVE  LET L == RecordLines("6.1", n, c)
         IN  /\ L \in Seq(LineSet)
             /\ Run(Clean(M), L)[Len(L)] = InRec(M, n, AsDHCP(n, c))
<1> DEFINE L == RecordLines("6.1", n, c)
           r == Run(Clean(M), L)
           e1 == Rec(n, Named(n).IP, Named(n).Mask,
                      Named(n).LowerIP, Named(n).UpperIP, Named(n).Enabled)
           e2 == Rec(n, c.ip, Named(n).Mask,
                      Named(n).LowerIP, Named(n).UpperIP, Named(n).Enabled)
           e3 == Rec(n, c.ip, Named(n).Mask,
                      c.lower, Named(n).UpperIP, Named(n).Enabled)
           e4 == Rec(n, c.ip, Named(n).Mask,
                      c.lower, c.upper, Named(n).Enabled)
           e5 == Rec(n, c.ip, c.mask,
                      c.lower, c.upper, Named(n).Enabled)
           e6 == Rec(n, c.ip, c.mask,
                      c.lower, c.upper, YesNo(c.enabled) = "Yes")
<1>1. L = <<Colon("NetworkName", n),
             Colon(KDhcpdIP, c.ip),
             Colon("LowerIPAddress", c.lower),
             Colon("UpperIPAddress", c.upper),
             Colon("NetworkMask", c.mask),
             Colon("Enabled", YesNo(c.enabled)),
             Unmatched,
             Colon(KMinLease, "default"),
             Colon("Groups", "None")>>
  BY DEF RecordLines, KDhcpdIP, KMinLease
<1>2. L \in Seq(LineSet) /\ Len(L) = 9
  <2>1. /\ Colon("NetworkName", n) \in LineSet
        /\ Colon(KDhcpdIP, c.ip) \in LineSet
        /\ Colon("LowerIPAddress", c.lower) \in LineSet
        /\ Colon("UpperIPAddress", c.upper) \in LineSet
        /\ Colon("NetworkMask", c.mask) \in LineSet
        /\ Colon("Enabled", YesNo(c.enabled)) \in LineSet
        /\ Unmatched \in LineSet
        /\ Colon(KMinLease, "default") \in LineSet
        /\ Colon("Groups", "None") \in LineSet
    BY LineFacts
  <2>2. /\ <<Colon("NetworkName", n), Colon(KDhcpdIP, c.ip), Colon("LowerIPAddress", c.lower), Colon("UpperIPAddress", c.upper), Colon("NetworkMask", c.mask), Colon("Enabled", YesNo(c.enabled)), Unmatched, Colon(KMinLease, "default"), Colon("Groups", "None")>> \in Seq(LineSet)
        /\ Len(<<Colon("NetworkName", n), Colon(KDhcpdIP, c.ip), Colon("LowerIPAddress", c.lower), Colon("UpperIPAddress", c.upper), Colon("NetworkMask", c.mask), Colon("Enabled", YesNo(c.enabled)), Unmatched, Colon(KMinLease, "default"), Colon("Groups", "None")>>) = 9
    BY <2>1, Tuple9
  <2> QED
    BY <1>1, <2>2
<1>3. r[0] = Clean(M) /\ \A i \in 1..Len(L) : r[i] = ScanLine(r[i - 1], L[i])
  BY <1>2, RunLines
<1>4. r[1] = InRec(M, n, e1)
  <2>1. r[1] = ScanLine(Clean(M), Colon("NetworkName", n))
    <3>1. L[1] = Colon("NetworkName", n) /\ 1 \in 1..Len(L)
      BY <1>1, <1>2
    <3> QED
      BY <3>1, <1>3
  <2>2. ScanLine(Clean(M), Colon("NetworkName", n)) = InRec(M, n, Named(n))
    BY NameLine DEF Named
  <2>3. Named(n) = e1
    BY NamedZero
  <2> QED
    BY <2>1, <2>2, <2>3
<1>5. r[2] = InRec(M, n, e2)
  <2>1. r[2] = ScanLine(InRec(M, n, e1), Colon(KDhcpdIP, c.ip))
    <3>1. L[2] = Colon(KDhcpdIP, c.ip) /\ 2 \in 1..Len(L)
      BY <1>1, <1>2
    <3> QED
      BY <3>1, <1>3, <1>4
  <2>2. ScanLine(InRec(M, n, e1), Colon(KDhcpdIP, c.ip)) = InRec(M, n, SetField(e1, KdhcpdIP, c.ip))
    <3>1. ToLower(KDhcpdIP) = KdhcpdIP
      BY SpacedKeys
    <3>2. KdhcpdIP # "networkname"
      BY SpacedKeys
    <3> QED
      BY <3>1, <3>2, FieldStep
  <2>3. SetField(e1, KdhcpdIP, c.ip) = e2
    BY SetDhcpdIP
  <2> QED
    BY <2>1, <2>2, <2>3
<1>6. r[3] = InRec(M, n, e3)
  <2>1. r[3] = ScanLine(InRec(M, n, e2), Colon("LowerIPAddress", c.lower))
    <3>1. L[3] = Colon("LowerIPAddress", c.lower) /\ 3 \in 1..Len(L)
      BY <1>1, <1>2
    <3> QED
      BY <3>1, <1>3, <1>5
  <2>2. ScanLine(InRec(M, n, e2), Colon("LowerIPAddress", c.lower)) = InRec(M, n, SetField(e2, "loweripaddress", c.lower))
    <3>1. ToLower("LowerIPAddress") = "loweripaddress"
      BY LowerKeys
    <3>2. "loweripaddress" # "networkname"
      OBVIOUS
    <3> QED
      BY <3>1, <3>2, FieldStep
  <2>3. SetField(e2, "loweripaddress", c.lower) = e3
    BY SetLower
  <2> QED
    BY <2>1, <2>2, <2>3
<1>7. r[4] = InRec(M, n, e4)
  <2>1. r[4] = ScanLine(InRec(M, n, e3), Colon("UpperIPAddress", c.upper))
    <3>1. L[4] = Colon("UpperIPAddress", c.upper) /\ 4 \in 1..Len(L)
      BY <1>1, <1>2
    <3> QED
      BY <3>1, <1>3, <1>6
  <2>2. ScanLine(InRec(M, n, e3), Colon("UpperIPAddress", c.upper)) = InRec(M, n, SetField(e3, "upperipaddress", c.upper))
    <3>1. ToLower("UpperIPAddress") = "upperipaddress"
      BY LowerKeys
    <3>2. "upperipaddress" # "networkname"
      OBVIOUS
    <3> QED
      BY <3>1, <3>2, FieldStep
  <2>3. SetField(e3, "upperipaddress", c.upper) = e4
    BY SetUpper
  <2> QED
    BY <2>1, <2>2, <2>3
<1>8. r[5] = InRec(M, n, e5)
  <2>1. r[5] = ScanLine(InRec(M, n, e4), Colon("NetworkMask", c.mask))
    <3>1. L[5] = Colon("NetworkMask", c.mask) /\ 5 \in 1..Len(L)
      BY <1>1, <1>2
    <3> QED
      BY <3>1, <1>3, <1>7
  <2>2. ScanLine(InRec(M, n, e4), Colon("NetworkMask", c.mask)) = InRec(M, n, SetField(e4, "networkmask", c.mask))
    <3>1. ToLower("NetworkMask") = "networkmask"
      BY LowerKeys
    <3>2. "networkmask" # "networkname"
      OBVIOUS
    <3> QED
      BY <3>1, <3>2, FieldStep
  <2>3. SetField(e4, "networkmask", c.mask) = e5
    BY SetMask
  <2> QED
    BY <2>1, <2>2, <2>3
<1>9. r[6] = InRec(M, n, e6)
  <2>1. r[6] = ScanLine(InRec(M, n, e5), Colon("Enabled", YesNo(c.enabled)))
    <3>1. L[6] = Colon("Enabled", YesNo(c.enabled)) /\ 6 \in 1..Len(L)
      BY <1>1, <1>2
    <3> QED
      BY <3>1, <1>3, <1>8
  <2>2. ScanLine(InRec(M, n, e5), Colon("Enabled", YesNo(c.enabled))) = InRec(M, n, SetField(e5, "enabled", YesNo(c.enabled)))
    <3>1. ToLower("Enabled") = "enabled"
      BY LowerKeys
    <3>2. "enabled" # "networkname"
      OBVIOUS
    <3> QED
      BY <3>1, <3>2, FieldStep
  <2>3. SetField(e5, "enabled", YesNo(c.enabled)) = e6
    BY SetEnabled
  <2> QED
    BY <2>1, <2>2, <2>3
<1>10. r[7] = InRec(M, n, e6)
  <2>1. r[7] = ScanLine(InRec(M, n, e6), Unmatched)
    <3>1. L[7] = Unmatched /\ 7 \in 1..Len(L)
      BY <1>1, <1>2
    <3> QED
      BY <3>1, <1>3, <1>9
  <2> QED
    BY <2>1, OtherLine
<1>11. r[8] = InRec(M, n, e6)
  <2>1. r[8] = ScanLine(InRec(M, n, e6), Colon(KMinLease, "default"))
    <3>1. L[8] = Colon(KMinLease, "default") /\ 8 \in 1..Len(L)
      BY <1>1, <1>2
    <3> QED
      BY <3>1, <1>3, <1>10
  <2>2. ScanLine(InRec(M, n, e6), Colon(KMinLease, "default")) = InRec(M, n, SetField(e6, KminLease, "default"))
    <3>1. ToLower(KMinLease) = KminLease
      BY SpacedKeys
    <3>2. KminLease # "networkname"
      BY SpacedKeys
    <3> QED
      BY <3>1, <3>2, FieldStep
  <2>3. SetField(e6, KminLease, "default") = e6
    BY SetMinLease
  <2> QED
    BY <2>1, <2>2, <2>3
<1>12. r[9] = InRec(M, n, e6)
  <2>1. r[9] = ScanLine(InRec(M, n, e6), Colon("Groups", "None"))
    <3>1. L[9] = Colon("Groups", "None") /\ 9 \in 1..Len(L)
      BY <1>1, <1>2
    <3> QED
      BY <3>1, <1>3, <1>11
  <2>2. ScanLine(InRec(M, n, e6), Colon("Groups", "None")) = InRec(M, n, SetField(e6, "groups", "None"))
    <3>1. ToLower("Groups") = "groups"
      BY LowerKeys
    <3>2. "groups" # "networkname"
      OBVIOUS
    <3> QED
      BY <3>1, <3>2, FieldStep
  <2>3. SetField(e6, "groups", "None") = e6
    BY SetGroups
  <2> QED
    BY <2>1, <2>2, <2>3
<1>13. (YesNo(c.enabled) = "Yes") = c.enabled
  BY YesNoRead DEF Config
<1>14. e6 = AsDHCP(n, c)
  BY <1>13 DEF Rec, AsDHCP
<1> QED
  BY <1>2, <1>12, <1>14

-----------------------------------------------------------------------------
(***************************************************************************)
(* The record order: an order in SetToSeqs(S) lists every element of S    *)
(* exactly once.                                                           *)
(***************************************************************************)
LEMMA OrdFacts ==
  ASSUME NEW S, IsFiniteSet(S), NEW ord \in SetToSeqs(S)
  PROVE  /\ ord \in Seq(S)
         /\ Len(ord) = Cardinality(S)
         /\ \A i, j \in 1..Len(ord) : i # j => ord[i] # ord[j]
         /\ S = {ord[i] : i \in 1..Len(ord)}
<1> DEFINE N == Cardinality(S)
<1>1. N \in Nat
  BY FS_CardinalityType
<1>2. /\ ord \in [1..N -> S]
      /\ \A i, j \in 1..N : i # j => ord[i] # ord[j]
  BY DEF SetToSeqs
<1>3. ord \in Seq(S) /\ Len(ord) = N
  BY <1>1, <1>2
<1>4. ord \in Injection(1..N, S)
  <2>1. IsInjective(ord)
    BY <1>2 DEF IsInjective
  <2> QED
    BY <1>2, <2>1 DEF Injection
<1>5. Cardinality(1..N) = N
  BY <1>1, FS_Interval
<1>6. ord \in Surjection(1..N, S)
  BY <1>4, <1>5, FS_Injection
<1>7. S = {ord[i] : i \in 1..N}
  BY <1>2, <1>6 DEF Surjection
<1> QED
  BY <1>2, <1>3, <1>7

\* A record followed by the blank line, or not.
Block(dialect, n, c, ending) == RecordLines(dialect, n, c) \o ending

(* A record of either dialect, followed by the blank line or not, from    *)
(* between records: with the blank line the scan is between records      *)
(* again, the record stored under its name; without it, it is still       *)
(* inside the record.                                                      *)
LEMMA RecordBlock ==
  ASSUME NEW D, NEW X, NEW M \in [D -> X], NEW n \in NetNames, n \notin D,
         NEW c \in Config, NEW dialect \in {"5.x", "6.1"},
         NEW ending \in {<<Blank>>, <<>>}
  PROVE  /\ Block(dialect, n, c, ending) \in Seq(LineSet)
         /\ ending = <<>> =>
              Run(Clean(M), Block(dialect, n, c, ending))[Len(Block(dialect, n, c, ending))]
                = InRec(M, n, AsDHCP(n, c))
         /\ ending = <<Blank>> =>
              Run(Clean(M), Block(dialect, n, c, ending))[Len(Block(dialect, n, c, ending))]
                = Clean(MapPut(M, n, AsDHCP(n, c)))
<1> DEFINE R == RecordLines(dialect, n, c)
           T == ending
           d == AsDHCP(n, c)
<1>1. R \in Seq(LineSet) /\ Run(Clean(M), R)[Len(R)] = InRec(M, n, d)
  <2>1. CASE dialect = "5.x"
    <3>1. /\ RecordLines("5.x", n, c) \in Seq(LineSet)
          /\ Run(Clean(M), RecordLines("5.x", n, c))[Len(RecordLines("5.x", n, c))]
               = InRec(M, n, d)
      BY Record5
    <3> QED
      BY <2>1, <3>1
  <2>2. CASE dialect = "6.1"
    <3>1. /\ RecordLines("6.1", n, c) \in Seq(LineSet)
          /\ Run(Clean(M), RecordLines("6.1", n, c))[Len(RecordLines("6.1", n, c))]
               = InRec(M, n, d)
      BY SMTT(30), Record61
    <3> QED
      BY <2>2, <3>1
  <2> QED
    BY <2>1, <2>2
<1>2. T \in Seq(LineSet)
  <2>1. Blank \in LineSet
    BY DEF LineSet
  <2>2. <<Blank>> \in Seq(LineSet) /\ <<>> \in Seq(LineSet)
    BY <2>1
  <2> QED
    BY <2>2
<1>3. /\ R \o T \in Seq(LineSet)
      /\ Len(R \o T) = Len(R) + Len(T)
      /\ Run(Clean(M), R \o T)[Len(R) + Len(T)] = Run(InRec(M, n, d), T)[Len(T)]
  <2> HIDE DEF R, T, d
  <2>1. R \o T \in Seq(LineSet) /\ Len(R \o T) = Len(R) + Len(T)
    BY <1>1, <1>2, ConcatProperties
  <2>2. Run(Clean(M), R \o T)[Len(R) + Len(T)] = Run(Run(Clean(M), R)[Len(R)], T)[Len(T)]
    BY <1>1, <1>2, RunConcat
  <2> QED
    BY <1>1, <2>1, <2>2
<1>6. Block(dialect, n, c, ending) = R \o T
  BY DEF Block
<1>4. CASE ending = <<Blank>>
  <2>1. T = <<Blank>>
    BY <1>4
  <2>2. Run(InRec(M, n, d), T)[1] = ScanLine(InRec(M, n, d), Blank)
    <3> HIDE DEF T, d
    <3>1. /\ Run(InRec(M, n, d), T)[0] = InRec(M, n, d)
          /\ \A i \in 1..Len(T) :
                Run(InRec(M, n, d), T)[i] = ScanLine(Run(InRec(M, n, d), T)[i - 1], T[i])
      BY <1>2, RunLines
    <3> QED
      BY <2>1, <3>1
  <2>3. ScanLine(InRec(M, n, d), Blank) = Clean(MapPut(M, n, d))
    BY BlankLine
  <2>4. ending # <<>> /\ Len(T) = 1
    BY <2>1, <1>4
  <2> QED
    BY <1>3, <1>6, <2>1, <2>2, <2>3, <2>4
<1>5. CASE ending = <<>>
  <2>1. T = <<>>
    BY <1>5
  <2>2. Run(InRec(M, n, d), T)[0] = InRec(M, n, d)
    BY <1>2, RunLines
  <2> QED
    BY <1>3, <1>5, <1>6, <2>1, <2>2
<1> QED
  BY <1>3, <1>4, <1>5, <1>6

(* The last record with no blank line after it leaves the scan inside it. *)
LEMMA LastBlock ==
  ASSUME NEW D, NEW X, NEW M \in [D -> X], NEW n \in NetNames, n \notin D,
         NEW c \in Config, NEW dialect \in {"5.x", "6.1"},
         NEW ending \in {<<Blank>>, <<>>}, ending # <<Blank>>
  PROVE  Run(Clean(M), Block(dialect, n, c, ending))[Len(Block(dialect, n, c, ending))]
           = InRec(M, n, AsDHCP(n, c))
<1>1. ending = <<>>
  OBVIOUS
<1> QED
  BY <1>1, RecordBlock

-----------------------------------------------------------------------------
(***************************************************************************)
(* A listing is the concatenation of its records.  FlatSteps is the       *)
(* function FlattenSeq computes, Prefix(seqs, k) its value after k of      *)
(* the sequences (the empty sequence for none).                            *)
(***************************************************************************)
FlatSteps(seqs) ==
    LET flatten[i \in 1..Len(seqs)] ==
          IF i = 1 THEN seqs[i] ELSE flatten[i - 1] \o seqs[i]
    IN  flatten

Prefix(seqs, k) == IF k = 0 THEN <<>> ELSE FlatSteps(seqs)[k]

LEMMA FlatStepsDef ==
  ASSUME NEW S, NEW seqs \in Seq(Seq(S)), Len(seqs) # 0
  PROVE  /\ FlattenSeq(seqs) = FlatSteps(seqs)[Len(seqs)]
         /\ FlatSteps(seqs)[1] = seqs[1]
         /\ \A i \in 2..Len(seqs) : FlatSteps(seqs)[i] = FlatSteps(seqs)[i - 1] \o seqs[i]
<1>1. Len(seqs) \in Nat
  OBVIOUS
<1>2. FiniteNatInductiveDefHypothesis(FlatSteps(seqs), seqs[1],
                                      LAMBDA v, i : v \o seqs[i], 1, Len(seqs))
  BY DEF FiniteNatInductiveDefHypothesis, FlatSteps
<1>3. FiniteNatInductiveDefConclusion(FlatSteps(seqs), seqs[1],
                                      LAMBDA v, i : v \o seqs[i], 1, Len(seqs))
  BY <1>1, <1>2, FiniteNatInductiveDef
<1>4. FlattenSeq(seqs) = FlatSteps(seqs)[Len(seqs)]
  BY DEF FlattenSeq, FlatSteps
<1>5. FlatSteps(seqs) = [i \in 1..Len(seqs) |->
                          IF i = 1 THEN seqs[1] ELSE FlatSteps(seqs)[i - 1] \o seqs[i]]
  BY <1>3 DEF FiniteNatInductiveDefConclusion
<1>6. FlatSteps(seqs)[1] = seqs[1]
  <2>1. 1 \in 1..Len(seqs)
    BY <1>1
  <2> QED
    BY Zenon, <1>5, <2>1
<1>7. \A i \in 2..Len(seqs) : FlatSteps(seqs)[i] = FlatSteps(seqs)[i - 1] \o seqs[i]
  <2> TAKE i \in 2..Len(seqs)
  <2>1. i \in 1..Len(seqs) /\ i # 1
    BY <1>1
  <2> QED
    BY Zenon, <1>5, <2>1
<1> QED
  BY <1>4, <1>6, <1>7

(* The prefixes are sequences, each the one before with the next sequence *)
(* appended, and the last one is FlattenSeq.                               *)
LEMMA PrefixFacts ==
  ASSUME NEW S, NEW seqs \in Seq(Seq(S))
  PROVE  /\ \A k \in 0..Len(seqs) - 1 :
               Prefix(seqs, k + 1) = Prefix(seqs, k) \o seqs[k + 1]
         /\ \A k \in 0..Len(seqs) : Prefix(seqs, k) \in Seq(S)
         /\ FlattenSeq(seqs) = Prefix(seqs, Len(seqs))
<1> DEFINE N == Len(seqs)
<1>1. N \in Nat
  OBVIOUS
<1>2. CASE N = 0
  <2>1. seqs = <<>>
    BY <1>2
  <2> QED
    BY <1>2, <2>1 DEF FlattenSeq, Prefix
<1>3. CASE N # 0
  <2>1. /\ FlattenSeq(seqs) = FlatSteps(seqs)[N]
        /\ FlatSteps(seqs)[1] = seqs[1]
        /\ \A i \in 2..N : FlatSteps(seqs)[i] = FlatSteps(seqs)[i - 1] \o seqs[i]
    BY <1>3, FlatStepsDef
  <2>2. \A k \in 0..N - 1 : Prefix(seqs, k + 1) = Prefix(seqs, k) \o seqs[k + 1]
    <3> TAKE k \in 0..N - 1
    <3>1. CASE k = 0
      <4>1. seqs[1] \in Seq(S)
        BY <1>3
      <4> QED
        BY <2>1, <3>1, <4>1 DEF Prefix
    <3>2. CASE k # 0
      <4>1. k + 1 \in 2..N
        BY <1>1, <3>2
      <4>2. (k + 1) - 1 = k
        OBVIOUS
      <4>3. FlatSteps(seqs)[k + 1] = FlatSteps(seqs)[k] \o seqs[k + 1]
        BY Zenon, <2>1, <4>1, <4>2
      <4>4. Prefix(seqs, k + 1) = FlatSteps(seqs)[k + 1] /\ Prefix(seqs, k) = FlatSteps(seqs)[k]
        BY <1>1, <3>2 DEF Prefix
      <4> QED
        BY <4>3, <4>4
    <3> QED
      BY <3>1, <3>2
  <2>3. \A k \in 0..N : Prefix(seqs, k) \in Seq(S)
    <3> DEFINE P == {k \in Nat : k <= N => Prefix(seqs, k) \in Seq(S)}
    <3>1. 0 \in P
      BY DEF Prefix
    <3>2. \A k \in P \cap Nat : k + 1 \in P
      <4> TAKE k \in P \cap Nat
      <4> SUFFICES ASSUME k + 1 <= N PROVE Prefix(seqs, k + 1) \in Seq(S)
        OBVIOUS
      <4>1. Prefix(seqs, k) \in Seq(S) /\ seqs[k + 1] \in Seq(S)
        BY <1>1
      <4>2. Prefix(seqs, k + 1) = Prefix(seqs, k) \o seqs[k + 1]
        BY <2>2, <1>1
      <4>3. Prefix(seqs, k) \o seqs[k + 1] \in Seq(S)
        BY <4>1, ConcatProperties
      <4> QED
        BY <4>2, <4>3
    <3>3. Nat \subseteq P
      BY <3>1, <3>2, SetInduction
    <3> QED
      BY <3>3
  <2> QED
    BY <1>3, <2>1, <2>2, <2>3 DEF Prefix
<1> QED
  BY <1>2, <1>3

-----------------------------------------------------------------------------
(***************************************************************************)
(* The scan of a listing, record by record.  Recs are the blocks Listing  *)
(* concatenates; Parsed(s, ord, k) is the map the first k records should   *)
(* give, and AfterRecords the scan state after them: between records, but  *)
(* inside the last one when no blank line follows it.                      *)
(***************************************************************************)
\* What follows record i: the blank line, unless it is the last record and
\* the listing ends without one.
Ending(ord, trailing, i) == IF i < Len(ord) \/ trailing THEN <<Blank>> ELSE <<>>

Recs(s, dialect, ord, trailing) ==
    [i \in DOMAIN ord |-> Block(dialect, ord[i], s[ord[i]], Ending(ord, trailing, i))]

Parsed(s, ord, k) == [x \in {ord[i] : i \in 1..k} |-> AsDHCP(x, s[x])]

AfterRecords(s, ord, trailing, k) ==
    IF k = 0 \/ k < Len(ord) \/ trailing
    THEN Clean(Parsed(s, ord, k))
    ELSE InRec(Parsed(s, ord, k - 1), ord[k], AsDHCP(ord[k], s[ord[k]]))

(* Storing record k + 1 under its name extends the map of the first k.    *)
LEMMA ParsedPut ==
  ASSUME NEW s, NEW T, NEW ord \in Seq(T), NEW k \in 0..Len(ord) - 1
  PROVE  MapPut(Parsed(s, ord, k), ord[k + 1], AsDHCP(ord[k + 1], s[ord[k + 1]]))
           = Parsed(s, ord, k + 1)
<1>1. {ord[i] : i \in 1..k} \cup {ord[k + 1]} = {ord[i] : i \in 1..k + 1}
  OBVIOUS
<1> QED
  BY <1>1 DEF MapPut, Parsed

(* The listing is the concatenation of its record blocks.                 *)
LEMMA ListingRecs ==
  ASSUME NEW s, NEW dialect, NEW ord, NEW trailing
  PROVE  Listing(s, dialect, ord, trailing) = FlattenSeq(Recs(s, dialect, ord, trailing))
BY DEF Listing, Recs, Block, Ending

(* The context of a DHCPs() call: the tool's servers, finitely many, the  *)
(* dialect, the ending and the record order the tool lists them in.        *)
LEMMA RecsFacts ==
  ASSUME NEW s \in [NetNames -> Config \cup {NoServer}], IsFiniteSet(Listed(s)),
         NEW dialect \in {"5.x", "6.1"}, NEW trailing \in BOOLEAN,
         NEW ord \in SetToSeqs(Listed(s))
  PROVE  /\ ord \in Seq(NetNames)
         /\ \A i, j \in 1..Len(ord) : i # j => ord[i] # ord[j]
         /\ Listed(s) = {ord[i] : i \in 1..Len(ord)}
         /\ \A i \in 1..Len(ord) : s[ord[i]] \in Config
         /\ Recs(s, dialect, ord, trailing) \in Seq(Seq(LineSet))
         /\ Len(Recs(s, dialect, ord, trailing)) = Len(ord)
         /\ \A i \in 1..Len(ord) :
               Recs(s, dialect, ord, trailing)[i]
                 = Block(dialect, ord[i], s[ord[i]], Ending(ord, trailing, i))
<1>1. /\ ord \in Seq(Listed(s))
      /\ \A i, j \in 1..Len(ord) : i # j => ord[i] # ord[j]
      /\ Listed(s) = {ord[i] : i \in 1..Len(ord)}
  BY OrdFacts
<1>2. \A i \in 1..Len(ord) : ord[i] \in NetNames /\ s[ord[i]] \in Config
  BY <1>1 DEF Listed
<1>3. \A i \in 1..Len(ord) :
        Block(dialect, ord[i], s[ord[i]], Ending(ord, trailing, i)) \in Seq(LineSet)
  <2> TAKE i \in 1..Len(ord)
  <2>1. ord[i] \in NetNames /\ s[ord[i]] \in Config
    BY <1>2
  <2>2. Ending(ord, trailing, i) \in {<<Blank>>, <<>>}
    BY DEF Ending
  <2>3. <<>> \in [{} -> {}]
    OBVIOUS
  <2> QED
    BY <2>1, <2>2, <2>3, RecordBlock
<1>4. ord \in Seq(NetNames)
  BY <1>1 DEF Listed
<1>5. Recs(s, dialect, ord, trailing)
        = [i \in 1..Len(ord) |-> Block(dialect, ord[i], s[ord[i]], Ending(ord, trailing, i))]
  BY <1>4 DEF Recs
<1>6. /\ [i \in 1..Len(ord) |-> Block(dialect, ord[i], s[ord[i]], Ending(ord, trailing, i))]
           \in Seq(Seq(LineSet))
      /\ Len([i \in 1..Len(ord) |-> Block(dialect, ord[i], s[ord[i]], Ending(ord, trailing, i))])
           = Len(ord)
  BY <1>3, <1>4
<1> QED
  BY <1>1, <1>2, <1>4, <1>5, <1>6

(* After k records the scan is in the state AfterRecords says.            *)
LEMMA ScanRecords ==
  ASSUME NEW s \in [NetNames -> Config \cup {NoServer}], IsFiniteSet(Listed(s)),
         NEW dialect \in {"5.x", "6.1"}, NEW trailing \in BOOLEAN,
         NEW ord \in SetToSeqs(Listed(s))
  PROVE  \A k \in 0..Len(ord) :
            Run(St0, Prefix(Recs(s, dialect, ord, trailing), k))
               [Len(Prefix(Recs(s, dialect, ord, trailing), k))]
              = AfterRecords(s, ord, trailing, k)
<1> DEFINE recs == Recs(s, dialect, ord, trailing)
           K == Len(ord)
           St(k) == Run(St0, Prefix(recs, k))[Len(Prefix(recs, k))]
<1>1. /\ ord \in Seq(NetNames)
      /\ \A i, j \in 1..K : i # j => ord[i] # ord[j]
      /\ \A i \in 1..K : s[ord[i]] \in Config
      /\ recs \in Seq(Seq(LineSet))
      /\ Len(recs) = K
      /\ \A i \in 1..K : recs[i] = Block(dialect, ord[i], s[ord[i]], Ending(ord, trailing, i))
  BY RecsFacts
<1>2. /\ \A k \in 0..K - 1 : Prefix(recs, k + 1) = Prefix(recs, k) \o recs[k + 1]
      /\ \A k \in 0..K : Prefix(recs, k) \in Seq(LineSet)
  <2>1. /\ \A k \in 0..Len(recs) - 1 : Prefix(recs, k + 1) = Prefix(recs, k) \o recs[k + 1]
        /\ \A k \in 0..Len(recs) : Prefix(recs, k) \in Seq(LineSet)
    BY <1>1, PrefixFacts
  <2> QED
    BY <1>1, <2>1
<1>3. St(0) = AfterRecords(s, ord, trailing, 0)
  <2>1. Prefix(recs, 0) = <<>>
    BY DEF Prefix
  <2>2. Run(St0, <<>>)[0] = St0
    <3>1. <<>> \in Seq(LineSet)
      OBVIOUS
    <3> QED
      BY <3>1, RunLines
  <2>3. St0 = Clean(Parsed(s, ord, 0))
    <3>1. {ord[i] : i \in 1..0} = {}
      OBVIOUS
    <3>2. Parsed(s, ord, 0) = <<>>
      BY <3>1 DEF Parsed
    <3> QED
      BY <3>2 DEF St0, Clean
  <2>4. AfterRecords(s, ord, trailing, 0) = Clean(Parsed(s, ord, 0))
    BY DEF AfterRecords
  <2> QED
    BY <2>1, <2>2, <2>3, <2>4
<1>4. ASSUME NEW k \in 0..K - 1, St(k) = AfterRecords(s, ord, trailing, k)
      PROVE  St(k + 1) = AfterRecords(s, ord, trailing, k + 1)
  <2> DEFINE nk == ord[k + 1]
             ck == s[nk]
             ek == Ending(ord, trailing, k + 1)
             Dk == {ord[i] : i \in 1..k}
             Mk == Parsed(s, ord, k)
             Bk == Block(dialect, nk, ck, ek)
             Yk == {AsDHCP(x, s[x]) : x \in Dk}
  <2>1. nk \in NetNames /\ ck \in Config /\ nk \notin Dk
    BY <1>1
  <2>2. Mk \in [Dk -> Yk]
    BY DEF Parsed
  <2>3. St(k) = Clean(Mk)
    BY <1>4 DEF AfterRecords
  <2>4. recs[k + 1] = Bk
    BY <1>1
  <2>5. /\ Bk \in Seq(LineSet)
        /\ Run(Clean(Mk), Bk)[Len(Bk)]
             = IF ek = <<>> THEN InRec(Mk, nk, AsDHCP(nk, ck))
               ELSE Clean(MapPut(Mk, nk, AsDHCP(nk, ck)))
    <3>1. ek \in {<<Blank>>, <<>>}
      BY DEF Ending
    <3> HIDE DEF Mk, Dk, Yk, nk, ck, ek
    <3>2. Bk \in Seq(LineSet)
      BY <2>1, <2>2, <3>1, RecordBlock
    <3>4. Mk \in [Dk -> Yk] /\ nk \in NetNames /\ nk \notin Dk /\ ck \in Config
      BY <2>1, <2>2
    <3>5. CASE ek # <<Blank>>
      <4>0. Bk = Block(dialect, nk, ck, ek)
        OBVIOUS
      <4> HIDE DEF Bk, St, recs, K
      <4>1. Run(Clean(Mk), Block(dialect, nk, ck, ek))[Len(Block(dialect, nk, ck, ek))]
              = InRec(Mk, nk, AsDHCP(nk, ck))
        BY <3>1, <3>4, <3>5, LastBlock
      <4>2. ek = <<>>
        BY Zenon, <3>1, <3>5
      <4> QED
        BY <3>2, <4>0, <4>1, <4>2
    <3>6. CASE ek = <<Blank>>
      <4>1. Run(Clean(Mk), Bk)[Len(Bk)] = Clean(MapPut(Mk, nk, AsDHCP(nk, ck)))
        BY <3>4, <3>1, <3>6, RecordBlock
      <4>2. ek # <<>>
        BY <3>6
      <4> QED
        BY <3>2, <4>1, <4>2
    <3> QED
      BY <3>5, <3>6
  <2>6. St(k + 1) = Run(St(k), Bk)[Len(Bk)]
    <3> HIDE DEF Bk
    <3>0. Prefix(recs, k + 1) = Prefix(recs, k) \o recs[k + 1] /\ Prefix(recs, k) \in Seq(LineSet)
      BY <1>2
    <3>1. Prefix(recs, k + 1) = Prefix(recs, k) \o Bk /\ Prefix(recs, k) \in Seq(LineSet)
      BY <3>0, <2>4
    <3>2. Len(Prefix(recs, k + 1)) = Len(Prefix(recs, k)) + Len(Bk)
      BY <2>5, <3>1
    <3>3. Run(St0, Prefix(recs, k) \o Bk)[Len(Prefix(recs, k)) + Len(Bk)]
            = Run(Run(St0, Prefix(recs, k))[Len(Prefix(recs, k))], Bk)[Len(Bk)]
      BY <2>5, <3>1, RunConcat
    <3> QED
      BY <3>1, <3>2, <3>3
  <2>7. MapPut(Mk, nk, AsDHCP(nk, ck)) = Parsed(s, ord, k + 1)
    BY <1>1, ParsedPut
  <2>8. AfterRecords(s, ord, trailing, k + 1)
          = IF ek = <<>> THEN InRec(Mk, nk, AsDHCP(nk, ck)) ELSE Clean(Parsed(s, ord, k + 1))
    BY DEF AfterRecords, Ending
  <2> QED
    BY <2>3, <2>5, <2>6, <2>7, <2>8
<1>5. \A k \in 0..K : St(k) = AfterRecords(s, ord, trailing, k)
  <2> DEFINE P == {k \in Nat : k <= K => St(k) = AfterRecords(s, ord, trailing, k)}
  <2>1. 0 \in P
    BY <1>3
  <2>2. \A k \in P \cap Nat : k + 1 \in P
    BY <1>4
  <2>3. Nat \subseteq P
    BY <2>1, <2>2, SetInduction
  <2> QED
    BY <2>3
<1> QED
  BY <1>5

(* A listing parses, without error, to the map from every listed network  *)
(* to the DHCP value of its server.                                        *)
LEMMA ParseListing ==
  ASSUME NEW s \in [NetNames -> Config \cup {NoServer}], IsFiniteSet(Listed(s)),
         NEW dialect \in {"5.x", "6.1"}, NEW trailing \in BOOLEAN,
         NEW ord \in SetToSeqs(Listed(s))
  PROVE  /\ ParseDHCPs(Listing(s, dialect, ord, trailing)).err = FALSE
         /\ ParseDHCPs(Listing(s, dialect, ord, trailing)).m
              = [x \in Listed(s) |-> AsDHCP(x, s[x])]
<1> DEFINE recs == Recs(s, dialect, ord, trailing)
           K == Len(ord)
<1>1. /\ ord \in Seq(NetNames)
      /\ Listed(s) = {ord[i] : i \in 1..K}
      /\ recs \in Seq(Seq(LineSet))
      /\ Len(recs) = K
  BY RecsFacts
<1>2. Listing(s, dialect, ord, trailing) = Prefix(recs, K) /\ Prefix(recs, K) \in Seq(LineSet)
  <2>1. FlattenSeq(recs) = Prefix(recs, Len(recs)) /\ Prefix(recs, Len(recs)) \in Seq(LineSet)
    BY <1>1, PrefixFacts
  <2> QED
    BY <1>1, <2>1, ListingRecs
<1>3. ParseDHCPs(Listing(s, dialect, ord, trailing)) = AfterRecords(s, ord, trailing, K)
  <2>1. ParseDHCPs(Prefix(recs, K)) = Run(St0, Prefix(recs, K))[Len(Prefix(recs, K))]
    BY <1>2, ParseIsRun
  <2>2. Run(St0, Prefix(recs, K))[Len(Prefix(recs, K))] = AfterRecords(s, ord, trailing, K)
    <3>1. K \in 0..K
      BY <1>1
    <3> QED
      BY <3>1, ScanRecords
  <2> QED
    BY <1>2, <2>1, <2>2
<1>4. AfterRecords(s, ord, trailing, K).err = FALSE
      /\ AfterRecords(s, ord, trailing, K).m = Parsed(s, ord, K)
  <2>1. CASE K = 0 \/ K < K \/ trailing
    BY <2>1 DEF AfterRecords, Clean
  <2>2. CASE ~(K = 0 \/ K < K \/ trailing)
    <3>1. K - 1 \in 0..K - 1 /\ (K - 1) + 1 = K
      BY <1>1, <2>2
    <3>2. MapPut(Parsed(s, ord, K - 1), ord[K], AsDHCP(ord[K], s[ord[K]])) = Parsed(s, ord, K)
      BY <1>1, <3>1, ParsedPut
    <3> QED
      BY <2>2, <3>2 DEF AfterRecords, InRec
  <2> QED
    BY <2>1, <2>2
<1>5. Parsed(s, ord, K) = [x \in Listed(s) |-> AsDHCP(x, s[x])]
  BY <1>1 DEF Parsed
<1> QED
  BY <1>3, <1>4, <1>5

-----------------------------------------------------------------------------
(***************************************************************************)
(* The steps of the specification.                                         *)
(***************************************************************************)
\* The inductive invariant: the types, the finiteness of the tool's servers
\* (which makes every listing a finite sequence) and the faithfulness of the
\* last result.
IInv == TypeInv /\ DHCPsFaithful

(* A DHCPs() call keeps the types and returns the tool's servers.          *)
LEMMA DHCPsStep ==
  ASSUME TypeInv, DHCPs
  PROVE  TypeInv' /\ DHCPsFaithful'
<1>1. PICK dialect \in Dialects, trailing \in TrailingBlank,
           ord \in SetToSeqs({n \in NetNames : servers[n] # NoServer}) :
         /\ listed' = servers
         /\ result' = IF ParseDHCPs(Listing(servers, dialect, ord, trailing)).err
                      THEN [ok |-> FALSE]
                      ELSE [ok |-> TRUE, m |-> ParseDHCPs(Listing(servers, dialect, ord, trailing)).m]
         /\ servers' = servers
  BY DEF DHCPs
<1>2. dialect \in {"5.x", "6.1"} /\ trailing \in BOOLEAN
  BY <1>1, DHCPServersAssumption
<1>3. /\ ord \in SetToSeqs(Listed(servers))
      /\ servers \in [NetNames -> Config \cup {NoServer}]
      /\ IsFiniteSet(Listed(servers))
  BY <1>1 DEF Listed, TypeInv, TypeOK
<1>4. /\ ParseDHCPs(Listing(servers, dialect, ord, trailing)).err = FALSE
      /\ ParseDHCPs(Listing(servers, dialect, ord, trailing)).m
           = [x \in Listed(servers) |-> AsDHCP(x, servers[x])]
  BY <1>2, <1>3, ParseListing
<1>5. result' = [ok |-> TRUE, m |-> [x \in Listed(servers) |-> AsDHCP(x, servers[x])]]
  BY <1>1, <1>4
<1>6. TypeInv'
  <2>1. IsFiniteSet(Listed(servers'))
    BY <1>1, <1>3
  <2> QED
    BY <1>1, <1>3, <1>5, <2>1 DEF TypeInv, TypeOK
<1>7. DHCPsFaithful'
  BY <1>1, <1>5 DEF DHCPsFaithful, Listed
<1> QED
  BY <1>6, <1>7

(* IInv holds initially and every step keeps it.                           *)
LEMMA IInvInit ==
  Init => IInv
<1> SUFFICES ASSUME Init PROVE IInv
  OBVIOUS
<1>1. Listed(servers) = {}
  BY DEF Init, Listed
<1>2. IsFiniteSet(Listed(servers))
  BY <1>1, FS_EmptySet
<1> QED
  BY <1>2 DEF Init, IInv, TypeInv, TypeOK, DHCPsFaithful

(* Each addDHCP leaves the last result alone; each DHCPs() call replaces   *)
(* it by a faithful one.                                                   *)
LEMMA IInvNext ==
  IInv /\ [Next]_vars => IInv'
<1> SUFFICES ASSUME IInv, [Next]_vars PROVE IInv'
  OBVIOUS
<1>1. CASE \E name \in IntNets, d \in AddInputs : AddDHCP("--netname", name, d)
  <2>1. PICK name \in IntNets, d \in AddInputs : AddDHCP("--netname", name, d)
    BY <1>1
  <2>2. TypeInv'
    BY <2>1, AddKeepsType DEF IInv
  <2>3. DHCPsFaithful'
    BY <2>1 DEF AddDHCP, IInv, DHCPsFaithful
  <2> QED
    BY <2>2, <2>3 DEF IInv
<1>2. CASE \E name \in HostIfs, d \in AddInputs : AddDHCP("--ifname", name, d)
  <2>1. PICK name \in HostIfs, d \in AddInputs : AddDHCP("--ifname", name, d)
    BY <1>2
  <2>2. TypeInv'
    BY <2>1, AddKeepsType DEF IInv
  <2>3. DHCPsFaithful'
    BY <2>1 DEF AddDHCP, IInv, DHCPsFaithful
  <2> QED
    BY <2>2, <2>3 DEF IInv
<1>3. CASE DHCPs
  BY <1>3, DHCPsStep DEF IInv
<1>4. CASE UNCHANGED vars
  BY <1>4 DEF vars, IInv, TypeInv, TypeOK, DHCPsFaithful, Listed
<1> QED
  BY <1>1, <1>2, <1>3, <1>4 DEF Next

(* The servers, the last listing and the last result of DHCPs() always    *)
(* have their types.                                                       *)
THEOREM TypeCorrect == Spec => []TypeOK
<1>1. IInv => TypeOK
  BY DEF IInv, TypeInv
<1> QED
  BY <1>1, IInvInit, IInvNext, PTL DEF Spec

(* Every DHCPs() call returns, without error, exactly the DHCP servers the *)
(* tool listed, each under its network name with its own IP, mask, range  *)
(* and enabled flag, for every dialect, record order and ending.          *)
THEOREM DHCPsFaithfulThm == Spec => []DHCPsFaithful
<1>1. IInv => DHCPsFaithful
  BY DEF IInv
<1> QED
  BY <1>1, IInvInit, IInvNext, PTL DEF Spec

=============================================================================
