------------------------------- MODULE Storage -------------------------------
(***************************************************************************)
(* The storage API of a Machine against VBoxManage.  The caller's          *)
(* AddStorageCtl, DelStorageCtl, AttachStorage and DetachStorage           *)
(* (unnamed/part_002) build a storagectl or storageattach command; the     *)
(* tool applies it atomically or rejects it.  GetMachine reads the result  *)
(* back: showvminfo --machinereadable prints the controllers as key/value  *)
(* pairs and NewStorageControllersFromProps (uart.go) decodes them.        *)
(*                                                                         *)
(* The decoded controllers are the refinement mapping to StorageConfig:    *)
(* the module shows that what GetMachine reports is what the calls made.   *)
(***************************************************************************)
EXTENDS StorageRules

VARIABLES
    ctls,   \* the tool's controllers, in showvminfo index order
    call,   \* the API call made last
    ret,    \* its result: "ok" or "err"
    reported \* what GetMachine then returns: NewStorageControllersFromProps

vars == <<ctls, call, ret, reported>>

\* The VM the calls name (m.Name), and the largest number strconv.Atoi is
\* ever given here: no bus takes more than 255 ports.
VM == "vm"
MaxAtoi == 255

\* A controller as the tool holds it; att is the set of occupied slots.
Slot == [port : Nat, device : Nat, medium : STRING, uuid : STRING]
ToolCtl == [name : STRING, bus : Buses, chipset : Chipsets, ports : Nat,
            hostiocache : BOOLEAN, bootable : BOOLEAN, att : SUBSET Slot]

-----------------------------------------------------------------------------
(* Conversions: fmt.Sprintf("%d"), strconv.Itoa and strconv.Atoi on the   *)
(* numbers that are passed or printed, and bool2string.                    *)

Digit == <<"0", "1", "2", "3", "4", "5", "6", "7", "8", "9">>
Itoa[n \in 0..MaxAtoi] == IF n < 10 THEN Digit[n + 1] ELSE Itoa[n \div 10] \o Digit[(n % 10) + 1]
\* strconv.Atoi: the number a decimal string denotes, if it denotes one.
Decimals == [s \in {Itoa[n] : n \in 0..MaxAtoi} |-> CHOOSE n \in 0..MaxAtoi : Itoa[n] = s]
Atoi(s) == IF s \in DOMAIN Decimals THEN [ok |-> TRUE, v |-> Decimals[s]] ELSE [ok |-> FALSE, v |-> 0]
Bool2String(b) == IF b THEN "on" ELSE "off"

-----------------------------------------------------------------------------
(* The commands the caller's methods build.                                *)

AddStorageCtlArgs(n, ctl) ==
    <<"storagectl", VM, "--name", n>>
    \o (IF ctl.SysBus # "" THEN <<"--add", ctl.SysBus>> ELSE <<>>)
    \o (IF ctl.Ports > 0 THEN <<"--portcount", Itoa[ctl.Ports]>> ELSE <<>>)
    \o (IF ctl.Chipset # "" THEN <<"--controller", ctl.Chipset>> ELSE <<>>)
    \o <<"--hostiocache", Bool2String(ctl.HostIOCache),
         "--bootable", Bool2String(ctl.Bootable)>>

DelStorageCtlArgs(n) == <<"storagectl", VM, "--name", n, "--remove">>

\* StorageMedium.UUIDOrMedium
UUIDOrMedium(sm) == IF sm.UUID = "" THEN sm.Medium ELSE sm.UUID

AttachStorageArgs(n, sm) ==
    <<"storageattach", VM, "--storagectl", n, "--port", Itoa[sm.Port],
      "--device", Itoa[sm.Device], "--type", sm.DriveType, "--medium", UUIDOrMedium(sm)>>

DetachStorageArgs(n, sm) ==
    <<"storageattach", VM, "--storagectl", n, "--port", Itoa[sm.Port],
      "--device", Itoa[sm.Device], "--type", sm.DriveType, "--medium", "none">>

-----------------------------------------------------------------------------
(* VBoxManage (environment).  Options are read by name; a command is       *)
(* rejected as a whole, leaving the controllers unchanged.                 *)

HasOpt(a, f) == \E i \in 1..Len(a) : a[i] = f
Opt(a, f) == IF \E i \in 1..Len(a) - 1 : a[i] = f
             THEN a[(CHOOSE i \in 1..Len(a) - 1 : a[i] = f) + 1] ELSE ""

ToolHas(t, n) == \E i \in 1..Len(t) : t[i].name = n
ToolAt(t, n) == CHOOSE i \in 1..Len(t) : t[i].name = n
Reject(t) == [ok |-> FALSE, ctls |-> t]
Accept(t) == [ok |-> TRUE, ctls |-> t]

\* storagectl --add: a new controller; one per bus.
ToolAdd(t, a) ==
    LET n == Opt(a, "--name")
        bus == Opt(a, "--add")
        ch == IF HasOpt(a, "--controller") THEN Opt(a, "--controller") ELSE DefaultChipset(bus)
        pc == Atoi(Opt(a, "--portcount"))
        ports == IF HasOpt(a, "--portcount") THEN pc.v ELSE DefaultPorts(bus)
    IN IF \/ ToolHas(t, n)
          \/ BusOf(ch) # bus
          \/ HasOpt(a, "--portcount") /\ ~pc.ok
          \/ ports \notin PortRange(bus)
          \/ \E i \in 1..Len(t) : t[i].bus = bus
       THEN Reject(t)
       ELSE Accept(Append(t, [name |-> n, bus |-> bus, chipset |-> ch, ports |-> ports,
                              hostiocache |-> Opt(a, "--hostiocache") = "on",
                              bootable |-> Opt(a, "--bootable") = "on", att |-> {}]))

\* storagectl without --add or --remove: change the named controller.
ToolModify(t, a) ==
    LET n == Opt(a, "--name")
        v == t[ToolAt(t, n)]
        pc == Atoi(Opt(a, "--portcount"))
        ch == IF HasOpt(a, "--controller") THEN Opt(a, "--controller") ELSE v.chipset
        ports == IF HasOpt(a, "--portcount") THEN pc.v ELSE v.ports
    IN IF \/ ~ToolHas(t, n)
          \/ HasOpt(a, "--portcount") /\ ~pc.ok
          \/ BusOf(ch) # v.bus
          \/ ports \notin PortRange(v.bus)
          \/ \E s \in v.att : s.port >= ports
       THEN Reject(t)
       ELSE Accept([t EXCEPT ![ToolAt(t, n)] =
                      [@ EXCEPT !.chipset = ch, !.ports = ports,
                                !.hostiocache = Opt(a, "--hostiocache") = "on",
                                !.bootable = Opt(a, "--bootable") = "on"]])

ToolRemove(t, a) ==
    LET n == Opt(a, "--name") IN
    IF ~ToolHas(t, n) THEN Reject(t)
    ELSE Accept([j \in 1..Len(t) - 1 |-> IF j < ToolAt(t, n) THEN t[j] ELSE t[j + 1]])

\* storageattach: --type must name a drive type; --medium none empties an
\* occupied slot; a hard disk is attached in one slot only.
ToolAttach(t, a) ==
    LET n == Opt(a, "--storagectl")
        i == ToolAt(t, n)
        p == Atoi(Opt(a, "--port"))
        d == Atoi(Opt(a, "--device"))
        ty == Opt(a, "--type")
        med == Opt(a, "--medium")
        here(s) == s.port = p.v /\ s.device = d.v
        rest == {s \in t[i].att : ~here(s)}
        dks == {dk \in Disks : med \in {dk.uuid, dk.path}}
    IN IF \/ ~ToolHas(t, n) \/ ~p.ok \/ ~d.ok
          \/ p.v >= t[i].ports \/ d.v >= DevicesOf(t[i].bus)
          \/ ty \notin DriveTypes
       THEN Reject(t)
       ELSE CASE med = "none" ->
                   IF \E s \in t[i].att : here(s)
                   THEN Accept([t EXCEPT ![i].att = rest]) ELSE Reject(t)
              [] med = "emptydrive" ->
                   IF ty \in {"dvddrive", "fdd"}
                   THEN Accept([t EXCEPT ![i].att = rest \cup
                          {[port |-> p.v, device |-> d.v, medium |-> "emptydrive", uuid |-> ""]}])
                   ELSE Reject(t)
              [] OTHER ->
                   IF /\ ty = "hdd" /\ dks # {}
                      /\ \A j \in 1..Len(t) : \A s \in t[j].att :
                            s.uuid \in {dk.uuid : dk \in dks} => j = i /\ here(s)
                   THEN Accept([t EXCEPT ![i].att = rest \cup
                          {[port |-> p.v, device |-> d.v, medium |-> dk.path, uuid |-> dk.uuid] :
                           dk \in dks}])
                   ELSE Reject(t)

Tool(t, a) ==
    IF a[1] = "storageattach" THEN ToolAttach(t, a)
    ELSE IF HasOpt(a, "--remove") THEN ToolRemove(t, a)
    ELSE IF HasOpt(a, "--add") THEN ToolAdd(t, a)
    ELSE ToolModify(t, a)

\* showvminfo --machinereadable: the storage keys, as <<key, value>> pairs.
\* Every slot up to the port count is printed, "none" when empty; an
\* image's UUID is printed under <name>-ImageUUID-<port>-<device>.
SlotKey(n, p, d) == n \o "-" \o Itoa[p] \o "-" \o Itoa[d]
MediumAt(c, p, d) ==
    IF \E s \in c.att : s.port = p /\ s.device = d
    THEN (CHOOSE s \in c.att : s.port = p /\ s.device = d).medium ELSE "none"
ShowVMInfo(t) ==
    UNION {LET c == t[i]
               ix == Itoa[i - 1]
           IN {<<"storagecontrollername" \o ix, c.name>>,
               <<"storagecontrollertype" \o ix, Token(c.chipset)>>,
               <<"storagecontrollerportcount" \o ix, Itoa[c.ports]>>,
               <<"storagecontrollerbootable" \o ix, Bool2String(c.bootable)>>}
              \cup {<<SlotKey(c.name, p, d), MediumAt(c, p, d)>> :
                       p \in 0..c.ports - 1, d \in 0..DevicesOf(c.bus) - 1}
              \cup {<<c.name \o "-ImageUUID-" \o Itoa[s.port] \o "-" \o Itoa[s.device], s.uuid>> :
                       s \in {s2 \in c.att : s2.uuid # ""}}
           : i \in 1..Len(t)}

\* vmPropMap[k], v, ok := vmPropMap[k]: a missing key reads as "".
Lookup(pm, k) ==
    IF \E e \in pm : e[1] = k
    THEN [ok |-> TRUE, v |-> (CHOOSE e \in pm : e[1] = k)[2]]
    ELSE [ok |-> FALSE, v |-> ""]

-----------------------------------------------------------------------------
(* The decoder of uart.go.                                                 *)

\* StorageMedium.IsNone
IsNone(sm) == sm.UUID = "" /\ sm.Medium = "none"

\* Mutant: IDE and floppy ports counted with one device, like the others.
maxDevicePerPortOne(bus) == 1

maxDevicePerPort(bus) == IF bus \in {"ide", "floppy"} THEN 2 ELSE 1

\* The cases of vmInfogStrorageControllerTypeToBusAndChipset's switch:
\* type token |-> <<bus, chipset>>.
ControllerTypes ==
    [IntelAhci |-> <<"sata", "IntelAHCI">>, LsiLogic |-> <<"scsi", "LSILogic">>,
     BusLogic |-> <<"scsi", "BusLogic">>, PIIX3 |-> <<"ide", "PIIX3">>,
     PIIX4 |-> <<"ide", "PIIX4">>, ICH6 |-> <<"ide", "ICH6">>,
     I82078 |-> <<"floppy", "I82078">>, LsiLogicSas |-> <<"sas", "LSILogicSAS">>,
     USB |-> <<"usb", "USB">>, NVMe |-> <<"pcie", "NVMe">>,
     VirtioSCSI |-> <<"virtio", "VirtIO">>, unknown |-> <<"unknown", "unknown">>]

\* Mutant: the "unknown" case missing, so that type is an error.
TypeToBusAndChipsetNoUnknown(scType) ==
    IF scType \in DOMAIN ControllerTypes \ {"unknown"}
    THEN [ok |-> TRUE, bus |-> ControllerTypes[scType][1], chipset |-> ControllerTypes[scType][2]]
    ELSE [ok |-> FALSE, bus |-> "", chipset |-> ""]

\* Mutant: every known type returned as is, like the "unknown" case.
TypeToBusAndChipsetRaw(scType) ==
    IF scType \in DOMAIN ControllerTypes
    THEN [ok |-> TRUE, bus |-> scType, chipset |-> scType]
    ELSE [ok |-> FALSE, bus |-> "", chipset |-> ""]

\* The default case is an error.
vmInfogStrorageControllerTypeToBusAndChipset(scType) ==
    IF scType \in DOMAIN ControllerTypes
    THEN [ok |-> TRUE, bus |-> ControllerTypes[scType][1], chipset |-> ControllerTypes[scType][2]]
    ELSE [ok |-> FALSE, bus |-> "", chipset |-> ""]

\* The two loops of findStorageMedia as one recursion over the slots taken
\* port-major: step k visits port (k-1) \div md, device (k-1) % md.
findStorageMedia(name, bus, portCount, pm) ==
    LET md == maxDevicePerPort(bus)
        f[k \in 0..portCount * md] ==
            IF k = 0 THEN <<>>
            ELSE LET p == (k - 1) \div md
                     d == (k - 1) % md
                     medium == Lookup(pm, SlotKey(name, p, d))
                     uuid == Lookup(pm, name \o "-ImageUUID-" \o Itoa[p] \o "-" \o Itoa[d]).v
                     sm == [Port |-> p, Device |-> d, DriveType |-> "",
                            Medium |-> medium.v, UUID |-> uuid]
                 IN IF medium.ok /\ ~IsNone(sm) THEN Append(f[k - 1], sm) ELSE f[k - 1]
    IN f[portCount * md]

findStorageControllerByIndex(name, iStr, pm) ==
    LET scType == Lookup(pm, "storagecontrollertype" \o iStr).v
        portCount == Atoi(Lookup(pm, "storagecontrollerportcount" \o iStr).v)
        bootableStr == Lookup(pm, "storagecontrollerbootable" \o iStr).v
        bc == vmInfogStrorageControllerTypeToBusAndChipset(scType)
    IN IF ~portCount.ok \/ ~bc.ok THEN [ok |-> FALSE]
       ELSE [ok |-> TRUE,
             sc |-> [Name |-> name, SysBus |-> bc.bus, Chipset |-> bc.chipset,
                     Ports |-> portCount.v, HostIOCache |-> FALSE,
                     Bootable |-> bootableStr = "on",
                     Devices |-> findStorageMedia(name, bc.bus, portCount.v, pm)]]

\* The loop over the indices 0..7; an error aborts it.
NewStorageControllersFromProps(pm) ==
    LET g[i \in 0..8] ==
            IF i = 0 THEN [ok |-> TRUE, ctrls |-> <<>>]
            ELSE LET prev == g[i - 1]
                     iStr == Itoa[i - 1]
                     name == Lookup(pm, "storagecontrollername" \o iStr)
                     r == findStorageControllerByIndex(name.v, iStr, pm)
                 IN IF ~prev.ok \/ ~name.ok THEN prev
                    ELSE IF ~r.ok THEN [ok |-> FALSE, ctrls |-> <<>>]
                    ELSE [ok |-> TRUE, ctrls |-> Append(prev.ctrls, r.sc)]
    IN g[8]

\* What GetMachine reports for the tool's controllers t.
GetMachine(t) == NewStorageControllersFromProps(ShowVMInfo(t))

-----------------------------------------------------------------------------
(* The caller's methods: each runs its command (Manage().run) and returns  *)
(* nil exactly when the tool accepted it.                                  *)

Run(a, c) ==
    LET r == Tool(ctls, a) IN
    /\ ctls' = r.ctls
    /\ reported' = GetMachine(r.ctls)
    /\ ret' = IF r.ok THEN "ok" ELSE "err"
    /\ call' = c

AddStorageCtl(n, ctl) ==
    Run(AddStorageCtlArgs(n, ctl), [op |-> "AddStorageCtl", name |-> n, ctl |-> ctl])
DelStorageCtl(n) ==
    Run(DelStorageCtlArgs(n), [op |-> "DelStorageCtl", name |-> n])
AttachStorage(n, sm) ==
    Run(AttachStorageArgs(n, sm), [op |-> "AttachStorage", name |-> n, medium |-> sm])
DetachStorage(n, sm) ==
    Run(DetachStorageArgs(n, sm), [op |-> "DetachStorage", name |-> n, medium |-> sm])

Init ==
    /\ ctls = <<>>
    /\ call = NoCall
    /\ ret = "none"
    /\ reported = GetMachine(<<>>)

Next ==
    \E n \in Names :
        \/ \E ctl \in CtlInputs : AddStorageCtl(n, ctl)
        \/ DelStorageCtl(n)
        \/ \E sm \in MediumInputs : AttachStorage(n, sm) \/ DetachStorage(n, sm)

Spec == Init /\ [][Next]_vars

-----------------------------------------------------------------------------
(* Refinement: the controllers GetMachine decodes, without the fields the  *)
(* read path cannot know (HostIOCache, DriveType), and with each device    *)
(* list as a set.  A failed decode maps to a value no StorageConfig state  *)
(* has.                                                                    *)

View(c) == [Name |-> c.Name, SysBus |-> c.SysBus, Chipset |-> c.Chipset,
            Ports |-> c.Ports, Bootable |-> c.Bootable,
            Devices |-> {[Port |-> c.Devices[k].Port, Device |-> c.Devices[k].Device,
                          Medium |-> c.Devices[k].Medium, UUID |-> c.Devices[k].UUID] :
                         k \in 1..Len(c.Devices)}]
DecodedView ==
    IF reported.ok THEN [i \in 1..Len(reported.ctrls) |-> View(reported.ctrls[i])]
    ELSE <<"decode failed">>

A == INSTANCE StorageConfig WITH cfg <- DecodedView

-----------------------------------------------------------------------------
(* Type correctness: the tool holds well-formed controllers, and every     *)
(* controller GetMachine decodes has a bus of SystemBus (or the "unknown"  *)
(* showvminfo prints for some chipsets) and media on its own slots.        *)
TypeOK ==
    /\ ctls \in Seq(ToolCtl)
    /\ call \in Calls \cup {NoCall}
    /\ ret \in {"ok", "err", "none"}
    /\ reported.ok =>
         \A i \in 1..Len(reported.ctrls) :
            LET c == reported.ctrls[i] IN
            /\ c.SysBus \in Buses \cup {"unknown"}
            /\ \A k \in 1..Len(c.Devices) : c.Devices[k].Port < c.Ports

(* GetMachine never fails on storage: whatever sequence of storage calls   *)
(* was made, NewStorageControllersFromProps decodes what showvminfo        *)
(* prints, including the "unknown" type it prints for some chipsets.       *)
GetMachineDecodes == reported.ok

(* What GetMachine reports behaves as StorageConfig promises: each call    *)
(* that returns nil has exactly its documented effect on the decoded       *)
(* controllers, and each call that fails leaves them unchanged.            *)
ASpec == A!Spec

=============================================================================
