---------------------------- MODULE StorageConfig ----------------------------
(***************************************************************************)
(* What the storage API of a Machine promises, seen through GetMachine:    *)
(* the storage controllers it reports, in order, each with its bus,        *)
(* chipset, port count, bootable flag and the set of media it holds.  A    *)
(* call (AddStorageCtl, DelStorageCtl, AttachStorage, DetachStorage) either *)
(* has its documented effect and returns ok, or changes nothing and        *)
(* returns an error.  The host I/O cache flag and the drive type are not   *)
(* in the view: the read path never reports them (spec 4.3).               *)
(***************************************************************************)
EXTENDS StorageRules

VARIABLES
    cfg,    \* the controllers GetMachine reports, in index order
    call,   \* the API call made last
    ret     \* its result: "ok" or "err"

vars == <<cfg, call, ret>>

\* A controller and a medium as GetMachine reports them.
DevView == [Port : Nat, Device : Nat, Medium : STRING, UUID : STRING]
CtlView == [Name : STRING, SysBus : STRING, Chipset : STRING, Ports : Nat,
            Bootable : BOOLEAN, Devices : SUBSET DevView]

\* The bus and chipset a controller is reported with (the "unknown" quirk).
Reported(ch) ==
    IF ch \in ReportedUnknown THEN [SysBus |-> "unknown", Chipset |-> "unknown"]
    ELSE [SysBus |-> BusOf(ch), Chipset |-> ch]

\* The position of the controller named n, if there is one.
Has(n) == \E i \in 1..Len(cfg) : cfg[i].Name = n
At(n) == CHOOSE i \in 1..Len(cfg) : cfg[i].Name = n

\* The medium a StorageMedium refers to: its UUID if it has one.
Ref(m) == IF m.UUID = "" THEN m.Medium ELSE m.UUID

Occupied(v, p, d) == \E dv \in v.Devices : dv.Port = p /\ dv.Device = d
AttachedAnywhere(dk) == \E i \in 1..Len(cfg) : \E dv \in cfg[i].Devices : dv.UUID = dk.uuid
Without(v, p, d) == {dv \in v.Devices : ~(dv.Port = p /\ dv.Device = d)}
Remove(i) == [j \in 1..Len(cfg) - 1 |-> IF j < i THEN cfg[j] ELSE cfg[j + 1]]

-----------------------------------------------------------------------------
(* AddStorageCtl with a bus adds a controller; without one it changes the  *)
(* controller of that name.  A bus takes one controller.  For a controller *)
(* reported as "unknown" the caller cannot tell which rules apply, so both *)
(* results are allowed where they depend on its bus.                       *)

AddOk(n, ctl) ==
    LET bus == ctl.SysBus
        ch == IF ctl.Chipset = "" THEN DefaultChipset(bus) ELSE ctl.Chipset
    IN IF bus # ""
       THEN /\ ~Has(n)
            /\ BusOf(ch) = bus
            /\ ctl.Ports > 0 => ctl.Ports \in PortRange(bus)
            /\ \A i \in 1..Len(cfg) : cfg[i].SysBus # bus
       ELSE /\ Has(n)
            /\ LET v == cfg[At(n)] IN
               /\ ctl.Ports > 0 => \A dv \in v.Devices : dv.Port < ctl.Ports
               /\ v.SysBus # "unknown" =>
                     /\ ctl.Chipset # "" => BusOf(ctl.Chipset) = v.SysBus
                     /\ ctl.Ports > 0 => ctl.Ports \in PortRange(v.SysBus)

AddErr(n, ctl) ==
    \/ ~AddOk(n, ctl)
    \/ ctl.SysBus # "" /\ \E i \in 1..Len(cfg) :
          cfg[i].SysBus = "unknown" /\ \E u \in ReportedUnknown : BusOf(u) = ctl.SysBus
    \/ ctl.SysBus = "" /\ Has(n) /\ cfg[At(n)].SysBus = "unknown"

AddEffect(n, ctl) ==
    LET bus == ctl.SysBus
        ch == IF ctl.Chipset = "" THEN DefaultChipset(bus) ELSE ctl.Chipset
    IN IF bus # ""
       THEN Append(cfg, [Name |-> n, SysBus |-> Reported(ch).SysBus,
                         Chipset |-> Reported(ch).Chipset,
                         Ports |-> IF ctl.Ports > 0 THEN ctl.Ports ELSE DefaultPorts(bus),
                         Bootable |-> ctl.Bootable, Devices |-> {}])
       ELSE [cfg EXCEPT ![At(n)] =
               [@ EXCEPT !.Ports = IF ctl.Ports > 0 THEN ctl.Ports ELSE @,
                         !.Bootable = ctl.Bootable,
                         !.SysBus = IF ctl.Chipset # "" THEN Reported(ctl.Chipset).SysBus ELSE @,
                         !.Chipset = IF ctl.Chipset # "" THEN Reported(ctl.Chipset).Chipset ELSE @]]

(* AttachStorage puts the referenced medium in a slot of the controller    *)
(* (replacing what it held); the reference "none" empties the slot.        *)
\* The registered disk a reference names, by UUID or by path.
DiskRef(id) == {dk \in Disks : id \in {dk.uuid, dk.path}}

InSlot(n, m) ==
    /\ Has(n)
    /\ m.Port < cfg[At(n)].Ports
    /\ m.Device < DevicesOf(cfg[At(n)].SysBus)

AttachOk(n, m) ==
    LET id == Ref(m) IN
    /\ InSlot(n, m)
    /\ CASE id = "none"       -> Occupied(cfg[At(n)], m.Port, m.Device)
         [] id = "emptydrive" -> m.DriveType \in {"dvddrive", "fdd"}
         [] OTHER             ->
              /\ m.DriveType = "hdd"
              /\ \E dk \in DiskRef(id) :
                    \A i \in 1..Len(cfg) : \A dv \in cfg[i].Devices :
                        dv.UUID = dk.uuid => i = At(n) /\ dv.Port = m.Port /\ dv.Device = m.Device

AttachEffect(n, m) ==
    LET id == Ref(m)
        v == cfg[At(n)]
        put == CASE id = "none"       -> {}
                 [] id = "emptydrive" -> {[Port |-> m.Port, Device |-> m.Device,
                                           Medium |-> "emptydrive", UUID |-> ""]}
                 [] OTHER             -> {[Port |-> m.Port, Device |-> m.Device,
                                           Medium |-> dk.path, UUID |-> dk.uuid] :
                                          dk \in DiskRef(id)}
    IN [cfg EXCEPT ![At(n)].Devices = Without(v, m.Port, m.Device) \cup put]

\* DetachStorage empties an occupied slot.
DetachOk(n, m) == Has(n) /\ Occupied(cfg[At(n)], m.Port, m.Device)

-----------------------------------------------------------------------------
OkAllowed(c) ==
    CASE c.op = "AddStorageCtl" -> AddOk(c.name, c.ctl)
      [] c.op = "DelStorageCtl" -> Has(c.name)
      [] c.op = "AttachStorage" -> AttachOk(c.name, c.medium)
      [] OTHER                  -> DetachOk(c.name, c.medium)

ErrAllowed(c) == IF c.op = "AddStorageCtl" THEN AddErr(c.name, c.ctl) ELSE ~OkAllowed(c)

Effect(c) ==
    CASE c.op = "AddStorageCtl" -> AddEffect(c.name, c.ctl)
      [] c.op = "DelStorageCtl" -> Remove(At(c.name))
      [] c.op = "AttachStorage" -> AttachEffect(c.name, c.medium)
      [] OTHER                  -> [cfg EXCEPT ![At(c.name)].Devices =
                                      Without(cfg[At(c.name)], c.medium.Port, c.medium.Device)]

Init ==
    /\ cfg = <<>>
    /\ call = NoCall
    /\ ret = "none"

\* A call either takes its effect and returns ok, or changes nothing.
Next ==
    \E c \in Calls :
        /\ call' = c
        /\ \/ OkAllowed(c) /\ cfg' = Effect(c) /\ ret' = "ok"
           \/ ErrAllowed(c) /\ UNCHANGED cfg /\ ret' = "err"

Spec == Init /\ [][Next]_vars

=============================================================================
