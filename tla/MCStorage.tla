------------------------------ MODULE MCStorage ------------------------------
(* A VM with up to two controllers and one registered disk image.  The    *)
(* inputs reach every rule of storagectl and storageattach: default and   *)
(* explicit chipsets, a chipset reported as "unknown", a port count       *)
(* change, an IDE slave slot, attaching by path and by UUID, an empty     *)
(* DVD drive, detaching.                                                  *)
EXTENDS Storage

MCNames == {"SATA", "IDE"}
MCDisks == {[path |-> "/vm/disk.vdi", uuid |-> "u-1"]}
MCReportedUnknown == {"NVMe"}
Ctl(bus, ports, ch, cache, boot) ==
    [SysBus |-> bus, Ports |-> ports, Chipset |-> ch, HostIOCache |-> cache, Bootable |-> boot]
MCCtlInputs ==
    {Ctl("sata", 0, "", FALSE, TRUE), Ctl("ide", 0, "PIIX3", TRUE, FALSE),
     Ctl("pcie", 0, "", FALSE, FALSE), Ctl("", 2, "", FALSE, TRUE),
     Ctl("", 0, "ICH6", FALSE, FALSE)}
Med(p, d, ty, m, u) == [Port |-> p, Device |-> d, DriveType |-> ty, Medium |-> m, UUID |-> u]
MCMediumInputs ==
    {Med(1, 0, "hdd", "/vm/disk.vdi", ""), Med(0, 1, "dvddrive", "emptydrive", ""),
     Med(0, 0, "hdd", "", "u-1"), Med(1, 0, "dvddrive", "emptydrive", "")}
\* A medium as GetMachine reports it: findStorageMedia leaves DriveType "".
MCReadMediumInputs == MCMediumInputs \cup {Med(0, 0, "", "/vm/disk.vdi", "u-1")}
=============================================================================
