---------------------------- MODULE StorageRules ----------------------------
(***************************************************************************)
(* The vocabulary of storage controllers shared by the abstract storage    *)
(* configuration (StorageConfig) and the model of the codec (Storage): the *)
(* buses and chipsets of uart.go, the disk images registered with          *)
(* VirtualBox, and the rules VBoxManage applies to a controller of each    *)
(* bus (chipsets it accepts, port counts, devices per port).               *)
(***************************************************************************)
EXTENDS Naturals, Sequences, FiniteSets

CONSTANTS
    Names,            \* controller names the caller uses
    Disks,            \* registered hard-disk images, records [path, uuid]
    ReportedUnknown,  \* chipsets showvminfo reports as "unknown"
    CtlInputs,        \* StorageController values callers pass to AddStorageCtl
    MediumInputs      \* StorageMedium values callers pass to Attach/DetachStorage

\* SystemBus and StorageControllerChipset values (uart.go).
Buses == {"ide", "sata", "scsi", "floppy", "sas", "usb", "pcie", "virtio"}
Chipsets == {"LSILogic", "LSILogicSAS", "BusLogic", "IntelAHCI", "PIIX3",
             "PIIX4", "ICH6", "I82078", "USB", "NVMe", "VirtIO"}
DriveTypes == {"dvddrive", "hdd", "fdd"}

ASSUME StorageRulesAssumption ==
    /\ Names \subseteq STRING
    /\ Disks \subseteq [path : STRING, uuid : STRING]
    /\ \A d1, d2 \in Disks : d1.path # d2.uuid
    /\ ReportedUnknown \subseteq Chipsets
    /\ CtlInputs \subseteq [SysBus : Buses \cup {""}, Ports : Nat,
                            Chipset : Chipsets \cup {""},
                            HostIOCache : BOOLEAN, Bootable : BOOLEAN]
    /\ MediumInputs \subseteq [Port : Nat, Device : Nat,
                               DriveType : DriveTypes \cup {""},
                               Medium : STRING, UUID : STRING]

-----------------------------------------------------------------------------
(* VirtualBox's rules for a controller, as VBoxManage storagectl and       *)
(* storageattach enforce them.                                             *)

\* The bus a chipset emulates.
BusOf(ch) ==
    CASE ch = "IntelAHCI"                   -> "sata"
      [] ch \in {"LSILogic", "BusLogic"}    -> "scsi"
      [] ch \in {"PIIX3", "PIIX4", "ICH6"}  -> "ide"
      [] ch = "I82078"                      -> "floppy"
      [] ch = "LSILogicSAS"                 -> "sas"
      [] ch = "USB"                         -> "usb"
      [] ch = "NVMe"                        -> "pcie"
      [] ch = "VirtIO"                      -> "virtio"

\* The chipset storagectl --add picks when --controller is not given.
DefaultChipset(bus) == CHOOSE ch \in {"IntelAHCI", "LSILogic", "PIIX4", "I82078",
                                      "LSILogicSAS", "USB", "NVMe", "VirtIO"} :
                           BusOf(ch) = bus

\* Port counts a bus accepts, and the count a new controller gets.
PortRange(bus) ==
    CASE bus = "ide"    -> 2..2
      [] bus = "floppy" -> 1..1
      [] bus = "sata"   -> 1..30
      [] bus \in {"scsi", "usb"} -> IF bus = "scsi" THEN 16..16 ELSE 8..8
      [] OTHER          -> 1..255          \* sas, pcie, virtio
DefaultPorts(bus) ==
    CASE bus = "sata" -> 30
      [] bus = "ide"  -> 2
      [] bus = "scsi" -> 16
      [] bus \in {"sas", "usb"} -> 8
      [] OTHER        -> 1                 \* floppy, pcie, virtio

\* Devices on one port: master and slave on IDE, two drives on floppy.
DevicesOf(bus) == IF bus \in {"ide", "floppy"} THEN 2 ELSE 1

\* The storagecontrollertype token showvminfo prints for a chipset.
Token(ch) ==
    IF ch \in ReportedUnknown THEN "unknown"
    ELSE CASE ch = "IntelAHCI"   -> "IntelAhci"
           [] ch = "LSILogic"    -> "LsiLogic"
           [] ch = "LSILogicSAS" -> "LsiLogicSas"
           [] ch = "VirtIO"      -> "VirtioSCSI"
           [] OTHER              -> ch

\* The calls of the storage API (machine.go) a caller can make.
Calls == [op : {"AddStorageCtl"}, name : Names, ctl : CtlInputs]
         \cup [op : {"DelStorageCtl"}, name : Names]
         \cup [op : {"AttachStorage", "DetachStorage"}, name : Names,
               medium : MediumInputs]
\* The value of the last call before any call is made.
NoCall == [op |-> "none"]

=============================================================================
