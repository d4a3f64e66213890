------------------------------ MODULE PciDriver ------------------------------
(***************************************************************************)
(* How the host process finds and maps the card (user/lib/driver.c).  A       *)
(* machine is the sequence of the PCI devices the kernel lists; a device has  *)
(*   named     its name is an address                                         *)
(*   readable  the files of it that can be read and parsed                    *)
(*   vendor, device                                                           *)
(*   resource  its six regions: [mem, start, end]                             *)
(*   uio       what of its UIO device can be opened                           *)
(*   mappable  the regions that can be mapped                                 *)
(***************************************************************************)
EXTENDS Integers, SequencesExt

\* What a function that found nothing returns.
None == <<>>

\* The first element of s with a property, or None.
FirstWith(s, Test(_)) ==
    LET found == {i \in DOMAIN s : Test(s[i])}
    IN  IF found = {} THEN None ELSE s[CHOOSE i \in found : \A j \in found : i <= j]

Identity == {"vendor", "device", "subsystem_vendor", "subsystem_device", "class"}

\* The regions of memory; any other stays empty.
pci_parse_sysfs_resource(resource) ==
    [i \in DOMAIN resource |->
        IF resource[i].mem
        THEN [phys_addr |-> resource[i].start, len |-> resource[i].end - resource[i].start + 1]
        ELSE [phys_addr |-> 0, len |-> 0]]

\* The number of virtual functions is optional, everything else is needed.
pci_setup_device(d) ==
    IF Identity \cup {"resource"} \subseteq d.readable
    THEN [bars |-> pci_parse_sysfs_resource(d.resource), uio |-> d.uio, mappable |-> d.mappable]
    ELSE None

\* The first Netronome NIC with a physical function; if that one cannot be set
\* up, no other is tried.
pci_scan(machine) ==
    LET nic == FirstWith(machine, LAMBDA d : /\ d.named
                                             /\ {"vendor", "device"} \subseteq d.readable
                                             /\ d.vendor = "NETRONOME"
                                             /\ d.device \in {"NFP4000_PF", "NFP6000_PF"})
    IN  IF nic = None THEN None ELSE pci_setup_device(nic)

\* There is a UIO directory and an entry in it; the device node, which may be
\* there already, and the configuration space can be opened.
pci_get_device(dev) == {"entry", "node", "config"} \subseteq dev.uio

\* Every region that is not empty is mapped, or the call fails.
pci_map_device(dev) ==
    /\ pci_get_device(dev)
    /\ \A i \in DOMAIN dev.bars : dev.bars[i].phys_addr # 0 => i \in dev.mappable
==============================================================================
