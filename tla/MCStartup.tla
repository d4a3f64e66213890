----------------------------- MODULE MCStartup -------------------------------
(***************************************************************************)
(* Two processes of this program and another user of the NSP on an interface  *)
(* of its own; one of them dies, at any point.  And two users of the NSP on   *)
(* interfaces of their own that set different ports, the same one to          *)
(* different values, one the ABI does not let them set and one without lanes. *)
(***************************************************************************)
EXTENDS Startup

MCHosts == {"p1", "p2", "m"}
MCInterface == [h \in MCHosts |-> IF h = "m" THEN 2 ELSE 1]
MCOperations == {[kind |-> "set", port |-> 1, value |-> 1, abi |-> 0]}

MCSetters == {"m", "n"}
MCSetterInterface == [h \in MCSetters |-> IF h = "m" THEN 2 ELSE 3]
MCSettings ==
    {[kind |-> "set", port |-> 1, value |-> 1, abi |-> 0],
     [kind |-> "set", port |-> 1, value |-> 2, abi |-> 0],
     [kind |-> "set", port |-> 2, value |-> 1, abi |-> 0],
     [kind |-> "set", port |-> 2, value |-> 1, abi |-> 20],
     [kind |-> "set", port |-> 3, value |-> 1, abi |-> 0]}

\* Images: a symbol too small; the right one behind an image that is not
\* loaded, with a symbol of another name before it.
Symbol(name, size) == [name |-> name, size |-> size, target |-> 7, island |-> 32, menum |-> 255]
Mip(ok, syms) ==
    [signature |-> ok, version |-> 1, strtab |-> <<"_rx_counters", "i32._cfg">>, symtab |-> syms]
Image(loaded, mip) == [loaded |-> loaded, mip |-> mip]
Loaded(images) == [init |-> TRUE, version |-> 2, fwinfo |-> images]
GoodMip == Mip(TRUE, <<Symbol(0, 8), Symbol(3, 8)>>)
MCFirmwares ==
    {Loaded(<<Image(TRUE, Mip(TRUE, <<Symbol(1, 4)>>))>>),
     Loaded(<<Image(FALSE, Mip(FALSE, <<>>)), Image(TRUE, GoodMip)>>)}

\* Hosts: the card is not there; its node cannot be opened; all is well.
Device(vendor, uio) ==
    [named |-> TRUE, readable |-> Identity \cup {"resource"}, vendor |-> vendor,
     device |-> "NFP4000_PF", uio |-> uio, mappable |-> {1},
     resource |-> <<[mem |-> TRUE, start |-> 16, end |-> 31],
                    [mem |-> FALSE, start |-> 0, end |-> 0]>>]
MCMachines ==
    {<<Device("OTHER", {})>>,
     <<Device("NETRONOME", {"entry"})>>,
     <<Device("OTHER", {}), Device("NETRONOME", {"entry", "node", "config"})>>}
==============================================================================
