--------------------------- MODULE FirmwareTables ----------------------------
(***************************************************************************)
(* How the worker finds struct device_meta_t in the firmware that is loaded:  *)
(* the table of firmware images (user/nfpcore/nfp_nffw.c), the information    *)
(* page of the first one (nfp_mip.c), its symbols (nfp_rtsym.c).  A firmware  *)
(* state f has the table's flags and entries; an entry has its page, which    *)
(* has its symbols.  Addresses are left to CppAddress, names are strings.     *)
(***************************************************************************)
EXTENDS PciDriver

CONSTANTS FwinfoCount1,  \* entries of a version-1 table: 120 in the code
          FwinfoCount2   \* of a version-2 table: 200

ASSUME FwinfoAssumption == FwinfoCount1 \in Nat /\ FwinfoCount2 \in Nat

-----------------------------------------------------------------------------
\* The table is initialised and of a version that is known.
nfp_nffw_info_open(f) == f.init /\ f.version <= 2

\* A table without a version is one of version 1.
nffw_res_fwinfos(f) ==
    LET count == IF f.version = 2 THEN FwinfoCount2 ELSE FwinfoCount1
    IN  SubSeq(f.fwinfo, 1, IF count < Len(f.fwinfo) THEN count ELSE Len(f.fwinfo))

nfp_nffw_info_fwid_first(f) == FirstWith(nffw_res_fwinfos(f), LAMBDA e : e.loaded)

\* nfp_mip_try_read: what lies at the entry's address looks like a page.
IsMip(mip) == mip.signature /\ mip.version = 1

\* nfp_mip_open by way of nfp_mip_read_resource.
nfp_mip_open(f) ==
    LET first == nfp_nffw_info_fwid_first(f)
    IN  IF nfp_nffw_info_open(f) /\ first # None /\ IsMip(first.mip) THEN first.mip ELSE None

-----------------------------------------------------------------------------
\* An entry is 16 bytes; the name is an offset into the strings, modulo their
\* size.  A microengine's number makes a domain only together with an island.
nfp_meid(island, menum) ==
    IF island < 64 /\ menum < 12 THEN island * 16 + menum + 4 ELSE -1

nfp_rtsym_sw_entry_init(mip, e) ==
    [name |-> mip.strtab[(e.name % Len(mip.strtab)) + 1],
     size |-> e.size,
     target |-> CASE e.target = 0 -> -1     \* local memory
                  [] e.target = 23 -> -7    \* cache of the external memory
                  [] OTHER -> e.target,
     domain |-> IF e.menum # 255 THEN nfp_meid(e.island, e.menum)
                ELSE IF e.island # 255 THEN e.island ELSE -1]

\* Without a page, or with an empty table, there is nothing to look up in.
nfp_rtsym_table_read(f) ==
    LET mip == nfp_mip_open(f)
    IN  IF mip = None \/ mip.symtab = <<>> \/ mip.strtab = <<>> THEN None
        ELSE [i \in DOMAIN mip.symtab |-> nfp_rtsym_sw_entry_init(mip, mip.symtab[i])]

nfp_rtsym_lookup(rtbl, name) == FirstWith(rtbl, LAMBDA sym : sym.name = name)

\* The symbol to map, or None.
nfp_rtsym_map(rtbl, name, min_size) ==
    LET sym == nfp_rtsym_lookup(rtbl, name)
    IN  IF sym # None /\ sym.size >= min_size THEN sym ELSE None
==============================================================================
