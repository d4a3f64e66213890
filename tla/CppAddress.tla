----------------------------- MODULE CppAddress ------------------------------
(***************************************************************************)
(* Addresses on the CPP bus of the NIC (user/nfpcore/nfp-common/nfp_cppat.h,  *)
(* nfp_target.h, nfp_cppcore.c).  The host names an island and an address     *)
(* within a target; the bus knows addresses of 40 bits only, so the island is *)
(* written into the address, in a place that the target's entry in the IMB    *)
(* table (address translation mode) gives.                                    *)
(*                                                                         *)
(* An address is its upper bits, from bit BarBits up, as the set of the bits  *)
(* that are 1, and its lower bits as a number.  All the bits that translation *)
(* touches are upper bits.                                                    *)
(***************************************************************************)
EXTENDS Integers

NBI == 1
VQDR == 2
ILA == 6
MU == 7
PCIE == 9
ARM == 10
CRYPTO == 12
CTXPB == 14
CLS == 15

BarBits == 24       \* nfp->barsz - 3 of the 128 MB BAR 0
AddressBits == 40   \* "CPP bus uses only a 40-bit address"

Upper == BarBits .. AddressBits - 1

Island == 0 .. 63

\* An entry of imb_cat_table: the mode, the address width, and two islands.
ImbEntry == [mode : 0 .. 7, addr40 : BOOLEAN, isld : [{0, 1} -> Island]]

\* _nic_mask64(lsb + width - 1, lsb, 0)
_nic_mask64(lsb, width) == lsb .. lsb + width - 1

\* The bits of v << lsb.
Bits(v, lsb) == {lsb + b : b \in {n \in 0 .. 7 : (v \div 2^n) % 2 = 1}}

\* (addr >> lsb) & (2^width - 1)
Value(hi, lsb, width) ==
    CHOOSE v \in 0 .. 2^width - 1 : Bits(v, lsb) = hi \cap _nic_mask64(lsb, width)

\* Mutant: one bit too many is cleared for the island.
PutIslandWide(hi, island, lsb) ==
    LET mask == _nic_mask64(lsb, 6) IN
    (hi \ _nic_mask64(lsb, 7)) \cup (Bits(island, lsb) \cap mask)

PutIsland(hi, island, lsb) ==
    LET mask == _nic_mask64(lsb, 6) IN
    (hi \ mask) \cup (Bits(island, lsb) \cap mask)

Encoded(hi) == [err |-> "ok", hi |-> hi]
Refused(err) == [err |-> err, hi |-> {}]

-----------------------------------------------------------------------------
(***************************************************************************)
(* Modes 1 to 3 choose between two islands with an index bit, and below it    *)
(* take the last mode - 1 bits of the island from the address.                *)
(***************************************************************************)
FreeBits(imb) == imb.mode - 1

EncodeIndex(hi, island, idx, imb) ==
    LET k == FreeBits(imb)
        fits == {i \in {0, 1} : imb.isld[i] \div 2^k = island \div 2^k}
        i == IF 0 \in fits THEN 0 ELSE 1 IN
    IF fits = {} THEN Refused("ENODEV")
    ELSE Encoded((hi \ (idx - k .. idx)) \cup Bits(i, idx)
                    \cup Bits(island % 2^k, idx - k))

DecodeIndex(hi, idx, imb) ==
    LET k == FreeBits(imb)
        isld == imb.isld[IF idx \in hi THEN 1 ELSE 0] IN
    (isld \div 2^k) * 2^k + Value(hi, idx - k, k)

BasicIidLsb(imb) == IF imb.addr40 THEN 34 ELSE 26
BasicIdxLsb(imb) == IF imb.addr40 THEN 39 ELSE 31
MuIidLsb(imb) == IF imb.addr40 THEN 32 ELSE 24
MuIdxLsb(imb) == IF imb.addr40 THEN 37 ELSE 29
_nfp6000_cppat_mu_locality_lsb(imb) == IF imb.addr40 THEN 38 ELSE 30

_NIC_NFP6000_MU_LOCALITY_DIRECT == 2

\* Every target but MU and CTXPB; only for modes 0 to 3.
_nfp6000_decode_basic(hi, imb) ==
    IF imb.mode = 0 THEN Value(hi, BasicIidLsb(imb), 6)
                    ELSE DecodeIndex(hi, BasicIdxLsb(imb), imb)

\* The island bits of a 32-bit VQDR address are its channel: verified only.
_nfp6000_encode_basic(hi, island, target, imb) ==
    IF imb.mode > 3 THEN Refused("EINVAL")
    ELSE IF target = VQDR /\ ~ imb.addr40 THEN
        IF _nfp6000_decode_basic(hi, imb) = island THEN Encoded(hi)
                                                   ELSE Refused("EINVAL")
    ELSE IF imb.mode = 0 THEN Encoded(PutIsland(hi, island, BasicIidLsb(imb)))
    ELSE EncodeIndex(hi, island, BasicIdxLsb(imb), imb)

Direct(hi, imb) ==
    Value(hi, _nfp6000_cppat_mu_locality_lsb(imb), 2)
        = _NIC_NFP6000_MU_LOCALITY_DIRECT

(***************************************************************************)
(* MU: an address of direct locality carries the whole island.  Mode 3 makes  *)
(* the address of an island that is no EMU direct by setting the upper        *)
(* locality bit, leaving the lower one as it is.                              *)
(***************************************************************************)
\* Mutant: mode 3 leaves the locality of the address alone.
EncodeMuLocal(hi, island, imb) ==
    IF imb.mode > 3 THEN Refused("EINVAL")
    ELSE IF imb.mode = 0 \/ Direct(hi, imb) \/ (imb.mode = 3 /\ island \notin 24 .. 26)
      THEN Encoded(PutIsland(hi, island, MuIidLsb(imb)))
    ELSE EncodeIndex(hi, island, MuIdxLsb(imb), imb)

_nfp6000_encode_mu(hi, island, imb) ==
    LET other == imb.mode = 3 /\ island > 0 /\ island \notin 24 .. 26
        located == IF other
                     THEN hi \cup Bits(_NIC_NFP6000_MU_LOCALITY_DIRECT,
                                       _nfp6000_cppat_mu_locality_lsb(imb))
                     ELSE hi IN
    IF imb.mode > 3 THEN Refused("EINVAL")
    ELSE IF imb.mode = 0 \/ other \/ Direct(hi, imb)
      THEN Encoded(PutIsland(located, island, MuIidLsb(imb)))
    ELSE EncodeIndex(hi, island, MuIdxLsb(imb), imb)

_nfp6000_decode_mu(hi, imb) ==
    IF imb.mode = 0 \/ Direct(hi, imb) THEN Value(hi, MuIidLsb(imb), 6)
                                       ELSE DecodeIndex(hi, MuIdxLsb(imb), imb)

BasicTargets == {NBI, VQDR, ILA, PCIE, ARM, CRYPTO, CLS}

_nfp6000_cppat_addr_encode(hi, island, target, imb) ==
    CASE target \in BasicTargets -> _nfp6000_encode_basic(hi, island, target, imb)
      [] target = MU -> _nfp6000_encode_mu(hi, island, imb)
      [] target = CTXPB /\ imb.mode = 1 /\ ~ imb.addr40 ->
            Encoded(PutIsland(hi, island, 24))
      [] OTHER -> Refused("EINVAL")

\* Where the bus sends an address: "This blindly does what the silicon would
\* do."  Only for targets and modes that can be encoded.
_nfp6000_cppat_addr_decode(hi, target, imb) ==
    CASE target \in BasicTargets -> _nfp6000_decode_basic(hi, imb)
      [] target = MU -> _nfp6000_decode_mu(hi, imb)
      [] target = CTXPB -> Value(hi, 24, 6)

\* The address without its island, for the same targets and modes.
_nfp6000_cppat_addr_iid_clear(hi, target, imb) ==
    LET k == FreeBits(imb)
        whole(lsb) == hi \ _nic_mask64(lsb, 6)
        index(idx) == hi \ (idx - k .. idx) IN
    CASE target \in BasicTargets /\ imb.mode = 0 -> whole(BasicIidLsb(imb))
      [] target \in BasicTargets /\ imb.mode \in 1 .. 3 -> index(BasicIdxLsb(imb))
      [] target = MU /\ (imb.mode = 0 \/ Direct(hi, imb)) -> whole(MuIidLsb(imb))
      [] target = MU /\ ~ (imb.mode = 0 \/ Direct(hi, imb)) -> index(MuIdxLsb(imb))
      [] target = CTXPB -> whole(24)

\* From an island's address to the bus address; island 0 is a bus address.
nfp_target_cpp(hi, island, target, imb) ==
    IF target >= 16 THEN Refused("EINVAL")
    ELSE IF island = 0 THEN Encoded(hi)
    ELSE _nfp6000_cppat_addr_encode(hi, island, target, imb)
==============================================================================
