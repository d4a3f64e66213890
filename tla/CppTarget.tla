------------------------------ MODULE CppTarget ------------------------------
(***************************************************************************)
(* What the targets of the CPP bus can do (user/nfpcore/nfp_target.h): for a  *)
(* command, an action and a token, the width in bytes of what a read pushes   *)
(* and of what a write pulls.                                                 *)
(***************************************************************************)
EXTENDS CppAddress

NFP_CPP_ACTION_RW == 32

\* Widths by pushpull_width, which is -1 for a command that moves no data.
NoWidth == -1
PUSHPULL(pull, push) == [pull |-> pull, push |-> push]

EINVAL == 22
Unknown == PUSHPULL(-EINVAL, -EINVAL)  \* the command itself is refused

Push32 == PUSHPULL(NoWidth, 4)
Pull32 == PUSHPULL(4, NoWidth)

InRange(island, first, last) == island = 0 \/ island \in first .. last

target_rw(cmd, width, start, len) ==
    CASE ~ InRange(cmd.island, start, start + len) -> Unknown
      [] cmd.command = <<0, 0>> -> PUSHPULL(NoWidth, width)
      [] cmd.command = <<1, 0>> -> PUSHPULL(width, NoWidth)
      [] cmd.command = <<NFP_CPP_ACTION_RW, 0>> -> PUSHPULL(width, width)
      [] OTHER -> Unknown

\* A command of the table, or the plain reads and writes.
FromTable(cmd, pull, push, otherwise) ==
    CASE cmd.command \in pull -> Pull32
      [] cmd.command \in push -> Push32
      [] OTHER -> otherwise

\* The four parts of an NBI by address have the same commands.
nfp6000_nbi(cmd) ==
    IF InRange(cmd.island, 8, 9) THEN target_rw(cmd, 8, 8, 1) ELSE Unknown

MuPull == {<<3, 2>>, <<13, 2>>, <<15, 0>>} \cup ((4 .. 10) \X {0})
             \cup ({31} \X (0 .. 3))
MuPush == {<<3, 0>>, <<13, 0>>, <<13, 1>>, <<15, 3>>} \cup ((4 .. 10) \X {3})
             \cup ({28} \X (0 .. 3))

nfp6000_mu_common(cmd) ==
    FromTable(cmd, MuPull, MuPush,
        CASE cmd.command \in {NFP_CPP_ACTION_RW} \X (0 .. 3) -> PUSHPULL(8, 8)
          [] cmd.command \in {0} \X (0 .. 3) -> PUSHPULL(NoWidth, 8)
          [] cmd.command \in {1} \X (0 .. 3) -> PUSHPULL(8, NoWidth)
          [] cmd.command = <<4, 2>> -> PUSHPULL(NoWidth, NoWidth)
          [] OTHER -> Unknown)

nfp6000_mu_ctm(cmd) == FromTable(cmd, {}, {<<16, 1>>}, nfp6000_mu_common(cmd))

nfp6000_mu_emu(cmd) ==
    FromTable(cmd, {<<18, 2>>, <<18, 3>>, <<20, 2>>},
              ({18} \X {0, 1}) \cup ({21, 22} \X (0 .. 2)),
              nfp6000_mu_common(cmd))

\* The top byte of a bus address decides what kind of memory it is.
MuByAddress(cmd) ==
    LET top == Value(cmd.hi, 32, 8) IN
    CASE top \in 32 .. 127 \cup 152 .. 155 -> nfp6000_mu_emu(cmd)
      [] top \in 156 .. 159 -> nfp6000_mu_common(cmd)
      [] OTHER -> nfp6000_mu_ctm(cmd)

nfp6000_mu(cmd) ==
    CASE cmd.island = 0 -> MuByAddress(cmd)
      [] cmd.island \in 24 .. 27 -> nfp6000_mu_emu(cmd)
      [] cmd.island \in 28 .. 31 -> nfp6000_mu_common(cmd)
      [] cmd.island \in {1} \cup 4 .. 7 \cup 12 .. 13 \cup 32 .. 51 ->
            nfp6000_mu_ctm(cmd)
      [] OTHER -> Unknown

nfp6000_ila(cmd) ==
    IF InRange(cmd.island, 48, 51)
      THEN FromTable(cmd, {<<3, 0>>}, {<<0, 1>>, <<2, 0>>}, target_rw(cmd, 4, 48, 4))
      ELSE Unknown

nfp6000_pci(cmd) ==
    IF InRange(cmd.island, 4, 7)
      THEN FromTable(cmd, {<<3, 0>>}, {<<2, 0>>}, target_rw(cmd, 4, 4, 4))
      ELSE Unknown

nfp6000_crypto(cmd) ==
    CASE ~ InRange(cmd.island, 12, 15) -> Unknown
      [] cmd.command = <<2, 0>> -> PUSHPULL(8, NoWidth)
      [] OTHER -> target_rw(cmd, 8, 12, 4)

nfp6000_cap_xpb(cmd) ==
    CASE ~ InRange(cmd.island, 1, 63) -> Unknown
      [] cmd.command = <<NFP_CPP_ACTION_RW, 1>> -> PUSHPULL(4, 4)
      [] OTHER ->
            FromTable(cmd, {<<0, 2>>, <<1, 1>>, <<1, 2>>} \cup ({3} \X (0 .. 3)),
                      {<<0, 1>>} \cup ({2} \X (0 .. 3)),
                      target_rw(cmd, 4, 1, 63))

ClsPull == {<<0, 3>>, <<2, 0>>, <<2, 1>>, <<4, 0>>, <<4, 1>>, <<6, 0>>, <<6, 1>>,
            <<6, 2>>, <<8, 2>>, <<8, 3>>, <<10, 0>>, <<10, 2>>, <<14, 0>>,
            <<17, 2>>, <<24, 1>>, <<25, 1>>}
ClsPush == ({9} \X (0 .. 3)) \cup {<<15, 1>>, <<24, 0>>, <<25, 0>>}

nfp6000_cls(cmd) ==
    IF InRange(cmd.island, 1, 63)
      THEN FromTable(cmd, ClsPull, ClsPush, target_rw(cmd, 4, 0, 64))
      ELSE Unknown

(***************************************************************************)
(* A command is its target, its island (0 for a bus address), <<action,       *)
(* token>> and the address.                                                   *)
(***************************************************************************)
nfp6000_target_pushpull(target, cmd) ==
    CASE target = NBI -> nfp6000_nbi(cmd)
      [] target = VQDR -> target_rw(cmd, 4, 24, 4)
      [] target = ILA -> nfp6000_ila(cmd)
      [] target = MU -> nfp6000_mu(cmd)
      [] target = PCIE -> nfp6000_pci(cmd)
      [] target = ARM ->
            target_rw(cmd, IF cmd.hi = {} /\ cmd.low < 2^16 THEN 8 ELSE 4, 1, 1)
      [] target = CRYPTO -> nfp6000_crypto(cmd)
      [] target = CTXPB -> nfp6000_cap_xpb(cmd)
      [] target = CLS -> nfp6000_cls(cmd)
      [] target = 0 -> target_rw(cmd, 4, 4, 4)
      [] OTHER -> Unknown

nfp_target_pushpull_width(pp, write_not_read) ==
    IF write_not_read THEN pp.pull ELSE pp.push
==============================================================================
