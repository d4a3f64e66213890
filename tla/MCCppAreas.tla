----------------------------- MODULE MCCppAreas ------------------------------
(***************************************************************************)
(* Small instances of CppAreas for TLC.                                     *)
(***************************************************************************)
EXTENDS CppAreas, TLC

Imb(mode, addr40, isld1, isld0) ==
    [mode |-> mode, addr40 |-> addr40, isld |-> (0 :> isld0 @@ 1 :> isld1)]

Req(target, island, command, hi, low, size) ==
    [target |-> target, island |-> island, command |-> command, hi |-> hi,
     low |-> low, size |-> size]

RW == <<NFP_CPP_ACTION_RW, 0>>

\* All modes in both widths, with islands that differ in their free bits.
MCImbTables ==
    {Imb(m, w, 48, 25) : m \in 0 .. 3, w \in BOOLEAN} \cup {Imb(4, TRUE, 48, 25)}

(***************************************************************************)
(* Memory by islands of two kinds, with address bits that translation has to  *)
(* clear; an atomic operation (a fixed window); a target whose island is only *)
(* verified, and one with an entry of its own; areas that cross a window or   *)
(* the end of the bus; a command without data, and one the target lacks.      *)
(***************************************************************************)
MCRequests ==
    {Req(MU, 24, RW, {24, 29, 30, 37, 38}, 8, 16),
     Req(MU, 32, RW, {}, 2^BarBits - 4, 4),
     Req(MU, 0, <<3, 0>>, {32, 35, 39}, 4, 4),
     Req(VQDR, 48, RW, {31}, 0, 4),
     Req(CTXPB, 9, RW, {30}, 12, 4),
     Req(CLS, 25, <<24, 0>>, {}, 2^BarBits - 4, 8),
     Req(MU, 0, RW, Upper, 2^BarBits - 4, 8),
     Req(MU, 0, <<4, 2>>, {}, 0, 4),
     Req(ILA, 0, <<9, 0>>, {}, 0, 4)}

\* Two threads and two areas are enough to race for a BAR.
MCFewRequests == {Req(MU, 0, RW, {}, 0, 8), Req(CLS, 0, RW, {}, 0, 8)}
MCOneTable == {Imb(0, TRUE, 25, 24)}
==============================================================================
