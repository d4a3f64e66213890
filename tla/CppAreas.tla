------------------------------ MODULE CppAreas -------------------------------
(***************************************************************************)
(* CPP areas (user/nfpcore/nfp_cppcore.c) over the PCIe BARs of the NIC       *)
(* (nfp_cpp_pcie_ops.c).  To reach NIC memory a thread allocates an area: the *)
(* address is translated, a BAR that nobody uses is found and configured as a *)
(* window on the area, and reads and writes go through the window.            *)
(*                                                                         *)
(* The threads of a process share the BARs and take no lock.  The steps of    *)
(* nfp_alloc_bar are the reading of a BAR's lock flag and its setting; what   *)
(* follows until the window is configured touches that BAR only, and is part  *)
(* of the second.                                                             *)
(***************************************************************************)
EXTENDS CppTarget, FiniteSets

CONSTANTS Threads,    \* threads of the host process that use the library
          ImbTables,  \* what imb_cat_table may hold for every target
          Requests,   \* areas that are asked for
          MaxKept     \* bound: areas that one thread keeps

ASSUME AreasAssumption ==
    /\ ImbTables \subseteq ImbEntry
    /\ Requests \subseteq
          [target : 0 .. 31, island : 0 .. 255, command : (0 .. 32) \X (0 .. 3),
           hi : SUBSET Upper, low : 0 .. 2^BarBits - 1, size : 0 .. 2^BarBits]
    /\ MaxKept \in Nat

VARIABLES imb,     \* imb_cat_table: one entry stands for all targets
          bar,     \* the BARs: in use, and what they are a window on
          call,    \* the call each thread is in
          kept,    \* the areas each thread keeps open
          leaked   \* history: BARs that stay in use though no area has them

areasVars == <<imb, bar, call, kept, leaked>>

\* nfp_enable_bars of the primary process: BARs 4 to 2, searched in this order.
FirstBar == 4
LastBar == 2
Bars == LastBar .. FirstBar
NoBar == 0

NoWindow == [maptype |-> "none", target |-> 0, command |-> <<0, 0>>, base |-> {}]
NoArea == [bar |-> NoBar]

nfp_enable_bars ==
    bar = [x \in Bars |-> [lock |-> FALSE, window |-> NoWindow]]

AreasInit ==
    /\ imb \in ImbTables
    /\ nfp_enable_bars
    /\ call = [t \in Threads |-> [pc |-> "idle", area |-> NoArea, x |-> FirstBar]]
    /\ kept = [t \in Threads |-> {}]
    /\ leaked = {}

At(t, pc) == call[t].pc = pc

\* The call ends; if it made an area that the caller keeps, it is in kept.
Return(t) ==
    call' = [call EXCEPT ![t] = [pc |-> "idle", area |-> NoArea, x |-> FirstBar]]

-----------------------------------------------------------------------------
Fixed(command) == command[1] \notin {NFP_CPP_ACTION_RW, 0}

\* The first and the last byte must lie in the same window, and the window is
\* aligned to its own size: its base is the upper bits.
nfp_compute_bar(area) ==
    [ok |-> /\ area.width \in {0, 4, 8}
            /\ (area.low + area.req.size - 1) \in 0 .. 2^BarBits - 1,
     window |-> [maptype |-> IF Fixed(area.req.command) THEN "FIXED" ELSE "BULK",
                 target |-> area.req.target,
                 command |-> IF Fixed(area.req.command) THEN area.req.command
                             ELSE <<NFP_CPP_ACTION_RW, area.req.command[2]>>,
                 base |-> area.hi]]

\* nfp6000_area_init up to nfp_alloc_bar: the widths, if the target knows the
\* command at the translated address.
PushPullOf(req, hi) ==
    nfp6000_target_pushpull(req.target,
        [island |-> 0, command |-> req.command, hi |-> hi, low |-> req.low])

WidthsDiffer(pp) == pp.push > 0 /\ pp.pull > 0 /\ pp.push # pp.pull

(***************************************************************************)
(* nfp_cpp_area_alloc: by nfp_cpp_read and nfp_cpp_write ("rw"), by           *)
(* nfp_cpp_map_area ("map"), or by the CPP device server, which neither       *)
(* acquires nor releases what it allocates ("serve").                         *)
(***************************************************************************)
nfp_cpp_area_alloc(t, req, use) ==
    LET cpp == nfp_target_cpp(req.hi, req.island, req.target, imb)
        pp == PushPullOf(req, cpp.hi) IN
    /\ At(t, "idle")
    /\ \/ /\ \/ req.hi = Upper /\ req.low + req.size > 2^BarBits
             \/ cpp.err # "ok"
             \/ pp = Unknown
             \/ WidthsDiffer(pp)
          /\ Return(t)
       \/ /\ req.hi = Upper => req.low + req.size <= 2^BarBits
          /\ cpp.err = "ok"
          /\ pp # Unknown
          /\ ~ WidthsDiffer(pp)
          /\ call' = [call EXCEPT ![t].pc = "scan", ![t].area =
                 [bar |-> NoBar, req |-> req, use |-> use, hi |-> cpp.hi,
                  low |-> req.low, pp |-> pp, acquired |-> FALSE,
                  width |-> IF pp.push > 0 THEN pp.push ELSE pp.pull]]
    /\ UNCHANGED <<imb, bar, kept, leaked>>

\* Mutant: the last BAR is taken if all are in use.
ScanTakesLast(t) ==
    LET x == call[t].x IN
    /\ At(t, "scan")
    /\ IF bar[x].lock /\ x > LastBar
         THEN call' = [call EXCEPT ![t].x = x - 1]
         ELSE call' = [call EXCEPT ![t].pc = "take"]
    /\ UNCHANGED <<imb, bar, kept, leaked>>

\* nfp_alloc_bar reads the flag of one BAR after the other.
ScanBar(t) ==
    LET x == call[t].x IN
    /\ At(t, "scan")
    /\ \/ /\ ~ bar[x].lock
          /\ call' = [call EXCEPT ![t].pc = "take"]
       \/ /\ bar[x].lock
          /\ x > LastBar
          /\ call' = [call EXCEPT ![t].x = x - 1]
       \/ /\ bar[x].lock
          /\ x = LastBar
          /\ Return(t)  \* ENOMEM
    /\ UNCHANGED <<imb, bar, kept, leaked>>

(***************************************************************************)
(* The flag is set and nfp_reconfigure_bar points the window at the area.  If *)
(* it refuses, nfp_cpp_area_alloc frees the area and the flag stays set.  The *)
(* callers but the server go on to acquire the area, which succeeds.          *)
(***************************************************************************)
TakeBar(t) ==
    LET x == call[t].x
        area == [call[t].area EXCEPT !.bar = x,
                                     !.acquired = call[t].area.use # "serve"]
        new == nfp_compute_bar(area) IN
    /\ At(t, "take")
    /\ bar' = [bar EXCEPT ![x] =
                  [lock |-> TRUE, window |-> IF new.ok THEN new.window ELSE @.window]]
    /\ IF new.ok
         THEN /\ leaked' = leaked
              /\ IF area.use = "rw"
                   THEN /\ call' = [call EXCEPT ![t].pc = "access", ![t].area = area]
                        /\ kept' = kept
                   ELSE /\ Return(t)
                        /\ kept' = [kept EXCEPT ![t] = @ \cup {area}]
         ELSE /\ leaked' = leaked \cup {x}
              /\ Return(t)
              /\ kept' = kept
    /\ UNCHANGED imb

-----------------------------------------------------------------------------
(***************************************************************************)
(* nfp6000_area_read and nfp6000_area_write: what is refused.  Accesses of MU *)
(* with the wildcard action go by words of 32 bits, but like all of them      *)
(* must start at a multiple of the target's width.                            *)
(***************************************************************************)
AccessError(area, write, offset, length) ==
    LET width == nfp_target_pushpull_width(area.pp, write)
        unit == IF width = 8 /\ ~ (area.req.target = MU /\
                                   area.req.command[1] = NFP_CPP_ACTION_RW)
                  THEN 8 ELSE 4 IN
    CASE offset + length > area.req.size -> "EFAULT"
      [] width <= 0 -> "EINVAL"
      [] (area.low + offset) % width # 0 -> "EINVAL"
      [] offset % unit # 0 \/ length % unit # 0 -> "EINVAL"
      [] OTHER -> "ok"

\* Mutant: the area is freed without being released.
ReleaseNothing(area) == UNCHANGED bar

nfp6000_area_release(area) == bar' = [bar EXCEPT ![area.bar].lock = FALSE]

\* nfp_cpp_read and nfp_cpp_write access the whole area, and release and free
\* it whatever came of that.  The access itself changes nothing here.
nfp_cpp_area_release_free(t) ==
    /\ At(t, "access")
    /\ nfp6000_area_release(call[t].area)
    /\ Return(t)
    /\ UNCHANGED <<imb, kept, leaked>>

\* The caller of nfp_cpp_map_area is done with the area.
Unmap(t, area) ==
    /\ At(t, "idle")
    /\ area.acquired
    /\ nfp6000_area_release(area)
    /\ kept' = [kept EXCEPT ![t] = @ \ {area}]
    /\ UNCHANGED <<imb, call, leaked>>

\* The server frees an area that it has not acquired: nothing is released.
nfp_cpp_area_free(t, area) ==
    /\ At(t, "idle")
    /\ ~ area.acquired
    /\ kept' = [kept EXCEPT ![t] = @ \ {area}]
    /\ leaked' = leaked \cup {area.bar}
    /\ UNCHANGED <<imb, bar, call>>

-----------------------------------------------------------------------------
AreasNext ==
    \E t \in Threads :
        \/ \E req \in Requests, use \in {"rw", "map", "serve"} :
              /\ use # "rw" => Cardinality(kept[t]) < MaxKept
              /\ nfp_cpp_area_alloc(t, req, use)
        \/ ScanBar(t)
        \/ TakeBar(t)
        \/ nfp_cpp_area_release_free(t)
        \/ \E area \in kept[t] :
              \/ Unmap(t, area)
              \/ nfp_cpp_area_free(t, area)

AreasSpec == AreasInit /\ [][AreasNext]_areasVars

-----------------------------------------------------------------------------
\* The areas of a thread: those it keeps, and the one its call works on.
Live(t) == {area \in kept[t] \cup {call[t].area} : area.bar # NoBar}

\* Shapes; a BAR is recorded with every area that has one.
AreasTypeOK ==
    /\ imb \in ImbTables
    /\ \A x \in Bars : bar[x].lock \in BOOLEAN
    /\ \A t \in Threads :
          /\ call[t].pc \in {"idle", "scan", "take", "access"}
          /\ call[t].x \in Bars
          /\ \A area \in Live(t) : area.bar \in Bars /\ area.req \in Requests
    /\ leaked \subseteq Bars

(***************************************************************************)
(* A BAR is the window of at most one area (nfp_cpp_pcie_ops.c:93, "@lock:    *)
(* lock to specify if bar is in use"): nobody's window is turned away under   *)
(* it.                                                                        *)
(***************************************************************************)
OneAreaPerBar ==
    \A t, u \in Threads : \A a \in Live(t), b \in Live(u) :
        a.bar = b.bar => t = u /\ a = b

(***************************************************************************)
(* A BAR is in use if and only if some area has it or it was lost in one of   *)
(* two ways: nfp_reconfigure_bar refused it after nfp_alloc_bar had taken it, *)
(* or an area was freed that had not been released.  No other path through    *)
(* nfp_cpp_read, nfp_cpp_write and nfp_cpp_map_area, failed accesses          *)
(* included, costs one of the three BARs.                                     *)
(***************************************************************************)
BarsAccounted ==
    \A x \in Bars :
        bar[x].lock <=> \/ x \in leaked
                        \/ \E t \in Threads : \E a \in Live(t) : a.bar = x

\* Mode 3 makes the address of every island but an EMU direct.
MadeDirect(req) ==
    req.target = MU /\ imb.mode = 3 /\ req.island \notin {0} \cup 24 .. 26

LowLocality(req) ==
    MadeDirect(req) /\ _nfp6000_cppat_mu_locality_lsb(imb) \in req.hi

IslandOf(req) ==
    IF req.island # 0 THEN req.island
    ELSE _nfp6000_cppat_addr_decode(req.hi, req.target, imb)

(***************************************************************************)
(* An access that is not refused reaches the words that were asked for:       *)
(* through translation, the choice of the window and the offset in it, the    *)
(* bus sends it to the target, the command, the island and the offset of the  *)
(* request, and it ends where the window ends or before.  Left out are an MU  *)
(* address that is given with the lower locality bit set in mode 3, which     *)
(* nfp_cppat.h:454 makes into no direct address, and a number of more than    *)
(* six bits for the island, of which nfp_cppat.h:106 and :384 cut off the     *)
(* rest.                                                                      *)
(***************************************************************************)
AccessReachesRequest ==
    \A t \in Threads : \A a \in Live(t) :
        LET window == bar[a.bar].window IN
        /\ window.target = a.req.target
        /\ window.command[2] = a.req.command[2]
        /\ Fixed(a.req.command) => window.command = a.req.command
        /\ a.req.island \in Island /\ ~ LowLocality(a.req) =>
              _nfp6000_cppat_addr_decode(window.base, window.target, imb)
                 = IslandOf(a.req)
        /\ \A write \in BOOLEAN, offset \in {0, 4, 8}, length \in {4, 8} :
              AccessError(a, write, offset, length) = "ok" =>
                 a.low + offset + length <= 2^BarBits

(***************************************************************************)
(* Translation writes the island and nothing else: without its island the bus *)
(* address is the address of the request, made direct where mode 3 has it so  *)
(* (nfp_cppat.h:445-465).  Left out is again the lower locality bit: as the   *)
(* address is no direct one then, part of the island that was written into it *)
(* is not its island.                                                         *)
(***************************************************************************)
TranslationKeepsRest ==
    \A t \in Threads : \A a \in Live(t) :
        LET target == a.req.target
            given == IF MadeDirect(a.req)
                       THEN a.req.hi \cup {_nfp6000_cppat_mu_locality_lsb(imb) + 1}
                       ELSE a.req.hi IN
        a.req.island # 0 /\ ~ LowLocality(a.req) =>
            _nfp6000_cppat_addr_iid_clear(a.hi, target, imb)
               = _nfp6000_cppat_addr_iid_clear(given, target, imb)
==============================================================================
