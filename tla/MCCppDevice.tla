----------------------------- MODULE MCCppDevice -----------------------------
(***************************************************************************)
(* A small instance of CppDevice for TLC.                                   *)
(***************************************************************************)
EXTENDS CppDevice

Area(offset, size, where) == [offset |-> offset, size |-> size, where |-> where]
Ioc(request, arg) ==
    [fn |-> "ioctl", request |-> request, arg |-> arg, mapped |-> TRUE]
Unmapped(request, arg) == [Ioc(request, arg) EXCEPT !.mapped = FALSE]
IO(fn, count, offset) == [fn |-> fn, count |-> count, offset |-> offset]

(***************************************************************************)
(* A read that crosses a boundary and a window and a write at one; both        *)
(* larger than the heap and an int (27 here); an area that is granted, and a   *)
(* release; and requests that are refused by the shim, by the server, or by    *)
(* both, or whose argument cannot be read.                                    *)
(***************************************************************************)
MCCalls ==
    {IO("pread", 3, 8), IO("pread", 27, 0), IO("pwrite", 2, 8), IO("pwrite", 27, 0),
     Ioc(NFP_IOCTL_CPP_AREA_REQUEST, Area(Anywhere, PAGE_SIZE, "window")),
     Ioc(NFP_IOCTL_CPP_AREA_RELEASE, Area(0, PAGE_SIZE, "window")),
     Unmapped(NFP_IOCTL_CPP_AREA_RELEASE, Area(0, 0, "window")),
     Ioc(NFP_IOCTL_CPP_EXPL_REQUEST, "explicit"),
     Ioc(NFP_IOCTL_CPP_IDENTIFICATION, "ident"),
     Ioc(NFP_IOCTL_FIRMWARE_LAST, "name"),
     Ioc(1129, "offset")}

(***************************************************************************)
(* Areas only: anywhere, at the second page and at the last one, of no size,  *)
(* unaligned, and out of a BAR's reach; and the release of the first three    *)
(* pages.                                                                     *)
(***************************************************************************)
MCAreaCalls ==
    {Ioc(NFP_IOCTL_CPP_AREA_REQUEST, Area(offset, PAGE_SIZE, "window")) :
        offset \in {Anywhere, PAGE_SIZE, OffsetSpace - PAGE_SIZE, 1}}
    \cup {Ioc(NFP_IOCTL_CPP_AREA_REQUEST, Area(Anywhere, 0, "window")),
          Ioc(NFP_IOCTL_CPP_AREA_REQUEST, Area(0, PAGE_SIZE, "crosses"))}
    \cup {Ioc(NFP_IOCTL_CPP_AREA_RELEASE, Area(offset, PAGE_SIZE, "window")) :
              offset \in {0, PAGE_SIZE, 2 * PAGE_SIZE}}
==============================================================================
